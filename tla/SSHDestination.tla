--------------------------- MODULE SSHDestination ---------------------------
(***************************************************************************)
(* overlay/remote-ssh/src/ssh/sshDestination.ts: how a destination becomes *)
(* part of an authority and comes back from it.                            *)
(*                                                                         *)
(* A text is a sequence of pieces: "@", ":", "+", capital letters, and     *)
(* runs of other characters, cut where the decoder distinguishes them.     *)
(***************************************************************************)
EXTENDS Integers, Sequences, SequencesExt

CONSTANTS
    Capital,    \* the function from capital letters to small ones
    Escape,     \* the function from capital letters to \xNN
    Digit,      \* the function from pieces of two hex digits to the digit they spell
    Pair,       \* the pieces of two hex digits that spell no digit
    Object,     \* the function from hex of a JSON destination to that destination
    None

ASSUME DestinationAssumption ==
    /\ DOMAIN Capital = DOMAIN Escape
    /\ DOMAIN Digit \cap Pair = {}
    /\ Range(Escape) \cap (DOMAIN Capital \cup DOMAIN Object) = {}
    /\ \A a, b \in DOMAIN Escape : Escape[a] = Escape[b] => a = b

Destination(hostname, user, port) == [hostname |-> hostname, user |-> user, port |-> port]

\* [user@]hostname[:port], as the prompt asks for it
Spelled(d) ==
    (IF d.user = None THEN <<>> ELSE d.user \o <<"@">>)
        \o d.hostname \o (IF d.port = None THEN <<>> ELSE <<":">> \o d.port)

\* lastIndexOf, 0 for -1
LastIndex(dest, piece) == SelectLastInSeq(dest, LAMBDA x : x = piece)

Parse(dest) ==
    LET at == LastIndex(dest, "@")
        colon == LastIndex(dest, ":")
        end == IF colon # 0 THEN colon - 1 ELSE Len(dest)
    IN  Destination(SubSeq(dest, at + 1, end),
                    IF at # 0 THEN SubSeq(dest, 1, at - 1) ELSE None,
                    IF colon # 0 THEN SubSeq(dest, colon + 1, Len(dest)) ELSE None)

Mapped(dest, f) == [i \in DOMAIN dest |-> IF dest[i] \in DOMAIN f THEN f[dest[i]] ELSE dest[i]]

\* Variant: the text goes into the authority as it is.
ToPlainString(dest) == dest

ToEncodedString(dest) == Mapped(dest, Escape)

\* vscode.Uri and the list of recently opened folders
Lowercased(authority) == Mapped(authority, Capital)

\* Buffer.from(dest, 'hex') decodes up to the first piece that is not hex.
HexDecoded(dest) ==
    LET foreign == SelectInSeq(dest, LAMBDA x : x \notin DOMAIN Digit \cup Pair \cup DOMAIN Object)
    IN  SubSeq(dest, 1, IF foreign = 0 THEN Len(dest) ELSE foreign - 1)

\* JSON.parse accepts an object and a number; a number has no hostName.
IsNumber(bytes) ==
    /\ bytes # <<>> /\ Range(bytes) \subseteq DOMAIN Digit
    /\ Len(bytes) = 1 \/ Digit[bytes[1]] # 0

ParseEncoded(dest) ==
    LET bytes == HexDecoded(dest)
        escaped == [e \in Range(Escape) |-> CHOOSE c \in DOMAIN Escape : Escape[c] = e]
    IN  IF Len(bytes) = 1 /\ bytes[1] \in DOMAIN Object THEN Object[bytes[1]]
        ELSE IF IsNumber(bytes) THEN Destination(None, None, None)
        ELSE Parse(Mapped(dest, escaped))

\* [type, dest] = `ssh-remote+${authority}`.split('+'): what follows a second "+" is lost.
SplitDest(authority) ==
    LET plus == SelectInSeq(authority, LAMBDA x : x = "+")
    IN  SubSeq(authority, 1, IF plus = 0 THEN Len(authority) ELSE plus - 1)

\* What the extension reads of an authority.
DestinationOf(authority) == ParseEncoded(SplitDest(authority))
=============================================================================
