----------------------------- MODULE MCResolver -----------------------------
(* Instances of Resolver for TLC: the configurations an attempt may read. *)
EXTENDS Resolver

\* Dynamic forwarding on, as by default, or switched off for hosts with neither agent
\* nor ProxyCommand; a plain socket, a ProxyCommand or two jump hosts with a port to
\* listen on, or a plain socket with a socket path.
SwitchedConfig ==
    {k \in Configuration :
        /\ k.jumps # 1
        /\ ~k.dynamic => ~k.agent /\ ~k.command
        /\ k.command => k.jumps = 0
        /\ k.socket => k.jumps = 0 /\ ~k.command /\ ~k.agent}

\* One jump host.
ParentConfig == {k \in Configuration : k.jumps = 1 /\ ~k.command /\ ~k.agent /\ k.dynamic /\ ~k.socket}
=============================================================================
