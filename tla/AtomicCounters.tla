---------------------------- MODULE AtomicCounters ----------------------------
(***************************************************************************)
(* What the global performance counter attributes promise, without the    *)
(* lock, the poll or the hardware: every call takes effect in one step.   *)
(* A counter read selects its event in the domain's control register and  *)
(* returns the count of that event for its scope, or times out having     *)
(* selected it; a fabric read of a scope that is not the active filter    *)
(* returns nothing and changes nothing; a freeze store sets the freeze    *)
(* bit; a fabric enable makes its scope the only active filter.  No call  *)
(* changes a control field it is not about.                               *)
(***************************************************************************)
EXTENDS Naturals

CONSTANTS Threads, Domains, Ports, Root, EventCodes

VARIABLES
    ctl,   \* ctl[d]: the control register of domain d
    ret    \* ret[t]: what t's last call returned

avars == <<ctl, ret>>

Scopes == {Root} \cup Ports

CtlReset == [event |-> 0, freeze |-> FALSE, filter |-> FALSE, portId |-> 0]
NoRet == [op |-> "none", st |-> "none", dom |-> "cache", ev |-> 0,
          scope |-> Root, counted |-> {}]

(* Scope s is the fabric's active filter (Root: no filter).               *)
Active(s) == IF ctl["fabric"].filter THEN s = ctl["fabric"].portId ELSE s = Root

ReadScopes(d) == IF d = "fabric" THEN Scopes ELSE {Root}

Read(t, d, e, s) ==
    /\ s \in ReadScopes(d)
    /\ d = "fabric" => Active(s)
    /\ ctl' = [ctl EXCEPT ![d].event = e]
    /\ ret' = [ret EXCEPT ![t] = [op |-> "read", st |-> "ok", dom |-> d, ev |-> e,
                                  scope |-> s, counted |-> {<<e, s>>}]]

ReadTimedOut(t, d, e) ==
    /\ ctl' = [ctl EXCEPT ![d].event = e]
    /\ ret' = [ret EXCEPT ![t] = NoRet]

ReadDisabled(t, s) ==
    /\ ~Active(s)
    /\ ret' = [ret EXCEPT ![t] = NoRet]
    /\ UNCHANGED ctl

Freeze(t, d, f) ==
    /\ ctl' = [ctl EXCEPT ![d].freeze = f]
    /\ ret' = [ret EXCEPT ![t] = NoRet]

Enable(t, s) ==
    /\ ctl' = [ctl EXCEPT !["fabric"].filter = (s # Root),
                          !["fabric"].portId = IF s = Root THEN @ ELSE s]
    /\ ret' = [ret EXCEPT ![t] = NoRet]

Init ==
    /\ ctl = [d \in Domains |-> CtlReset]
    /\ ret = [t \in Threads |-> NoRet]

Next ==
    \E t \in Threads :
        \/ \E d \in Domains, e \in EventCodes, s \in Scopes :
              Read(t, d, e, s) \/ ReadTimedOut(t, d, e)
        \/ \E s \in Scopes : ReadDisabled(t, s) \/ Enable(t, s)
        \/ \E d \in Domains, f \in BOOLEAN : Freeze(t, d, f)

Spec == Init /\ [][Next]_avars
=============================================================================
