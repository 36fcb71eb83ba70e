---------------------------- MODULE VersionLedger ----------------------------
(***************************************************************************)
(* What the release pipeline promises whoever depends on the module: a     *)
(* version is given to one commit once and for ever, becomes public only   *)
(* when that commit passed every gate, stays public, and a consumer hears  *)
(* of it only then.  Nothing is said about runs, drafts and failures.      *)
(***************************************************************************)
CONSTANT Consumers

VARIABLES
  versions,  \* the versions given so far: [v, c]
  public,    \* the versions anybody can install
  known,     \* the versions each consumer was told of
  fit        \* the commits that passed every gate

Ready(v) == \E t \in versions : t.v = v /\ t.c \in fit

Init ==
  /\ \A t, u \in versions : t.v = u.v => t = u
  /\ \A v \in public : Ready(v)
  /\ \A k \in Consumers : known[k] \subseteq public

Give(t) ==
  /\ \A u \in versions : u.v # t.v
  /\ versions' = versions \cup {t}
  /\ UNCHANGED <<public, known, fit>>

Pass(c) ==
  /\ fit' = fit \cup {c}
  /\ UNCHANGED <<versions, public, known>>

Publish(v) ==
  /\ Ready(v)
  /\ public' = public \cup {v}
  /\ UNCHANGED <<versions, known, fit>>

Tell(k, v) ==
  /\ v \in public
  /\ known' = [known EXCEPT ![k] = @ \cup {v}]
  /\ UNCHANGED <<versions, public, fit>>

Next ==
  \/ \E t \in versions' : Give(t)
  \/ \E c \in fit' : Pass(c)
  \/ \E v \in public' : Publish(v)
  \/ \E k \in Consumers : \E v \in known'[k] : Tell(k, v)

Spec == Init /\ [][Next]_<<versions, public, known, fit>>
=============================================================================
