-------------------------------- MODULE Gate --------------------------------
(***************************************************************************)
(* What the gateway promises about access, without timers, scripts, event  *)
(* loops or answers.  A host is open when the firewall lets it through.    *)
(* One host at a time is pending: its gate and its state may then disagree,*)
(* and no other host's may.  While the gateway is off nothing is promised  *)
(* but that it knows no session.                                           *)
(***************************************************************************)
CONSTANTS Hosts, NoHost

VARIABLES on, state, open, pending

gateVars == <<on, state, open, pending>>

Unknown  == {"none", "UNINITIALIZED"}           \* not seen, or never admitted
Revoked  == {"PAUSED", "EXHAUSTED", "ENDED"}
Admitted == {"STARTED"}

\* The changes of state that a host may go through.
Moves ==
  {<<"UNINITIALIZED", "STARTED">>, <<"PAUSED", "STARTED">>, <<"EXHAUSTED", "STARTED">>,
   <<"ENDED", "STARTED">>,
   <<"STARTED", "PAUSED">>, <<"STARTED", "EXHAUSTED">>, <<"STARTED", "ENDED">>,
   <<"UNINITIALIZED", "ENDED">>, <<"PAUSED", "ENDED">>, <<"EXHAUSTED", "ENDED">>}

\* A host's gate agrees with its state.  A host without a session may be open:
\* its session was forgotten while it was being admitted, or it was admitted by
\* an earlier run of the gateway.
Agrees(s, o) == (s \in Admitted => o) /\ (s \in Revoked => ~o)

AllNone == [h \in Hosts |-> "none"]

Init == on = FALSE /\ state = AllNone /\ open = [h \in Hosts |-> FALSE] /\ pending = NoHost

TurnOn ==
  /\ ~on
  /\ on' = TRUE
  /\ UNCHANGED <<state, open, pending>>

Off ==
  /\ on' = FALSE
  /\ state' = AllNone
  /\ pending' = NoHost
  /\ open' \in [Hosts -> BOOLEAN]

Create(h) ==
  /\ on /\ state[h] = "none"
  /\ state' = [state EXCEPT ![h] = "UNINITIALIZED"]
  /\ UNCHANGED <<on, open, pending>>

\* A host may be created and become pending in one step.
Begin(h) ==
  /\ on /\ pending = NoHost
  /\ pending' = h
  /\ state' = [state EXCEPT ![h] = IF @ = "none" THEN "UNINITIALIZED" ELSE @]
  /\ UNCHANGED <<on, open>>

\* Sessions that ended, or have yet to start, may be forgotten at any time, several
\* at once.
Forget ==
  /\ on
  /\ \E H \in SUBSET {h \in Hosts : state[h] \in {"ENDED", "UNINITIALIZED"}} :
       state' = [h \in Hosts |-> IF h \in H THEN "none" ELSE state[h]]
  /\ UNCHANGED <<on, open, pending>>

Switch ==
  /\ on /\ pending # NoHost
  /\ \E o \in BOOLEAN : open' = [open EXCEPT ![pending] = o]
  /\ UNCHANGED <<on, state, pending>>

\* The pending host's change is committed, and its session may be forgotten in
\* the same step when it ended; or it is given up.  It may stay pending for
\* another change.
Settle ==
  /\ on /\ pending # NoHost
  /\ \E s \in {"none", "UNINITIALIZED"} \cup Revoked \cup Admitted :
       /\ \/ s = state[pending]
          \/ <<state[pending], s>> \in Moves
          \/ s = "none" /\ <<state[pending], "ENDED">> \in Moves /\ ~open[pending]
       /\ Agrees(s, open[pending])
       /\ state' = [state EXCEPT ![pending] = s]
  /\ pending' \in {NoHost, pending}
  /\ UNCHANGED <<on, open>>

Next == TurnOn \/ Off \/ Forget \/ Switch \/ Settle
        \/ \E h \in Hosts : Create(h) \/ Begin(h)

Spec == Init /\ [][Next]_gateVars

\* Every host but the pending one has the access its state says.
AccessAgrees == \A h \in Hosts \ {pending} : Agrees(state[h], open[h])
=============================================================================
