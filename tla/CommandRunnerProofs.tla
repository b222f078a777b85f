------------------------- MODULE CommandRunnerProofs -------------------------
(***************************************************************************)
(* What the callers of CommandRunner are told, for any number of calls, and *)
(* that the controller may think of it as RunCommand.                      *)
(*                                                                         *)
(* The argument: whoever still waits has its slot connected and its own    *)
(* child in the process, unless that child could not be started; only such *)
(* a call can make two kinds of slot wait for one child.                   *)
(***************************************************************************)
EXTENDS CommandRunner, SequenceTheorems, TLAPS

CallKinds == {"exec", "async", "wait"}
Children == {"none", "alive", "nofork", "exited", "killed", "timedout"}
CallRecords == [kind : CallKinds, child : Children, answers : Seq(Results)]
SlotSeqs == {<<>>, <<"exec">>, <<"async">>, <<"exec", "async">>, <<"async", "exec">>}

\* What the caller of call n may be told.
OwnStatus(n, answer) ==
  \/ answer \in {n, Failed}
  \/ answer = 0 /\ (calls[n].child = "killed" \/ (quitted /\ calls[n].kind = "exec"))
  \/ calls[n].child = "nofork"
  \/ answer = 0 /\ calls[n].child = "timedout"
       /\ \E m \in 1 .. n - 1 : calls[m].child = "nofork"

\* The callers of runCommand() that have not heard finished() yet, and those and the
\* caller suspended in el.exec(), to whom the next result goes.
Listens(n) == Accepted(n) /\ calls[n].answers = <<>>
Expects(n) == Listens(n) \/ (loop = "exec" /\ n = owner)

AnswersOK ==
  \A n \in DOMAIN calls :
    \/ calls[n].answers = <<>>
    \/ \E a \in Results : calls[n].answers = <<a>> /\ OwnStatus(n, a)

OwnerOK ==
  /\ owner # 0 => calls[owner].kind = "exec" /\ calls[owner].answers = <<>>
  /\ loop = "exited" => OwnStatus(owner, code)

\* The child in the process is that of whoever expects a result.
ProcessOK ==
  /\ process # 0 => calls[process].child \in {"alive", "exited", "killed"}
  /\ \A n \in DOMAIN calls : Expects(n) => process = n \/ calls[n].child = "nofork"

SlotsOK ==
  /\ loop = "exec" => Contains(slots, "exec")
  /\ Contains(slots, "async") <=> \E n \in DOMAIN calls : Listens(n)
  /\ slots # <<>> /\ process = 0 => \E m \in DOMAIN calls : calls[m].child = "nofork"
  /\ Len(slots) = 2 /\ process # 0 => \E m \in 1 .. process - 1 : calls[m].child = "nofork"

RInv ==
  /\ TypeOK /\ Len(calls) <= MaxCalls
  /\ ChildrenWatched /\ AnswersOK /\ OwnerOK /\ ProcessOK /\ SlotsOK

-----------------------------------------------------------------------------
(* Slots and results *)

\* Which kinds each of the five values of slots has.
LEMMA ContainsKinds ==
  /\ ~Contains(<<>>, "exec") /\ ~Contains(<<>>, "async")
  /\ Contains(<<"exec">>, "exec") /\ ~Contains(<<"exec">>, "async")
  /\ ~Contains(<<"async">>, "exec") /\ Contains(<<"async">>, "async")
  /\ Contains(<<"exec", "async">>, "exec") /\ Contains(<<"exec", "async">>, "async")
  /\ Contains(<<"async", "exec">>, "exec") /\ Contains(<<"async", "exec">>, "async")
BY DEF Contains

LEMMA PairOfKinds ==
  ASSUME NEW j \in {"exec", "async"}, NEW k \in {"exec", "async"}
  PROVE  Append(<<j>>, k) = <<j, k>>
<1> DEFINE S == {"exec", "async"}
           s == Append(<<j>>, k)
           t == <<j, k>>
<1>1. s \in Seq(S) /\ t \in Seq(S) /\ Len(s) = 2 /\ Len(t) = 2
  OBVIOUS
<1>2. \A i \in 1 .. 2 : s[i] = t[i]
  OBVIOUS
<1> HIDE DEF S, s, t
<1>3. s = t
  BY <1>1, <1>2, SeqEqual
<1> QED BY <1>3 DEF s, t

LEMMA ConnectedSlots ==
  ASSUME slots \in SlotSeqs, NEW kind \in {"exec", "async"}
  PROVE  /\ Connected(kind) \in SlotSeqs
         /\ Connected(kind) # <<>>
         /\ \A k \in {"exec", "async"} :
              Contains(Connected(kind), k) <=> k = kind \/ Contains(slots, k)
         /\ Len(Connected(kind)) = 2 => slots # <<>>
<1>1. CASE Contains(slots, kind)
  <2>1. Connected(kind) = slots
    BY <1>1 DEF Connected
  <2> QED BY <1>1, <2>1, ContainsKinds DEF SlotSeqs
<1>2. CASE ~Contains(slots, kind)
  <2>1. Connected(kind) = Append(slots, kind)
    BY <1>2 DEF Connected
  <2>2. slots \in {<<>>, <<"exec">>, <<"async">>}
    BY <1>2, ContainsKinds DEF SlotSeqs
  <2>3. CASE slots = <<>>
    BY <2>1, <2>3, ContainsKinds DEF SlotSeqs
  <2>4. CASE slots # <<>>
    <3>1. \/ slots = <<"exec">> /\ kind = "async"
          \/ slots = <<"async">> /\ kind = "exec"
      BY <1>2, <2>2, <2>4, ContainsKinds
    <3>2. Connected(kind) \in {<<"exec", "async">>, <<"async", "exec">>}
      BY <2>1, <3>1, PairOfKinds
    <3> QED BY <2>4, <3>1, <3>2, ContainsKinds DEF SlotSeqs
  <2> QED BY <2>3, <2>4
<1> QED BY <1>1, <1>2

LEMMA TwoSlots ==
  ASSUME slots \in SlotSeqs, NEW kind \in {"exec", "async"}, Contains(slots, kind),
         slots[1] # kind
  PROVE  Len(slots) = 2
BY DEF Contains, SlotSeqs

LEMMA CallsAre ==
  ASSUME TypeOK
  PROVE  /\ calls \in Seq(CallRecords) /\ slots \in SlotSeqs
         /\ Len(calls) \in Nat /\ DOMAIN calls = 1 .. Len(calls)
         /\ \A n \in DOMAIN calls : calls[n] \in CallRecords
<1>1. calls \in Seq(CallRecords)
  BY DEF TypeOK, CallRecords, CallKinds, Children
<1>2. slots \in SlotSeqs
  BY DEF TypeOK, SlotSeqs
<1> QED BY <1>1, <1>2, LenProperties, ElementOfSeq

LEMMA ResultsAre ==
  ASSUME RInv
  PROVE  /\ \A n \in DOMAIN calls : n \in Results
         /\ Failed \in Results /\ 0 \in Results
         /\ Status \in Results
BY RunnerAssumption, CallsAre DEF RInv, TypeOK, Results, CallIds, Status, Failed

-----------------------------------------------------------------------------
(* A call is added *)

Adds(kind, child, answers) == calls' = Append(calls, NewCall(kind, child, answers))

LEMMA AddedCalls ==
  ASSUME TypeOK, NEW kind \in CallKinds, NEW child \in Children, NEW answers \in Seq(Results),
         Adds(kind, child, answers)
  PROVE  /\ calls' \in Seq(CallRecords) /\ Len(calls') = Len(calls) + 1
         /\ DOMAIN calls' = 1 .. Len(calls) + 1
         /\ \A n \in DOMAIN calls : calls'[n] = calls[n]
         /\ LET new == calls'[Len(calls) + 1] IN
              new.kind = kind /\ new.child = child /\ new.answers = answers
<1> DEFINE new == NewCall(kind, child, answers)
<1>1. new \in CallRecords /\ new.kind = kind /\ new.child = child /\ new.answers = answers
  BY DEF NewCall, CallRecords
<1>2. calls \in Seq(CallRecords) /\ DOMAIN calls = 1 .. Len(calls)
  BY CallsAre
<1>3. calls' = Append(calls, new)
  BY DEF Adds
<1> HIDE DEF new
<1> QED BY <1>1, <1>2, <1>3, AppendProperties, LenProperties

\* What the callers of old calls may be told does not change with a new call.
LEMMA OldStatus ==
  ASSUME TypeOK, quitted' = quitted \/ quitted', NEW n \in DOMAIN calls,
         \A m \in DOMAIN calls : calls'[m] = calls[m]
  PROVE  \A a : OwnStatus(n, a) => OwnStatus(n, a)'
<1>1. calls'[n] = calls[n] /\ \A m \in 1 .. n - 1 : calls'[m] = calls[m]
  BY CallsAre
<1> QED BY <1>1 DEF OwnStatus

\* What a caller may be told it may be told later, as long as calls are what they were.
LEMMA StatusKept ==
  ASSUME RInv, quitted = TRUE => quitted' = TRUE,
         \A n \in DOMAIN calls :
           /\ calls'[n].kind = calls[n].kind
           /\ calls[n].child # "alive" => calls'[n].child = calls[n].child
  PROVE  \A n \in DOMAIN calls : \A a : OwnStatus(n, a) => OwnStatus(n, a)'
<1>1. SUFFICES ASSUME NEW n \in DOMAIN calls, NEW a, OwnStatus(n, a)
               PROVE  OwnStatus(n, a)'
  OBVIOUS
<1>2. \A m \in 1 .. n - 1 : m \in DOMAIN calls
  BY CallsAre DEF RInv
<1>3. CASE a \in {n, Failed}
  BY <1>3 DEF OwnStatus
<1>4. CASE a = 0 /\ (calls[n].child = "killed" \/ (quitted /\ calls[n].kind = "exec"))
  BY <1>4 DEF OwnStatus
<1>5. CASE calls[n].child = "nofork"
  BY <1>5 DEF OwnStatus
<1>6. CASE a = 0 /\ calls[n].child = "timedout" /\ \E m \in 1 .. n - 1 : calls[m].child = "nofork"
  <2>1. PICK m \in 1 .. n - 1 : calls[m].child = "nofork"
    BY <1>6
  <2>2. calls'[m].child = "nofork" /\ calls'[n].child = "timedout"
    BY <1>2, <1>6, <2>1
  <2> QED BY <1>6, <2>1, <2>2 DEF OwnStatus
<1> QED BY <1>1, <1>3, <1>4, <1>5, <1>6 DEF OwnStatus

\* The runner refuses, or runs the command without its QProcess.
LEMMA AnsweredAtOnce ==
  ASSUME RInv, UNCHANGED <<process, armed, slots, loop, code, owner, appVars>>,
         Len(calls) < MaxCalls,
         NEW kind \in CallKinds, NEW child \in Children, NEW result \in Results,
         Adds(kind, child, <<result>>),
         NEW new \in Nat, new = Len(calls) + 1, OwnStatus(new, result)'
  PROVE  RInv'
<1>1. /\ calls' \in Seq(CallRecords) /\ Len(calls') = new /\ Len(calls) \in Nat
      /\ DOMAIN calls' = 1 .. new /\ DOMAIN calls = 1 .. Len(calls)
      /\ \A n \in DOMAIN calls : calls'[n] = calls[n]
      /\ calls'[new].answers = <<result>> /\ <<result>> # <<>>
  <2>1. <<result>> \in Seq(Results) /\ <<result>> # <<>>
    OBVIOUS
  <2> QED BY <2>1, AddedCalls, CallsAre DEF RInv
<1>2. TypeOK' /\ Len(calls') <= MaxCalls
  BY <1>1, RunnerAssumption DEF RInv, TypeOK, CallRecords, CallKinds, Children, appVars
<1>3. ChildrenWatched'
  BY DEF RInv, ChildrenWatched
<1>4. AnswersOK'
  <2>1. \A n \in DOMAIN calls : \A a : OwnStatus(n, a) => OwnStatus(n, a)'
    BY <1>1, OldStatus DEF RInv, appVars
  <2>2. ASSUME NEW n \in DOMAIN calls, calls[n].answers # <<>>
        PROVE  \E a \in Results : calls'[n].answers = <<a>> /\ OwnStatus(n, a)'
    <3>1. PICK a \in Results : calls[n].answers = <<a>> /\ OwnStatus(n, a)
      BY <2>2 DEF RInv, AnswersOK
    <3> QED BY <1>1, <2>1, <3>1
  <2> QED BY <1>1, <2>2 DEF AnswersOK
<1>5. \A n \in DOMAIN calls' : Listens(n)' <=> n \in DOMAIN calls /\ Listens(n)
  <2>1. ~Listens(new)'
    BY <1>1 DEF Listens
  <2>2. \A n \in DOMAIN calls : Listens(n)' <=> Listens(n)
    BY <1>1 DEF Listens, Accepted
  <2> QED BY <1>1, <2>1, <2>2
<1>6. owner \in 0 .. Len(calls) /\ process \in 0 .. Len(calls)
      /\ (loop # "idle" => owner \in DOMAIN calls)
  BY <1>1 DEF RInv, TypeOK
<1>7. OwnerOK'
  BY <1>1, <1>6, OldStatus DEF RInv, OwnerOK, appVars
<1>8. ProcessOK'
  BY <1>1, <1>5, <1>6 DEF RInv, ProcessOK, Expects
<1>9. SlotsOK'
  BY <1>1, <1>5, <1>6 DEF RInv, SlotsOK
<1> QED BY <1>2, <1>3, <1>4, <1>7, <1>8, <1>9 DEF RInv

LEMMA StartsInv ==
  ASSUME RInv, Len(calls) < MaxCalls, ~Refuses, UNCHANGED appVars,
         NEW kind \in {"exec", "async"}, NEW answers \in {<<>>, <<Failed>>},
         Starts(kind, answers), code' = code,
         \/ kind = "async" /\ answers = <<>> /\ UNCHANGED <<loop, owner>>
         \/ /\ kind = "exec" /\ answers = <<>>
            /\ loop = "idle" /\ loop' = "exec" /\ owner' = Len(calls) + 1
         \/ kind = "exec" /\ answers = <<Failed>> /\ UNCHANGED <<loop, owner>>
  PROVE  RInv'
<1>0. PICK new \in Nat : new = Len(calls) + 1
  BY CallsAre DEF RInv
<1>1. PICK child \in {"alive", "nofork"} :
        /\ Adds(kind, child, answers)
        /\ process = 0 /\ process' = IF child = "alive" THEN new ELSE 0
        /\ armed' = TRUE /\ slots' = Connected(kind)
  BY <1>0 DEF Starts, Refuses, Adds
<1>2. /\ calls' \in Seq(CallRecords) /\ Len(calls') = new /\ Len(calls) \in Nat
      /\ new = Len(calls) + 1 /\ <<Failed>> # <<>>
      /\ DOMAIN calls' = 1 .. new /\ DOMAIN calls = 1 .. Len(calls)
      /\ \A n \in DOMAIN calls : calls'[n] = calls[n]
      /\ calls'[new].answers = answers /\ calls'[new].kind = kind /\ calls'[new].child = child
  <2>1. answers \in Seq(Results)
    <3>1. Failed \in Results
      BY DEF Results
    <3>2. <<>> \in Seq(Results) /\ <<Failed>> \in Seq(Results)
      BY <3>1
    <3> QED BY <3>2
  <2> QED BY <1>0, <1>1, <2>1, AddedCalls, CallsAre DEF RInv, CallKinds, Children
<1>3. slots \in SlotSeqs /\ slots' \in SlotSeqs /\ slots' # <<>>
      /\ (\A k \in {"exec", "async"} : Contains(slots', k) <=> k = kind \/ Contains(slots, k))
      /\ (Len(slots') = 2 => slots # <<>>)
  BY <1>1, ConnectedSlots, CallsAre DEF RInv
<1>4. owner \in 0 .. Len(calls) /\ (loop # "idle" <=> owner # 0)
      /\ (loop # "idle" => owner \in DOMAIN calls)
      /\ loop \in {"idle", "exec", "exited"}
  BY <1>2 DEF RInv, TypeOK
<1>5. TypeOK' /\ Len(calls') <= MaxCalls
  <2>1. owner' \in 0 .. Len(calls') /\ (owner' = 0 <=> loop' = "idle")
        /\ loop' \in {"idle", "exec", "exited"}
    BY <1>2, <1>4
  <2>2. process' \in 0 .. Len(calls')
    BY <1>1, <1>2
  <2> QED BY <1>1, <1>2, <1>3, <2>1, <2>2, RunnerAssumption
          DEF RInv, TypeOK, CallRecords, CallKinds, Children, SlotSeqs, appVars
<1>6. ChildrenWatched'
  BY <1>1, <1>3 DEF ChildrenWatched
<1>7. \A n \in DOMAIN calls : \A a : OwnStatus(n, a) => OwnStatus(n, a)'
  BY <1>2, OldStatus DEF RInv, appVars
<1>8. AnswersOK'
  <2>1. OwnStatus(new, Failed)' /\ Failed \in Results
    BY DEF OwnStatus, Results
  <2>2. ASSUME NEW n \in DOMAIN calls, calls[n].answers # <<>>
        PROVE  \E a \in Results : calls'[n].answers = <<a>> /\ OwnStatus(n, a)'
    <3>1. PICK a \in Results : calls[n].answers = <<a>> /\ OwnStatus(n, a)
      BY <2>2 DEF RInv, AnswersOK
    <3> QED BY <1>2, <1>7, <3>1
  <2> QED BY <1>2, <2>1, <2>2 DEF AnswersOK
<1>9. OwnerOK'
  BY <1>2, <1>4, <1>7 DEF RInv, OwnerOK
<1>10. /\ \A n \in DOMAIN calls : Listens(n)' <=> Listens(n)
       /\ Listens(new)' <=> kind = "async"
  BY <1>2 DEF Listens, Accepted
<1>11. ProcessOK'
  <2>1. \A n \in DOMAIN calls : Expects(n)' => calls[n].child = "nofork"
    BY <1>1, <1>2, <1>4, <1>10 DEF RInv, ProcessOK, Expects
  <2> QED BY <1>1, <1>2, <2>1 DEF ProcessOK
<1>12. SlotsOK'
  <2>1. loop' = "exec" => Contains(slots', "exec")
    BY <1>3 DEF RInv, SlotsOK
  <2>2. Contains(slots', "async") <=> \E n \in DOMAIN calls' : Listens(n)'
    BY <1>2, <1>3, <1>10 DEF RInv, SlotsOK
  <2>3. process' = 0 => \E m \in DOMAIN calls' : calls'[m].child = "nofork"
    BY <1>1, <1>2
  <2>4. Len(slots') = 2 /\ process' # 0 => \E m \in 1 .. process' - 1 : calls'[m].child = "nofork"
    BY <1>1, <1>2, <1>3 DEF RInv, SlotsOK
  <2> QED BY <2>1, <2>2, <2>3, <2>4 DEF SlotsOK
<1> QED BY <1>5, <1>6, <1>8, <1>9, <1>11, <1>12 DEF RInv

-----------------------------------------------------------------------------
(* Results are delivered *)

\* Whether or not its child was killed, every call is still the same call.
SameCalls(cs) ==
  /\ cs \in Seq(CallRecords) /\ Len(cs) = Len(calls)
  /\ \A n \in DOMAIN calls :
       /\ cs[n].kind = calls[n].kind /\ cs[n].answers = calls[n].answers
       /\ \/ cs[n].child = calls[n].child
          \/ n = process /\ calls[n].child = "alive" /\ cs[n].child = "timedout"

\* All that listen hear the result, and no one else does.
LEMMA EmittedCalls ==
  ASSUME RInv, NEW cs, SameCalls(cs), NEW result \in Results, NEW results,
         results = IF Contains(slots, "async") THEN <<result>> ELSE <<>>,
         calls' = Emitted(cs, results)
  PROVE  /\ calls' \in Seq(CallRecords) /\ Len(calls') = Len(calls)
         /\ DOMAIN calls' = DOMAIN calls
         /\ \A n \in DOMAIN calls :
              /\ calls'[n].kind = calls[n].kind
              /\ calls'[n].child = cs[n].child
              /\ calls'[n].answers = IF Listens(n) THEN <<result>> ELSE calls[n].answers
<1>1. /\ Len(calls) \in Nat /\ DOMAIN calls = 1 .. Len(calls) /\ DOMAIN cs = DOMAIN calls
      /\ \A n \in DOMAIN calls : cs[n] \in CallRecords
  BY CallsAre, LenProperties, ElementOfSeq DEF SameCalls, RInv
<1>2. ASSUME NEW n \in DOMAIN calls
      PROVE  /\ calls'[n] \in CallRecords
             /\ calls'[n].kind = calls[n].kind
             /\ calls'[n].child = cs[n].child
             /\ calls'[n].answers = IF Listens(n) THEN <<result>> ELSE calls[n].answers
  <2>1. cs[n] \in CallRecords /\ cs[n].kind = calls[n].kind /\ cs[n].answers = calls[n].answers
    BY <1>1 DEF SameCalls
  <2>2. calls'[n] = IF n \in Listeners THEN [cs[n] EXCEPT !.answers = @ \o results] ELSE cs[n]
    BY <1>1 DEF Emitted
  <2>3. CASE Contains(slots, "async")
    <3>1. n \in Listeners <=> Listens(n)
      BY <2>3 DEF Listeners, Listens, RInv, SlotsOK
    <3>2. <<>> \o results = <<result>> /\ <<result>> \in Seq(Results)
      BY <2>3
    <3>3. Listens(n) => cs[n].answers \o results = <<result>>
      BY <2>1, <3>2 DEF Listens
    <3> HIDE DEF Listens
    <3> QED BY <2>1, <2>2, <3>1, <3>2, <3>3 DEF CallRecords
  <2>4. CASE ~Contains(slots, "async")
    <3>1. ~Listens(n)
      BY <2>4 DEF RInv, SlotsOK
    <3>2. cs[n].answers \in Seq(Results)
      BY <2>1 DEF CallRecords
    <3>3. cs[n].answers \o results = cs[n].answers
      BY <2>4, <3>2, ConcatEmptySeq
    <3> QED BY <2>1, <2>2, <3>1, <3>3 DEF CallRecords
  <2> QED BY <2>3, <2>4
<1>3. calls' \in [1 .. Len(calls) -> CallRecords]
  BY <1>1, <1>2 DEF Emitted
<1>4. calls' \in Seq(CallRecords) /\ Len(calls') = Len(calls)
  BY <1>1, <1>3
<1> QED BY <1>1, <1>2, <1>3, <1>4

\* The first of two events is heard and ends the wait of all.
LEMMA DeliveredInv ==
  ASSUME RInv, LoopRuns, NEW cs, SameCalls(cs),
         NEW async \in Results, NEW exec \in Results, NEW asyncs, NEW execs,
         asyncs = IF Contains(slots, "async") THEN <<async>> ELSE <<>>,
         execs = IF Contains(slots, "exec") THEN <<exec>> ELSE <<>>,
         Delivered(cs, asyncs, execs),
         process' = 0, slots' = <<>>, armed' = FALSE,
         \A n \in DOMAIN calls : Listens(n) => OwnStatus(n, async)',
         NEW o, o = owner, loop = "exec" => OwnStatus(o, exec)'
  PROVE  RInv'
<1>1. /\ calls' \in Seq(CallRecords) /\ Len(calls') = Len(calls) /\ Len(calls) \in Nat
      /\ DOMAIN calls' = DOMAIN calls /\ DOMAIN calls = 1 .. Len(calls)
  BY EmittedCalls, CallsAre DEF Delivered, RInv
<1>2. \A n \in DOMAIN calls :
        /\ calls'[n].kind = calls[n].kind
        /\ calls[n].child # "alive" => calls'[n].child = calls[n].child
        /\ calls'[n].answers = IF Listens(n) THEN <<async>> ELSE calls[n].answers
  BY EmittedCalls DEF Delivered, SameCalls
<1>3. owner' = owner /\ UNCHANGED appVars /\ loop # "exited" /\ loop \in {"idle", "exec", "exited"}
      /\ owner \in 0 .. Len(calls) /\ (owner = 0 <=> loop = "idle")
  BY DEF Delivered, LoopRuns, RInv, TypeOK
<1>4. IF loop = "exec" THEN loop' = "exited" /\ code' = exec ELSE UNCHANGED <<loop, code>>
  <2>1. Contains(slots, "exec") => execs # <<>> /\ Last(execs) = exec
    BY DEF Last
  <2> QED BY <2>1 DEF Delivered, RInv, SlotsOK
<1>5. TypeOK' /\ Len(calls') <= MaxCalls
  <2>1. loop' \in {"idle", "exec", "exited"} /\ code' \in Results
        /\ (owner' = 0 <=> loop' = "idle")
    BY <1>3, <1>4 DEF RInv, TypeOK
  <2>2. process' \in 0 .. Len(calls') /\ owner' \in 0 .. Len(calls') /\ Len(calls') <= MaxCalls
    BY <1>1, <1>3 DEF RInv
  <2>3. armed' \in BOOLEAN /\ main' \in {"before", "runs", "after"}
        /\ quitNow' \in BOOLEAN /\ quitted' \in BOOLEAN
    BY <1>3 DEF RInv, TypeOK, appVars
  <2>4. slots' \in SlotSeqs
    BY DEF SlotSeqs
  <2> QED BY <1>1, <2>1, <2>2, <2>3, <2>4 DEF TypeOK, CallRecords, CallKinds, Children, SlotSeqs
<1>6. \A n \in DOMAIN calls : \A a : OwnStatus(n, a) => OwnStatus(n, a)'
  BY <1>2, <1>3, StatusKept DEF appVars
<1>7. AnswersOK'
  <2>1. ASSUME NEW n \in DOMAIN calls, ~Listens(n), calls[n].answers # <<>>
        PROVE  \E a \in Results : calls'[n].answers = <<a>> /\ OwnStatus(n, a)'
    <3>1. PICK a \in Results : calls[n].answers = <<a>> /\ OwnStatus(n, a)
      BY <2>1 DEF RInv, AnswersOK
    <3> QED BY <1>2, <1>6, <2>1, <3>1
  <2> QED BY <1>1, <1>2, <2>1 DEF AnswersOK
<1>8. OwnerOK'
  <2>1. owner # 0 => calls'[owner].kind = "exec" /\ calls'[owner].answers = <<>>
    BY <1>1, <1>2, <1>3 DEF RInv, OwnerOK, Listens, Accepted
  <2>2. loop' = "exited" => OwnStatus(owner, code)'
    BY <1>3, <1>4 DEF OwnStatus
  <2> QED BY <1>3, <2>1, <2>2 DEF OwnerOK
<1>9. \A n \in DOMAIN calls : ~Listens(n)'
  <2>1. <<async>> # <<>>
    OBVIOUS
  <2>2. \A n \in DOMAIN calls : calls[n].child = "none" => calls'[n].child = "none"
    BY <1>2
  <2>3. ASSUME NEW n \in DOMAIN calls, Listens(n)'
        PROVE  FALSE
    <3>1. calls'[n].answers = <<>> /\ ~Listens(n) /\ calls[n].answers = <<>>
      BY <1>2, <2>1, <2>3 DEF Listens
    <3>2. calls[n].kind # "async" \/ calls[n].child = "none"
      BY <3>1 DEF Listens, Accepted
    <3> QED BY <1>2, <2>2, <2>3, <3>2 DEF Listens, Accepted
  <2> QED BY <2>3
<1>10. ProcessOK' /\ SlotsOK' /\ ChildrenWatched'
  <2>1. loop' # "exec" /\ Len(<<>>) = 0
    BY <1>3, <1>4
  <2> QED BY <1>1, <1>9, <2>1, ContainsKinds DEF ProcessOK, SlotsOK, ChildrenWatched, Expects
<1> QED BY <1>5, <1>7, <1>8, <1>10 DEF RInv

LEMMA FinishesInv ==
  ASSUME RInv, Finishes
  PROVE  RInv'
<1>1. Status \in Results /\ process \in DOMAIN calls /\ DOMAIN calls = 1 .. Len(calls)
  BY ResultsAre, CallsAre DEF Finishes, RInv, TypeOK
<1>2. SameCalls(calls)
  BY CallsAre DEF SameCalls, RInv
<1>3. \A n \in DOMAIN calls : calls'[n].child = calls[n].child
  BY <1>1, <1>2, EmittedCalls DEF Finishes, Delivered, To
<1>4. PICK result \in Results : result = Status
  BY <1>1
<1>5. ASSUME NEW n \in DOMAIN calls, Expects(n)
      PROVE  OwnStatus(n, result)'
  <2>1. CASE calls[n].child = "nofork"
    BY <1>3, <2>1 DEF OwnStatus
  <2>2. CASE process = n
    BY <1>3, <1>4, <2>2 DEF OwnStatus, Status, Finishes
  <2> QED BY <1>5, <2>1, <2>2 DEF RInv, ProcessOK
<1>6. PICK o : o = owner
  OBVIOUS
<1>7. loop = "exec" => o \in DOMAIN calls /\ Expects(o)
  BY <1>1, <1>6 DEF RInv, TypeOK, Expects
<1>8. Delivered(calls, IF Contains(slots, "async") THEN <<result>> ELSE <<>>,
                       IF Contains(slots, "exec") THEN <<result>> ELSE <<>>)
  BY <1>4 DEF Finishes, To
<1> QED BY <1>2, <1>5, <1>6, <1>7, <1>8, DeliveredInv DEF Finishes, Expects

LEMMA TimesOutInv ==
  ASSUME RInv, TimesOut
  PROVE  RInv'
<1>1. /\ Status \in Results /\ Failed \in Results /\ process \in 0 .. Len(calls)
      /\ DOMAIN calls = 1 .. Len(calls) /\ Len(calls) \in Nat /\ slots \in SlotSeqs
  BY ResultsAre, CallsAre DEF RInv, TypeOK
<1>2. SameCalls(Killed)
  <2>1. SameCalls(calls)
    BY CallsAre DEF SameCalls, RInv
  <2>2. CASE process # 0 /\ calls[process].child = "alive"
    <3>1. process \in DOMAIN calls /\ calls[process] \in CallRecords /\ calls \in Seq(CallRecords)
      BY <1>1, <2>2, CallsAre DEF RInv
    <3>2. PICK new : new = [calls[process] EXCEPT !.child = "timedout"]
      OBVIOUS
    <3>3. /\ new \in CallRecords /\ new.kind = calls[process].kind
          /\ new.answers = calls[process].answers /\ new.child = "timedout"
      BY <3>1, <3>2 DEF CallRecords, Children
    <3>4. Killed = [calls EXCEPT ![process] = new]
      BY <2>2, <3>2 DEF Killed
    <3>5. /\ Killed \in Seq(CallRecords) /\ Len(Killed) = Len(calls)
          /\ \A n \in DOMAIN calls : Killed[n] = IF n = process THEN new ELSE calls[n]
      BY <1>1, <3>1, <3>3, <3>4, ExceptSeq
    <3> QED BY <2>2, <3>3, <3>5 DEF SameCalls
  <2>3. CASE ~(process # 0 /\ calls[process].child = "alive")
    BY <2>1, <2>3 DEF Killed
  <2> QED BY <2>2, <2>3
<1>3. \A kind \in {"exec", "async"} : HeardAtTimeout(kind) =
        IF Contains(slots, kind)
        THEN <<IF slots[1] = kind \/ process = 0 THEN Failed ELSE Status>> ELSE <<>>
  BY DEF HeardAtTimeout, To
<1>4. PICK async \in Results :
        async = IF slots[1] = "async" \/ process = 0 THEN Failed ELSE Status
  BY <1>1
<1>5. PICK exec \in Results :
        exec = IF slots[1] = "exec" \/ process = 0 THEN Failed ELSE Status
  BY <1>1
<1>6. Delivered(Killed, IF Contains(slots, "async") THEN <<async>> ELSE <<>>,
                        IF Contains(slots, "exec") THEN <<exec>> ELSE <<>>)
  BY <1>3, <1>4, <1>5 DEF TimesOut
<1>7. \A n \in DOMAIN calls : calls'[n].child = Killed[n].child
  BY <1>2, <1>6, EmittedCalls DEF Delivered
<1>8. ASSUME NEW n \in DOMAIN calls, Expects(n), NEW kind \in {"exec", "async"},
             Contains(slots, kind),
             NEW result, result = IF slots[1] = kind \/ process = 0 THEN Failed ELSE Status
      PROVE  OwnStatus(n, result)'
  <2>1. CASE result = Failed
    BY <2>1 DEF OwnStatus
  <2>2. CASE calls[n].child = "nofork"
    <3>1. calls'[n].child = "nofork"
      BY <1>2, <1>7, <2>2 DEF SameCalls
    <3> QED BY <3>1 DEF OwnStatus
  <2>3. CASE slots[1] # kind /\ process = n
    <3>1. PICK m \in 1 .. n - 1 : calls[m].child = "nofork"
      BY <1>1, <1>8, <2>3, TwoSlots DEF RInv, SlotsOK
    <3>2. calls'[m].child = "nofork"
      BY <1>1, <1>2, <1>7, <3>1 DEF SameCalls
    <3>3. calls[n].child \in {"alive", "exited", "killed"}
      BY <1>1, <2>3 DEF RInv, ProcessOK
    <3>4. calls'[n].child = IF calls[n].child = "alive" THEN "timedout" ELSE calls[n].child
      <4>1. CASE calls[n].child = "alive"
        <5>1. calls[n] \in CallRecords /\ calls \in Seq(CallRecords)
          BY CallsAre DEF RInv
        <5> QED BY <1>1, <1>7, <2>3, <4>1, <5>1 DEF Killed, CallRecords
      <4>2. CASE calls[n].child # "alive"
        BY <1>2, <1>7, <4>2 DEF SameCalls
      <4> QED BY <4>1, <4>2
    <3>5. result = IF calls[n].child = "exited" THEN n ELSE 0
      BY <1>1, <1>8, <2>3 DEF Status
    <3> QED BY <3>1, <3>2, <3>3, <3>4, <3>5 DEF OwnStatus
  <2> QED BY <1>8, <2>1, <2>2, <2>3 DEF RInv, ProcessOK
<1>9. PICK o : o = owner
  OBVIOUS
<1>10. loop = "exec" => o \in DOMAIN calls /\ Expects(o) /\ Contains(slots, "exec")
  BY <1>1, <1>9 DEF RInv, TypeOK, Expects, SlotsOK
<1>11. \A n \in DOMAIN calls : Listens(n) => OwnStatus(n, async)'
  BY <1>4, <1>8 DEF RInv, SlotsOK, Expects
<1>12. loop = "exec" => OwnStatus(o, exec)'
  BY <1>5, <1>8, <1>10
<1> QED BY <1>2, <1>6, <1>9, <1>11, <1>12, DeliveredInv DEF TimesOut

-----------------------------------------------------------------------------
(* The other steps *)

LEMMA ChildEndsInv ==
  ASSUME RInv, ChildEnds
  PROVE  RInv'
<1>1. PICK child \in {"exited", "killed"} : calls' = [calls EXCEPT ![process].child = child]
  BY DEF ChildEnds
<1>2. /\ process \in DOMAIN calls /\ calls[process].child = "alive"
      /\ DOMAIN calls = 1 .. Len(calls) /\ Len(calls) \in Nat
      /\ calls[process] \in CallRecords /\ calls \in Seq(CallRecords)
      /\ UNCHANGED <<process, armed, slots, loop, code, owner, appVars>>
  BY CallsAre DEF ChildEnds, RInv, TypeOK
<1>3. PICK new : new = [calls[process] EXCEPT !.child = child]
  OBVIOUS
<1>4. /\ new \in CallRecords /\ new.kind = calls[process].kind
      /\ new.answers = calls[process].answers /\ new.child = child
  BY <1>2, <1>3 DEF CallRecords, Children
<1>5. calls' = [calls EXCEPT ![process] = new]
  BY <1>1, <1>3
<1>6. /\ calls' \in Seq(CallRecords) /\ Len(calls') = Len(calls) /\ DOMAIN calls' = DOMAIN calls
      /\ \A n \in DOMAIN calls : calls'[n] = IF n = process THEN new ELSE calls[n]
  BY <1>2, <1>4, <1>5, ExceptSeq, LenProperties
<1>7. \A n \in DOMAIN calls :
        /\ calls'[n].kind = calls[n].kind /\ calls'[n].answers = calls[n].answers
        /\ calls'[n].child = IF n = process THEN child ELSE calls[n].child
  BY <1>4, <1>6
<1>8. \A n \in DOMAIN calls : \A a : OwnStatus(n, a) => OwnStatus(n, a)'
  BY <1>2, <1>7 DEF OwnStatus, appVars
<1>9. \A n \in DOMAIN calls : (Listens(n)' <=> Listens(n)) /\ (Expects(n)' <=> Expects(n))
  BY <1>2, <1>7 DEF Listens, Accepted, Expects
<1>10. owner \in 0 .. Len(calls) /\ (owner = 0 <=> loop = "idle")
  BY DEF RInv, TypeOK
<1>11. TypeOK' /\ Len(calls') <= MaxCalls
  BY <1>2, <1>6 DEF RInv, TypeOK, CallRecords, CallKinds, Children, appVars
<1>12. AnswersOK'
  BY <1>6, <1>7, <1>8 DEF RInv, AnswersOK
<1>13. OwnerOK'
  <2>1. owner # 0 => owner \in DOMAIN calls
    BY <1>2, <1>10
  <2> QED BY <1>2, <1>7, <1>8, <1>10, <2>1 DEF RInv, OwnerOK
<1>14. ProcessOK'
  BY <1>2, <1>6, <1>7, <1>9 DEF RInv, ProcessOK
<1>15. SlotsOK'
  BY <1>2, <1>6, <1>7, <1>9 DEF RInv, SlotsOK
<1>16. ChildrenWatched'
  BY <1>2 DEF RInv, ChildrenWatched
<1> QED BY <1>11, <1>12, <1>13, <1>14, <1>15, <1>16 DEF RInv

LEMMA ExecReturnsInv ==
  ASSUME RInv, ExecReturns
  PROVE  RInv'
<1>1. /\ owner \in DOMAIN calls /\ DOMAIN calls = 1 .. Len(calls) /\ Len(calls) \in Nat
      /\ calls[owner] \in CallRecords /\ calls \in Seq(CallRecords) /\ code \in Results
      /\ loop = "exited" /\ loop' = "idle" /\ owner' = 0
      /\ UNCHANGED <<process, armed, slots, code, appVars>>
  BY CallsAre DEF ExecReturns, RInv, TypeOK
<1>2. calls[owner].answers = <<>> /\ calls[owner].kind = "exec" /\ OwnStatus(owner, code)
  BY <1>1 DEF RInv, OwnerOK
<1>3. PICK new : new = [calls[owner] EXCEPT !.answers = <<code>>]
  OBVIOUS
<1>4. /\ new \in CallRecords /\ new.kind = calls[owner].kind
      /\ new.answers = <<code>> /\ new.child = calls[owner].child
  <2>1. <<code>> \in Seq(Results)
    BY <1>1
  <2>2. PICK answers \in Seq(Results) : answers = <<code>>
    BY <2>1
  <2> QED BY <1>1, <1>3, <2>2 DEF CallRecords
<1>5. calls' = [calls EXCEPT ![owner] = new]
  <2>1. Append(calls[owner].answers, code) = <<code>>
    BY <1>2
  <2> QED BY <1>3, <2>1 DEF ExecReturns
<1>6. /\ calls' \in Seq(CallRecords) /\ Len(calls') = Len(calls) /\ DOMAIN calls' = DOMAIN calls
      /\ \A n \in DOMAIN calls : calls'[n] = IF n = owner THEN new ELSE calls[n]
  BY <1>1, <1>4, <1>5, ExceptSeq, LenProperties
<1>7. \A n \in DOMAIN calls :
        /\ calls'[n].kind = calls[n].kind /\ calls'[n].child = calls[n].child
        /\ calls'[n].answers = IF n = owner THEN <<code>> ELSE calls[n].answers
  BY <1>4, <1>6
<1>8. \A n \in DOMAIN calls : \A a : OwnStatus(n, a) => OwnStatus(n, a)'
  BY <1>1, <1>7, StatusKept DEF appVars
<1>9. \A n \in DOMAIN calls : (Listens(n)' <=> Listens(n)) /\ (Expects(n)' => Expects(n))
  <2>1. calls[owner].kind # "async"
    BY <1>2
  <2> QED BY <1>1, <1>7, <2>1 DEF Listens, Accepted, Expects
<1>10. TypeOK' /\ Len(calls') <= MaxCalls
  BY <1>1, <1>6 DEF RInv, TypeOK, CallRecords, CallKinds, Children, appVars
<1>11. AnswersOK'
  <2>1. ASSUME NEW n \in DOMAIN calls, n # owner, calls[n].answers # <<>>
        PROVE  \E a \in Results : calls'[n].answers = <<a>> /\ OwnStatus(n, a)'
    <3>1. PICK a \in Results : calls[n].answers = <<a>> /\ OwnStatus(n, a)
      BY <2>1 DEF RInv, AnswersOK
    <3> QED BY <1>7, <1>8, <2>1, <3>1
  <2>2. PICK o \in DOMAIN calls : o = owner
    BY <1>1
  <2>3. PICK c \in Results : c = code
    BY <1>1
  <2>4. calls'[o].answers = <<c>> /\ OwnStatus(o, c)'
    BY <1>2, <1>7, <1>8, <2>2, <2>3
  <2> QED BY <1>6, <1>7, <2>1, <2>2, <2>3, <2>4 DEF AnswersOK
<1>12. OwnerOK'
  BY <1>1 DEF OwnerOK
<1>13. ProcessOK'
  <2>1. process \in 0 .. Len(calls)
    BY DEF RInv, TypeOK
  <2> QED BY <1>1, <1>6, <1>7, <1>9, <2>1 DEF RInv, ProcessOK
<1>14. SlotsOK'
  <2>1. \A m \in 1 .. process - 1 : m \in DOMAIN calls
    BY CallsAre DEF RInv, TypeOK
  <2>2. loop' # "exec" /\ process' = process /\ slots' = slots
    BY <1>1
  <2>3. Contains(slots', "async") <=> \E n \in DOMAIN calls' : Listens(n)'
    BY <1>6, <1>9, <2>2 DEF RInv, SlotsOK
  <2>4. slots' # <<>> /\ process' = 0 => \E m \in DOMAIN calls' : calls'[m].child = "nofork"
    BY <1>6, <1>7, <2>2 DEF RInv, SlotsOK
  <2>5. Len(slots') = 2 /\ process' # 0 => \E m \in 1 .. process' - 1 : calls'[m].child = "nofork"
    BY <1>7, <2>1, <2>2 DEF RInv, SlotsOK
  <2> QED BY <2>2, <2>3, <2>4, <2>5 DEF SlotsOK
<1>15. ChildrenWatched'
  BY <1>1 DEF RInv, ChildrenWatched
<1> QED BY <1>10, <1>11, <1>12, <1>13, <1>14, <1>15 DEF RInv

LEMMA QuitInv ==
  ASSUME RInv, Quit
  PROVE  RInv'
<1>1. /\ UNCHANGED <<calls, process, armed, slots, owner, main>> /\ quitNow' = TRUE /\ quitted' = TRUE
      /\ IF loop = "idle" THEN UNCHANGED <<loop, code>> ELSE loop' = "exited" /\ code' = 0
  BY DEF Quit
<1>2. TypeOK' /\ Len(calls') <= MaxCalls
  <2>1. loop' \in {"idle", "exec", "exited"} /\ code' \in Results
        /\ (owner' = 0 <=> loop' = "idle")
    BY <1>1, ResultsAre DEF RInv, TypeOK
  <2> QED BY <1>1, <2>1 DEF RInv, TypeOK
<1>3. \A n \in DOMAIN calls : \A a : OwnStatus(n, a) => OwnStatus(n, a)'
  BY <1>1 DEF OwnStatus
<1>4. AnswersOK'
  BY <1>1, <1>3 DEF RInv, AnswersOK
<1>5. OwnerOK'
  <2>1. owner # 0 => calls'[owner].kind = "exec" /\ calls'[owner].answers = <<>>
    BY <1>1 DEF RInv, OwnerOK
  <2>2. loop' = "exited" => owner # 0 /\ code' = 0
    BY <1>1 DEF RInv, TypeOK
  <2> QED BY <1>1, <2>1, <2>2 DEF OwnerOK, OwnStatus
<1>6. ProcessOK' /\ SlotsOK' /\ ChildrenWatched'
  <2>1. \A n \in DOMAIN calls : (Listens(n)' <=> Listens(n)) /\ (Expects(n)' => Expects(n))
    BY <1>1 DEF Listens, Accepted, Expects
  <2>2. loop' = "exec" => loop = "exec"
    BY <1>1
  <2>3. ProcessOK'
    BY <1>1, <2>1 DEF RInv, ProcessOK
  <2>4. SlotsOK'
    BY <1>1, <2>1, <2>2 DEF RInv, SlotsOK
  <2> QED BY <1>1, <2>3, <2>4 DEF RInv, ChildrenWatched
<1> QED BY <1>2, <1>4, <1>5, <1>6 DEF RInv

LEMMA AppInv ==
  ASSUME RInv, AppExec \/ AppExecReturns
  PROVE  RInv'
<1>1. /\ UNCHANGED <<calls, process, armed, slots, loop, code, owner, quitted>>
      /\ main' \in {"before", "runs", "after"} /\ quitNow' \in BOOLEAN
  BY DEF AppExec, AppExecReturns
<1>2. TypeOK' /\ Len(calls') <= MaxCalls
  BY <1>1 DEF RInv, TypeOK
<1> QED BY <1>1, <1>2 DEF RInv, ChildrenWatched, AnswersOK, OwnerOK, ProcessOK, SlotsOK,
              OwnStatus, Expects, Listens, Accepted

LEMMA CallsInv ==
  ASSUME RInv, runCommand \/ runCommandExec \/ runCommandWait
  PROVE  RInv'
<1>1. Len(calls) < MaxCalls /\ UNCHANGED appVars
  BY DEF runCommand, runCommandExec, runCommandWait, MayCall
<1>2. PICK new \in Nat : new = Len(calls) + 1
  BY CallsAre DEF RInv
<1>3. ASSUME NEW kind \in {"exec", "async"}, Refused(kind)
      PROVE  RInv'
  <2>1. OwnStatus(new, Failed)' /\ Failed \in Results
    BY DEF OwnStatus, Results
  <2> QED BY <1>1, <1>2, <1>3, <2>1, AnsweredAtOnce DEF Refused, Adds, CallKinds, Children
<1>4. CASE runCommand
  <2>1. CASE ~Refuses /\ Starts("async", <<>>) /\ UNCHANGED <<loop, code, owner>>
    <3>1. "async" \in {"exec", "async"} /\ <<>> \in {<<>>, <<Failed>>}
      OBVIOUS
    <3> QED BY <1>1, <2>1, <3>1, StartsInv
  <2> QED BY <1>3, <1>4, <2>1 DEF runCommand
<1>5. CASE runCommandExec
  <2>1. CASE /\ ~Refuses /\ ExecBlocks /\ Starts("exec", <<>>)
             /\ loop' = "exec" /\ owner' = Len(calls) + 1 /\ code' = code
    <3>1. "exec" \in {"exec", "async"} /\ <<>> \in {<<>>, <<Failed>>}
      OBVIOUS
    <3> QED BY <1>1, <2>1, <3>1, StartsInv DEF ExecBlocks
  <2>2. CASE /\ ~Refuses /\ ~ExecBlocks /\ Starts("exec", <<Failed>>)
             /\ UNCHANGED <<loop, code, owner>>
    <3>1. "exec" \in {"exec", "async"} /\ <<Failed>> \in {<<>>, <<Failed>>}
      OBVIOUS
    <3> QED BY <1>1, <2>2, <3>1, StartsInv
  <2> QED BY <1>3, <1>5, <2>1, <2>2 DEF runCommandExec
<1>6. CASE runCommandWait
  <2>1. PICK result \in {new, Failed, 0} :
          /\ UNCHANGED <<process, armed, slots, loop, code, owner>>
          /\ Adds("wait", IF result = 0 THEN "killed" ELSE "exited", <<result>>)
    BY <1>2, <1>6 DEF runCommandWait, Adds
  <2>2. result \in Results /\ new \in Results
    BY <1>1, <1>2, RunnerAssumption DEF Results, CallIds
  <2>3. TypeOK /\ <<result>> \in Seq(Results)
    BY <2>2 DEF RInv
  <2>4. calls'[new].child = IF result = 0 THEN "killed" ELSE "exited"
    BY <1>2, <2>1, <2>3, AddedCalls DEF CallKinds, Children
  <2>5. OwnStatus(new, result)'
    BY <2>4 DEF OwnStatus
  <2> QED BY <1>1, <1>2, <2>1, <2>2, <2>5, AnsweredAtOnce DEF CallKinds, Children
<1> QED BY <1>4, <1>5, <1>6

-----------------------------------------------------------------------------
(* The theorems *)

LEMMA FirstInv == Init => RInv
<1> SUFFICES ASSUME Init
             PROVE  RInv
  OBVIOUS
<1>1. calls = <<>> /\ process = 0 /\ slots = <<>> /\ loop = "idle" /\ owner = 0
  BY DEF Init
<1>2. TypeOK /\ Len(calls) <= MaxCalls
  <2>1. calls \in Seq([kind : {"exec", "async", "wait"},
                       child : {"none", "alive", "nofork", "exited", "killed", "timedout"},
                       answers : Seq(Results)])
        /\ Len(calls) = 0
    BY <1>1
  <2>2. code \in Results /\ armed \in BOOLEAN /\ main \in {"before", "runs", "after"}
        /\ quitNow \in BOOLEAN /\ quitted \in BOOLEAN
    BY DEF Init, Results
  <2> QED BY <1>1, <2>1, <2>2, RunnerAssumption DEF TypeOK
<1>3. DOMAIN calls = {}
  BY <1>1
<1> QED BY <1>1, <1>2, <1>3, ContainsKinds
        DEF RInv, ChildrenWatched, AnswersOK, OwnerOK, ProcessOK, SlotsOK

LEMMA StepInv == RInv /\ [Next]_vars => RInv'
<1> SUFFICES ASSUME RInv, [Next]_vars
             PROVE  RInv'
  OBVIOUS
<1>1. CASE UNCHANGED vars
  BY <1>1 DEF vars, appVars, RInv, TypeOK, ChildrenWatched, AnswersOK, OwnerOK, ProcessOK, SlotsOK,
              OwnStatus, Expects, Listens, Accepted
<1> QED BY <1>1, CallsInv, ExecReturnsInv, FinishesInv, TimesOutInv, ChildEndsInv, QuitInv,
          AppInv
        DEF Next

LEMMA RunnerInvariant == Spec => []RInv
BY FirstInv, StepInv, PTL DEF Spec

\* Every variable keeps its type, for any number of calls of any kind.
THEOREM RunnerTypes == Spec => []TypeOK
<1>1. RInv => TypeOK
  BY DEF RInv
<1> QED BY <1>1, RunnerInvariant, PTL

\* A child in the QProcess always has the timer and a slot that wait for it, so the
\* runner does not stay busy for ever, whatever the order of calls, quits and time-outs.
THEOREM NoChildForgotten == Spec => []ChildrenWatched
<1>1. RInv => ChildrenWatched
  BY DEF RInv
<1> QED BY <1>1, RunnerInvariant, PTL

\* Of the end of a child and its time-out each caller hears the first alone.
THEOREM NobodyToldTwice == Spec => []AnsweredOnce
<1>1. RInv => AnsweredOnce
  <2>1. SUFFICES ASSUME RInv, NEW n \in DOMAIN calls
                 PROVE  Len(calls[n].answers) <= 1
    BY DEF AnsweredOnce
  <2>2. CASE calls[n].answers = <<>>
    BY <2>2
  <2>3. ASSUME NEW a, calls[n].answers = <<a>>
        PROVE  Len(calls[n].answers) <= 1
    <3>1. Len(<<a>>) = 1
      OBVIOUS
    <3> QED BY <2>3, <3>1
  <2> QED BY <2>1, <2>2, <2>3 DEF RInv, AnswersOK
<1> QED BY <1>1, RunnerInvariant, PTL

\* What a caller is told is the status of its own child, with the exceptions that
\* AnswersOwnStatus lists and no others.
THEOREM OwnAnswers == Spec => []AnswersOwnStatus
<1>1. RInv => AnswersOwnStatus
  <2>1. SUFFICES ASSUME RInv, NEW n \in DOMAIN calls, NEW i \in DOMAIN calls[n].answers
                 PROVE  OwnStatus(n, calls[n].answers[i])
    BY DEF AnswersOwnStatus, OwnStatus
  <2>2. PICK a : calls[n].answers = <<a>> /\ OwnStatus(n, a)
    BY <2>1 DEF RInv, AnswersOK
  <2>3. calls[n].answers[i] = a
    BY <2>1, <2>2
  <2> QED BY <2>2, <2>3
<1> QED BY <1>1, RunnerInvariant, PTL

\* No call that is already made becomes another one.
LEMMA CallsStay ==
  ASSUME RInv, [Next]_vars, NEW n \in DOMAIN calls
  PROVE  /\ n \in DOMAIN calls' /\ calls'[n].kind = calls[n].kind
         /\ calls[n].child = "nofork" => calls'[n].child = "nofork"
<1>1. calls \in Seq(CallRecords) /\ DOMAIN calls = 1 .. Len(calls) /\ calls[n] \in CallRecords
      /\ Len(calls) \in Nat
  BY CallsAre DEF RInv
<1>2. ASSUME NEW call, calls' = Append(calls, call)
      PROVE  n \in DOMAIN calls' /\ calls'[n] = calls[n]
  BY <1>1, <1>2
<1>3. CASE runCommand \/ runCommandExec \/ runCommandWait
  BY <1>2, <1>3 DEF runCommand, runCommandExec, runCommandWait, Refused, Starts
<1>4. CASE ExecReturns
  BY <1>1, <1>4 DEF ExecReturns, CallRecords
<1>5. CASE Finishes
  BY <1>1, <1>5 DEF Finishes, Delivered, Emitted, CallRecords
<1>6. CASE TimesOut
  BY <1>1, <1>6 DEF TimesOut, Delivered, Emitted, Killed, CallRecords
<1>7. CASE ChildEnds
  BY <1>1, <1>7 DEF ChildEnds, CallRecords
<1>8. CASE Quit \/ AppExec \/ AppExecReturns \/ UNCHANGED vars
  BY <1>1, <1>8 DEF Quit, AppExec, AppExecReturns, vars
<1> QED BY <1>3, <1>4, <1>5, <1>6, <1>7, <1>8 DEF Next

\* To a program that calls runCommandExec() alone and can start its children, as the
\* controller does, the runner is module RunCommand: the steps that Controller and
\* Firewall are built from are all it ever sees.
THEOREM ImplementsRunCommand == Spec => SeenAsRunCommand
<1> DEFINE Seen == \/ \E n \in CallIds :
                        AsSeen!ExecSuspends(n) \/ AsSeen!ExecRefused(n) \/ AsSeen!ExecAborted(n)
                   \/ \E result \in Results : AsSeen!finishedInternalExec(result)
                   \/ AsSeen!ExecReturns \/ AsSeen!ExecQuits
           Move == [OnlyExec' => Seen]_<<process, loop, code>>
<1>1. RInv /\ [Next]_vars => Move
  <2>1. SUFFICES ASSUME RInv, [Next]_vars, OnlyExec', ~UNCHANGED <<process, loop, code>>
                 PROVE  Seen
    OBVIOUS
  <2>2. /\ DOMAIN calls = 1 .. Len(calls) /\ Len(calls) \in Nat /\ RInv'
        /\ Failed \in Results /\ Status \in Results
    BY <2>1, CallsAre, ResultsAre, StepInv DEF RInv
  <2>3. \A n \in DOMAIN calls : calls[n].kind = "exec" /\ calls[n].child # "nofork"
    BY <2>1, CallsStay DEF OnlyExec
  <2>4. slots # <<>> => process # 0
    BY <2>1, <2>3 DEF RInv, SlotsOK
  <2>5. CASE runCommandExec
    <3>1. PICK new \in CallIds : new = Len(calls) + 1
      BY <2>2, <2>5, RunnerAssumption DEF runCommandExec, MayCall, CallIds
    <3>2. ASSUME NEW answers \in {<<>>, <<Failed>>}, Starts("exec", answers), process = 0
          PROVE  process' = new
      <4>1. PICK child \in {"alive", "nofork"} :
              /\ Adds("exec", child, answers)
              /\ process' = IF child = "alive" THEN new ELSE 0
        BY <3>1, <3>2 DEF Starts, Adds
      <4>2. answers \in Seq(Results)
        <5>1. <<>> \in Seq(Results) /\ <<Failed>> \in Seq(Results)
          BY <2>2
        <5> QED BY <5>1
      <4>3. new \in DOMAIN calls' /\ calls'[new].child = child
        BY <2>1, <2>2, <3>1, <4>1, <4>2, AddedCalls DEF RInv, CallKinds, Children
      <4> QED BY <2>1, <4>1, <4>3 DEF OnlyExec
    <3>3. CASE Refused("exec")
      BY <2>1, <3>3 DEF Refused
    <3>4. CASE /\ ~Refuses /\ ExecBlocks /\ Starts("exec", <<>>)
               /\ loop' = "exec" /\ UNCHANGED code
      <4>1. process = 0 /\ process' = new
        BY <3>2, <3>4 DEF Refuses
      <4> QED BY <3>4, <4>1 DEF ExecBlocks, AsSeen!ExecSuspends, AsSeen!Busy
    <3>5. CASE /\ ~Refuses /\ ~ExecBlocks /\ Starts("exec", <<Failed>>)
               /\ UNCHANGED <<loop, code>>
      <4>1. process = 0 /\ process' = new
        BY <3>2, <3>5 DEF Refuses
      <4>2. CASE loop # "idle"
        BY <3>5, <4>1, <4>2 DEF AsSeen!ExecRefused, AsSeen!Busy
      <4>3. CASE loop = "idle"
        BY <3>5, <4>1, <4>3 DEF AsSeen!ExecAborted, AsSeen!Busy
      <4> QED BY <4>2, <4>3
    <3> QED BY <2>5, <3>3, <3>4, <3>5 DEF runCommandExec
  <2>6. CASE runCommand \/ runCommandWait
    <3>1. PICK new \in Nat : new = Len(calls) + 1
      BY <2>2
    <3>2. new \in DOMAIN calls' /\ calls'[new].kind # "exec"
      <4>1. ASSUME NEW kind \in {"async", "wait"}, NEW child, NEW answers,
                   calls' = Append(calls, NewCall(kind, child, answers))
            PROVE  new \in DOMAIN calls' /\ calls'[new].kind # "exec"
        <5>1. PICK call : call = NewCall(kind, child, answers)
          OBVIOUS
        <5>2. call.kind # "exec"
          BY <5>1 DEF NewCall
        <5>3. new \in DOMAIN calls' /\ calls'[new] = call
          BY <2>1, <2>2, <3>1, <4>1, <5>1, CallsAre DEF RInv
        <5> QED BY <5>2, <5>3
      <4> QED BY <2>6, <4>1 DEF runCommand, runCommandWait, Refused, Starts
    <3> QED BY <2>1, <3>2 DEF OnlyExec
  <2>7. CASE ExecReturns
    BY <2>7 DEF ExecReturns, AsSeen!ExecReturns
  <2>8. ASSUME NEW cs, NEW asyncs, NEW execs, NEW exec \in Results, LoopRuns,
               execs = IF Contains(slots, "exec") THEN <<exec>> ELSE <<>>,
               Delivered(cs, asyncs, execs), process # 0, process' = 0
        PROVE  Seen
    <3>1. Contains(slots, "exec") => execs # <<>> /\ Last(execs) = exec
      BY <2>8 DEF Last
    <3>2. IF loop = "exec" THEN loop' = "exited" /\ code' = exec ELSE UNCHANGED <<loop, code>>
      BY <2>1, <2>8, <3>1 DEF Delivered, RInv, SlotsOK
    <3>3. AsSeen!finishedInternalExec(exec)
      BY <2>8, <3>2 DEF AsSeen!finishedInternalExec, AsSeen!Busy, LoopRuns
    <3> QED BY <3>3
  <2>9. CASE Finishes
    <3>1. To("exec", Status) = IF Contains(slots, "exec") THEN <<Status>> ELSE <<>>
      BY DEF To
    <3> QED BY <2>2, <2>8, <2>9, <3>1 DEF Finishes
  <2>10. CASE TimesOut
    <3>1. CASE slots = <<>>
      <4>1. process = 0 /\ loop # "exec"
        BY <2>1, <3>1, ContainsKinds DEF RInv, ChildrenWatched, SlotsOK
      <4> QED BY <2>1, <2>10, <4>1 DEF TimesOut, Delivered
    <3>2. CASE slots # <<>>
      <4>1. PICK exec \in Results :
              HeardAtTimeout("exec") = IF Contains(slots, "exec") THEN <<exec>> ELSE <<>>
        BY <2>2 DEF HeardAtTimeout, To
      <4> QED BY <2>4, <2>8, <2>10, <3>2, <4>1 DEF TimesOut
    <3> QED BY <3>1, <3>2
  <2>11. CASE ChildEnds
    BY <2>1, <2>11 DEF ChildEnds
  <2>12. CASE Quit
    BY <2>1, <2>12 DEF Quit, AsSeen!ExecQuits
  <2>13. CASE AppExec \/ AppExecReturns
    BY <2>1, <2>13 DEF AppExec, AppExecReturns
  <2> QED BY <2>1, <2>5, <2>6, <2>7, <2>9, <2>10, <2>11, <2>12, <2>13 DEF Next, vars
<1> QED BY <1>1, RunnerInvariant, PTL DEF Spec, SeenAsRunCommand
=============================================================================
