----------------------- MODULE SidecarLifecycleProofs -----------------------
(***************************************************************************)
(* Starting and stopping the microphone, for any number of loops and       *)
(* presses.                                                                *)
(*                                                                         *)
(* Nothing protects the flag running, and yet it works as a lock: a loop   *)
(* that has not yet cleared it is the only one that could (Exclusive).     *)
(* Pending says where the event is that will end the extension's session.  *)
(***************************************************************************)
EXTENDS SidecarLifecycle, SequenceTheorems, TLAPS

\* A loop that transcribes, or has ended and not cleared the flag yet.
Holds(l) == at[l] \in {"transcribing", "ended", "clearing"}

\* The reader has cleared the flag and does not go on before the loops are gone.
StopUnderWay == at["reader"] \in {"cancelling", "forgetting", "waiting"}

Exclusive ==
    /\ \A k, l \in Loop : Holds(k) /\ Holds(l) => k = l
    /\ \A l \in Loop : Holds(l) => running \/ StopUnderWay
    /\ at["reader"] \in {"opening", "launching"} => \A l \in Loop : ~Holds(l)
    /\ at["reader"] = "launching" => running
    /\ running => at["reader"] = "launching" \/ \E l \in Loop : Holds(l)

Has(s, e) == \E i \in 1..Len(s) : s[i] = e

\* The reader will write an event or launch a loop.
ReaderOwes == at["reader"] \notin {"reading", "launched"}

\* What will end the session the extension believes in.
Pending ==
    listening =>
        \/ Has(stdin, "start") \/ ReaderOwes
        \/ \E l \in Loop : at[l] \notin {"unborn", "gone"}
        \/ Has(stdout, "error") \/ Has(stdout, "stopped")

IInv == TypeOK /\ Exclusive /\ StoppedMeansSilent /\ Pending

-----------------------------------------------------------------------------
(* Pipes.                                                                  *)

\* What is written is there, and what was there remains.
LEMMA HasAppend ==
    ASSUME NEW S, NEW s \in Seq(S), NEW e \in S
    PROVE  /\ Append(s, e) \in Seq(S)
           /\ \A f : Has(Append(s, e), f) <=> Has(s, f) \/ f = e
<1>1. /\ Append(s, e) \in Seq(S) /\ Len(Append(s, e)) = Len(s) + 1 /\ Len(s) \in Nat
      /\ \A i \in 1..Len(s) : Append(s, e)[i] = s[i]
      /\ Append(s, e)[Len(s) + 1] = e
  BY AppendProperties
<1>2. \A f : Has(Append(s, e), f) => Has(s, f) \/ f = e
  BY <1>1 DEF Has
<1>3. \A f : Has(s, f) => Has(Append(s, e), f)
  BY <1>1 DEF Has
<1>4. Has(Append(s, e), e)
  BY <1>1 DEF Has
<1> QED BY <1>1, <1>2, <1>3, <1>4

\* What is not read remains.
LEMMA HasTail ==
    ASSUME NEW S, NEW s \in Seq(S), s # << >>
    PROVE  /\ Tail(s) \in Seq(S)
           /\ \A f : Has(s, f) => Has(Tail(s), f) \/ f = Head(s)
<1>1. /\ Tail(s) \in Seq(S) /\ Len(Tail(s)) = Len(s) - 1 /\ Len(s) \in Nat \ {0}
      /\ \A i \in 1..Len(Tail(s)) : Tail(s)[i] = s[i + 1]
  BY HeadTailProperties, EmptySeq
<1>2. ASSUME NEW f, Has(s, f) PROVE Has(Tail(s), f) \/ f = Head(s)
  <2>1. PICK i \in 1..Len(s) : s[i] = f
    BY <1>2 DEF Has
  <2>2. CASE i = 1
    BY <2>1, <2>2
  <2>3. CASE i # 1
    <3>1. i - 1 \in 1..Len(Tail(s)) /\ Tail(s)[i - 1] = f
      BY <1>1, <2>1, <2>3
    <3> QED BY <3>1 DEF Has
  <2> QED BY <2>2, <2>3
<1> QED BY <1>1, <1>2

\* A place is gone to.
LEMMA Went ==
    ASSUME TypeOK, NEW a \in Actor, NEW place \in Place, Goto(a, place)
    PROVE  /\ at' \in [Actor -> Place] /\ at'[a] = place
           /\ \A b \in Actor : b # a => at'[b] = at[b]
  BY DEF TypeOK, Goto

\* An event is written.
LEMMA Wrote ==
    ASSUME TypeOK, NEW event \in {"starting", "listening", "stopped", "error"}, Write(event)
    PROVE  /\ stdout' \in Seq({"starting", "listening", "stopped", "error"})
           /\ Has(stdout', event)
           /\ \A f : Has(stdout, f) => Has(stdout', f)
  BY HasAppend DEF TypeOK, Write

\* The reader is no loop.
LEMMA Actors ==
    /\ "reader" \in Actor /\ "reader" \notin Loop /\ Loop \subseteq Actor
  BY LoopsAssumption DEF Actor

-----------------------------------------------------------------------------
(* Each action keeps the types.                                            *)

LEMMA TypeStep ==
    ASSUME TypeOK, [Next]_vars
    PROVE  TypeOK'
<1> USE DEF extension, flags
<1> DEFINE Events == {"starting", "listening", "stopped", "error"}
<1>0. /\ stdin \in Seq({"start", "stop"}) /\ stdout \in Seq(Events)
      /\ at \in [Actor -> Place]
  BY DEF TypeOK
<1>1. CASE PressStart
  <2>1. presses' \in 0..MaxPresses
    BY <1>1, PressesAssumption DEF PressStart, TypeOK
  <2>2. stdin' \in Seq({"start", "stop"})
    BY <1>0, <1>1, HasAppend DEF PressStart
  <2> QED BY <1>1, <2>1, <2>2 DEF PressStart, TypeOK
<1>2. CASE PressStop
  <2>1. presses' \in 0..MaxPresses
    BY <1>2, PressesAssumption DEF PressStop, TypeOK
  <2>2. stdin' \in Seq({"start", "stop"})
    BY <1>0, <1>2, HasAppend DEF PressStop
  <2> QED BY <1>2, <2>1, <2>2 DEF PressStop, TypeOK
<1>3. CASE TakeEvent
  <2>1. stdout' \in Seq(Events)
    BY <1>0, <1>3, HasTail DEF TakeEvent
  <2>2. stdin' \in Seq({"start", "stop"})
    BY <1>0, <1>3, HasAppend DEF TakeEvent
  <2> QED BY <1>3, <2>1, <2>2 DEF TakeEvent, TypeOK
<1>4. CASE ReadStart \/ ReadStop
  <2>1. stdin' \in Seq({"start", "stop"})
    BY <1>0, <1>4, HasTail DEF ReadStart, ReadStop
  <2>2. stdout' \in Seq(Events)
    BY <1>0, <1>4, Wrote DEF ReadStart, ReadStop, TypeOK
  <2>3. at' \in [Actor -> Place]
    BY <1>0, <1>4 DEF ReadStart, ReadStop, Goto, Place
  <2> QED BY <1>4, <2>1, <2>2, <2>3 DEF ReadStart, ReadStop, TypeOK
<1>5. CASE StartFails \/ SayListening \/ \E l \in Loop : LoopFails(l)
  <2>1. stdout' \in Seq(Events)
    BY <1>0, <1>5, Wrote DEF StartFails, SayListening, LoopFails
  <2>2. at' \in [Actor -> Place]
    BY <1>0, <1>5 DEF StartFails, SayListening, LoopFails, Goto, Place
  <2> QED BY <1>5, <2>1, <2>2 DEF StartFails, SayListening, LoopFails, TypeOK
<1>6. CASE CheckStart \/ MarkRunning \/ Waited \/ \E l \in Loop : LoopStops(l)
  <2>1. at' \in [Actor -> Place]
    BY <1>0, <1>6 DEF CheckStart, MarkRunning, Waited, LoopStops, Goto, Place
  <2> QED BY <1>6, <2>1 DEF CheckStart, MarkRunning, Waited, LoopStops, TypeOK
<1>7. ASSUME NEW l \in Loop, Launch(l) PROVE TypeOK'
  <2>1. at' \in [Actor -> Place]
    BY <1>0, <1>7 DEF Launch, Place
  <2> QED BY <1>7, <2>1 DEF Launch, TypeOK
<1>8. ASSUME NEW a \in Actor, Check(a) PROVE TypeOK'
  <2>1. at' \in [Actor -> Place]
    BY <1>0, <1>8 DEF Check, Goto, Place
  <2> QED BY <1>8, <2>1 DEF Check, TypeOK
<1>9. ASSUME NEW a \in Actor, Clear(a) \/ ForgetCancel(a) PROVE TypeOK'
  <2>1. at' \in [Actor -> Place]
    BY <1>0, <1>9 DEF Clear, ForgetCancel, Goto, Place, Cleared
  <2> QED BY <1>9, <2>1 DEF Clear, ForgetCancel, TypeOK
<1>10. ASSUME NEW a \in Actor, Cancel(a) PROVE TypeOK'
  <2>1. at' \in [Actor -> Place]
    BY <1>0, <1>10 DEF Cancel, Goto, Place, Cleared
  <2>2. cancelled' \subseteq Loop
    BY <1>10 DEF Cancel, TypeOK
  <2> QED BY <1>10, <2>1, <2>2 DEF Cancel, TypeOK
<1>11. ASSUME NEW a \in Actor, SayStopped(a) PROVE TypeOK'
  <2>1. stdout' \in Seq(Events)
    BY <1>0, <1>11, Wrote DEF SayStopped
  <2>2. at' \in [Actor -> Place]
    BY <1>0, <1>11 DEF SayStopped, Goto, Place
  <2> QED BY <1>11, <2>1, <2>2 DEF SayStopped, TypeOK
<1>12. CASE UNCHANGED vars
  BY <1>12 DEF vars, TypeOK
<1> QED BY <1>1, <1>2, <1>3, <1>4, <1>5, <1>6, <1>7, <1>8, <1>9, <1>10, <1>11, <1>12
        DEF Next, Reader, Tidy, Idle

-----------------------------------------------------------------------------
(* The microphone.                                                         *)

Safe == Exclusive /\ StoppedMeansSilent

\* A step of the reader that leaves the flag alone.
LEMMA SafeReader ==
    ASSUME TypeOK, Safe, UNCHANGED running, NEW place \in Place, Goto("reader", place),
           place # "launching",
           at["reader"] # "launching",
           place = "opening" => ~running /\ ~StopUnderWay,
           StopUnderWay /\ (\E l \in Loop : Holds(l)) => place \in {"forgetting", "waiting"},
           place = "reporting" => \A l \in Loop : at[l] # "transcribing"
    PROVE  Safe'
<1>1. /\ at'["reader"] = place /\ \A l \in Loop : at'[l] = at[l]
  BY Went, Actors
<1>2. \A l \in Loop : Holds(l)' <=> Holds(l)
  BY <1>1 DEF Holds
<1>3. \A l \in Loop : Holds(l) => running \/ StopUnderWay'
  BY <1>1 DEF Safe, Exclusive, StopUnderWay
<1>4. place = "opening" => \A l \in Loop : ~Holds(l)
  BY DEF Safe, Exclusive
<1>5. Exclusive'
  BY <1>1, <1>2, <1>3, <1>4 DEF Safe, Exclusive
<1>6. StoppedMeansSilent'
  BY <1>1 DEF StoppedMeansSilent
<1> QED BY <1>5, <1>6 DEF Safe

\* A step of a loop that leaves the flag alone.
LEMMA SafeLoop ==
    ASSUME TypeOK, Safe, UNCHANGED running, NEW l \in Loop, NEW place \in Place, Goto(l, place),
           place # "transcribing",
           place \in {"ended", "clearing"} => Holds(l),
           Holds(l) /\ running => place \in {"ended", "clearing"}
    PROVE  Safe'
<1>1. /\ at'[l] = place /\ at'["reader"] = at["reader"]
      /\ \A k \in Loop : k # l => at'[k] = at[k]
  BY Went, Actors
<1>2. /\ \A k \in Loop : Holds(k)' => Holds(k)
      /\ running => \A k \in Loop : Holds(k) => Holds(k)'
  BY <1>1 DEF Holds
<1>3. Exclusive'
  BY <1>1, <1>2 DEF Safe, Exclusive, StopUnderWay
<1>4. StoppedMeansSilent'
  BY <1>1 DEF Safe, StoppedMeansSilent
<1> QED BY <1>3, <1>4 DEF Safe

\* Two loops never hold the microphone, whoever clears the flag and when.
LEMMA SafeStep ==
    ASSUME TypeOK, Safe, [Next]_vars
    PROVE  Safe'
<1> USE DEF extension, flags
<1>0. at \in [Actor -> Place] /\ running \in BOOLEAN
  BY DEF TypeOK
<1>1. CASE PressStart \/ PressStop \/ TakeEvent \/ UNCHANGED vars
  <2>1. UNCHANGED <<at, running>>
    BY <1>1 DEF PressStart, PressStop, TakeEvent, vars
  <2> QED BY <2>1 DEF Safe, Exclusive, Holds, StopUnderWay, StoppedMeansSilent
<1>2. CASE ReadStart \/ StartFails \/ SayListening \/ ReadStop
  <2>1. /\ UNCHANGED running /\ at["reader"] \in {"reading", "opening", "launched"}
        /\ \E place \in {"starting", "reading", "ended"} : Goto("reader", place)
    BY <1>2 DEF ReadStart, StartFails, SayListening, ReadStop
  <2>2. PICK place \in {"starting", "reading", "ended"} : Goto("reader", place)
    BY <2>1
  <2>3. place \in Place /\ ~StopUnderWay
    BY <2>1 DEF Place, StopUnderWay
  <2> QED BY <2>1, <2>2, <2>3, SafeReader
<1>3. CASE CheckStart
  <2> DEFINE place == IF running THEN "reading" ELSE "opening"
  <2>1. /\ UNCHANGED running /\ at["reader"] = "starting" /\ Goto("reader", place)
    BY <1>3 DEF CheckStart
  <2>2. place \in Place /\ ~StopUnderWay
    BY <2>1 DEF Place, StopUnderWay
  <2>3. /\ place # "launching" /\ place # "reporting"
        /\ place = "opening" => ~running
    OBVIOUS
  <2> HIDE DEF place
  <2> QED BY <2>1, <2>2, <2>3, SafeReader
<1>4. CASE MarkRunning
  <2>1. /\ at["reader"] = "opening" /\ running' = TRUE
        /\ at'["reader"] = "launching" /\ \A l \in Loop : at'[l] = at[l]
    BY <1>0, <1>4, Actors DEF MarkRunning, Goto
  <2>2. \A l \in Loop : ~Holds(l)'
    BY <2>1 DEF Safe, Exclusive, Holds
  <2> QED BY <2>1, <2>2 DEF Safe, Exclusive, StoppedMeansSilent
<1>5. ASSUME NEW l \in Loop, Launch(l) PROVE Safe'
  <2>1. /\ at["reader"] = "launching" /\ running' = running
        /\ at'["reader"] = "launched" /\ at'[l] = "transcribing"
        /\ \A k \in Loop : k # l => at'[k] = at[k]
    BY <1>0, <1>5, Actors DEF Launch
  <2>2. running /\ \A k \in Loop : Holds(k)' <=> k = l
    BY <2>1 DEF Safe, Exclusive, Holds
  <2> QED BY <2>1, <2>2 DEF Safe, Exclusive, StoppedMeansSilent
<1>6. CASE Waited
  <2>1. /\ UNCHANGED running /\ at["reader"] = "waiting" /\ Goto("reader", "reporting")
        /\ \A l \in Loop : at[l] \in {"unborn", "gone"}
    BY <1>6 DEF Waited
  <2>2. /\ "reporting" \in Place /\ \A l \in Loop : ~Holds(l) /\ at[l] # "transcribing"
    BY <2>1 DEF Place, Holds
  <2> QED BY <2>1, <2>2, SafeReader
<1>7. ASSUME NEW l \in Loop, LoopFails(l) \/ LoopStops(l) PROVE Safe'
  <2>1. UNCHANGED running /\ at[l] = "transcribing" /\ Goto(l, "ended")
    BY <1>7 DEF LoopFails, LoopStops
  <2>2. Holds(l) /\ "ended" \in Place
    BY <2>1 DEF Holds, Place
  <2> QED BY <2>1, <2>2, SafeLoop
<1>8. ASSUME NEW a \in Actor, Check(a) PROVE Safe'
  <2>1. UNCHANGED running /\ at[a] = "ended"
    BY <1>8 DEF Check
  <2>2. CASE a = "reader"
    <3> DEFINE place == IF running THEN "clearing" ELSE "reporting"
    <3>1. Goto("reader", place)
      BY <1>8, <2>2 DEF Check
    <3>2. place \in Place /\ place \notin {"launching", "opening"} /\ ~StopUnderWay
      BY <2>1, <2>2 DEF Place, StopUnderWay
    <3>3. place = "reporting" => \A l \in Loop : at[l] # "transcribing"
      BY <3>2 DEF Safe, Exclusive, Holds
    <3> HIDE DEF place
    <3> QED BY <2>1, <2>2, <3>1, <3>2, <3>3, SafeReader
  <2>3. CASE a \in Loop
    <3> DEFINE place == IF running THEN "clearing" ELSE "gone"
    <3>1. Goto(a, place)
      BY <1>8, <2>3, Actors DEF Check
    <3>2. place \in Place /\ place # "transcribing" /\ Holds(a)
      BY <2>1 DEF Place, Holds
    <3>3. running => place = "clearing"
      OBVIOUS
    <3> HIDE DEF place
    <3> QED BY <2>1, <2>3, <3>1, <3>2, <3>3, SafeLoop
  <2> QED BY <2>2, <2>3 DEF Actor
<1>9. ASSUME NEW a \in Actor, Clear(a) PROVE Safe'
  <2>1. /\ at[a] = "clearing" /\ running' = FALSE
        /\ at'[a] = "cancelling" /\ \A b \in Actor : b # a => at'[b] = at[b]
    BY <1>0, <1>9 DEF Clear, Goto
  <2>2. CASE a = "reader"
    <3>1. \A l \in Loop : Holds(l)' <=> Holds(l)
      BY <2>1, <2>2, Actors DEF Holds
    <3> QED BY <2>1, <2>2, <3>1 DEF Safe, Exclusive, StopUnderWay, StoppedMeansSilent
  <2>3. CASE a \in Loop
    <3>1. \A l \in Loop : Holds(l)' <=> Holds(l) /\ l # a
      BY <2>1, <2>3, Actors DEF Holds
    <3>2. Holds(a) /\ at'["reader"] = at["reader"]
      BY <2>1, <2>3, Actors DEF Holds
    <3>3. \A l \in Loop : ~Holds(l)'
      BY <2>3, <3>1, <3>2 DEF Safe, Exclusive
    <3>4. at'["reader"] # "launching"
      BY <2>3, <3>2 DEF Safe, Exclusive
    <3> QED BY <2>1, <2>3, <3>2, <3>3, <3>4, Actors
            DEF Safe, Exclusive, StoppedMeansSilent, Holds
  <2> QED BY <2>2, <2>3 DEF Actor
<1>10. ASSUME NEW a \in Actor, Cancel(a) \/ ForgetCancel(a) \/ SayStopped(a) PROVE Safe'
  <2>1. /\ UNCHANGED running /\ at[a] \in {"cancelling", "forgetting", "reporting"}
        /\ \E place \in {"forgetting", Cleared(a), "reading", "gone"} : Goto(a, place)
    BY <1>10 DEF Cancel, ForgetCancel, SayStopped
  <2>2. CASE a = "reader"
    <3>1. /\ at["reader"] = "reporting" => Goto("reader", "reading")
          /\ at["reader"] # "reporting" =>
                Goto("reader", "forgetting") \/ Goto("reader", "waiting")
      BY <1>10, <2>2 DEF Cancel, ForgetCancel, SayStopped, Cleared
    <3>2. {"forgetting", "waiting", "reading"} \subseteq Place
      BY DEF Place
    <3>3. at["reader"] = "reporting" => ~StopUnderWay
      BY DEF StopUnderWay
    <3>4. PICK place \in {"forgetting", "waiting", "reading"} :
             /\ Goto("reader", place)
             /\ at["reader"] # "reporting" => place \in {"forgetting", "waiting"}
      BY <3>1
    <3>5. place \in Place
      BY <3>2
    <3> QED BY <2>1, <2>2, <3>3, <3>4, <3>5, SafeReader
  <2>3. CASE a \in Loop
    <3>1. PICK place \in {"forgetting", "reporting", "reading", "gone"} : Goto(a, place)
      BY <2>1, <2>3, Actors DEF Cleared
    <3>2. place \in Place /\ ~Holds(a)
      BY <2>1 DEF Place, Holds
    <3> QED BY <2>1, <2>3, <3>1, <3>2, SafeLoop
  <2> QED BY <2>2, <2>3 DEF Actor
<1> QED BY <1>1, <1>2, <1>3, <1>4, <1>5, <1>6, <1>7, <1>8, <1>9, <1>10
        DEF Next, Reader, Tidy, Idle

-----------------------------------------------------------------------------
(* The session of the extension.                                           *)

\* An error or a stop on its way to the extension is enough.
LEMMA EventPending ==
    ASSUME TypeOK, NEW event \in {"error", "stopped"}, Write(event)
    PROVE  Pending'
  BY Wrote DEF Pending

\* A reader that owes something is enough.
LEMMA ReaderPending ==
    ASSUME TypeOK, NEW place \in Place, Goto("reader", place), place \notin {"reading", "launched"}
    PROVE  Pending'
<1>1. at'["reader"] = place
  BY Went, Actors
<1> QED BY <1>1 DEF Pending, ReaderOwes

\* A loop that is not gone is enough.
LEMMA LoopPending ==
    ASSUME NEW l \in Loop, at'[l] \notin {"unborn", "gone"}
    PROVE  Pending'
  BY DEF Pending

\* The session of the extension always has an end ahead of it.
LEMMA PendingStep ==
    ASSUME TypeOK, Safe, Pending, [Next]_vars
    PROVE  Pending'
<1> USE DEF extension, flags
<1> DEFINE Events == {"starting", "listening", "stopped", "error"}
<1>0. /\ stdin \in Seq({"start", "stop"}) /\ stdout \in Seq(Events)
      /\ at \in [Actor -> Place] /\ listening \in BOOLEAN
  BY DEF TypeOK
<1>1. CASE PressStart
  <2>1. Has(stdin', "start")
    BY <1>0, <1>1, HasAppend DEF PressStart
  <2> QED BY <2>1 DEF Pending
<1>2. CASE PressStop
  BY <1>2 DEF PressStop, Pending
<1>3. CASE TakeEvent
  <2> SUFFICES ASSUME listening' PROVE Pending'
    BY DEF Pending
  <2>1. /\ listening /\ Head(stdout) \notin {"error", "stopped"} /\ stdout # << >>
        /\ stdout' = Tail(stdout) /\ stdin' = stdin /\ at' = at
    BY <1>3 DEF TakeEvent
  <2>2. \A f \in {"error", "stopped"} : Has(stdout, f) => Has(stdout', f)
    BY <1>0, <2>1, HasTail
  <2>3. ReaderOwes' <=> ReaderOwes
    BY <2>1 DEF ReaderOwes
  <2>4. Has(stdin, "start") <=> Has(stdin', "start")
    BY <2>1
  <2> QED BY <2>1, <2>2, <2>3, <2>4 DEF Pending
<1>4. CASE ReadStart \/ ReadStop
  <2>1. Goto("reader", "starting") \/ Goto("reader", "ended")
    BY <1>4 DEF ReadStart, ReadStop
  <2>2. {"starting", "ended"} \subseteq Place
    BY DEF Place
  <2> QED BY <2>1, <2>2, ReaderPending
<1>5. CASE CheckStart
  <2>1. CASE running
    <3>1. \E l \in Loop : Holds(l)
      BY <1>5, <2>1 DEF CheckStart, Safe, Exclusive
    <3>2. \A l \in Loop : at'[l] = at[l]
      BY <1>0, <1>5, Actors DEF CheckStart, Goto
    <3>3. PICK l \in Loop : at'[l] \notin {"unborn", "gone"}
      BY <3>1, <3>2 DEF Holds
    <3> QED BY <3>3, LoopPending
  <2>2. CASE ~running
    <3>1. Goto("reader", "opening") /\ "opening" \in Place
      BY <1>5, <2>2 DEF CheckStart, Place
    <3> QED BY <3>1, ReaderPending
  <2> QED BY <2>1, <2>2
<1>6. CASE StartFails
  BY <1>6, EventPending DEF StartFails
<1>7. CASE MarkRunning \/ Waited
  <2>1. Goto("reader", "launching") \/ Goto("reader", "reporting")
    BY <1>7 DEF MarkRunning, Waited
  <2>2. {"launching", "reporting"} \subseteq Place
    BY DEF Place
  <2> QED BY <2>1, <2>2, ReaderPending
<1>8. ASSUME NEW l \in Loop, Launch(l) PROVE Pending'
  <2>1. at'[l] = "transcribing"
    BY <1>0, <1>8, Actors DEF Launch
  <2> QED BY <2>1, LoopPending
<1>9. CASE SayListening
  <2>1. /\ UNCHANGED <<listening, stdin>> /\ at["reader"] = "launched"
        /\ \A l \in Loop : at'[l] = at[l]
    BY <1>0, <1>9, Actors DEF SayListening, Goto
  <2>2. \A f \in {"error", "stopped"} : Has(stdout, f) => Has(stdout', f)
    BY <1>9, Wrote DEF SayListening
  <2>3. Has(stdin, "start") <=> Has(stdin', "start")
    BY <2>1
  <2> QED BY <2>1, <2>2, <2>3 DEF Pending, ReaderOwes
<1>10. ASSUME NEW l \in Loop, LoopFails(l) PROVE Pending'
  BY <1>10, EventPending DEF LoopFails
<1>11. ASSUME NEW l \in Loop, LoopStops(l) PROVE Pending'
  <2>1. at'[l] = "ended"
    BY <1>0, <1>11, Actors DEF LoopStops, Goto
  <2> QED BY <2>1, LoopPending
<1>12. ASSUME NEW a \in Actor, Check(a) PROVE Pending'
  <2>1. CASE a = "reader"
    <3>1. Goto("reader", "clearing") \/ Goto("reader", "reporting")
      BY <1>12, <2>1 DEF Check
    <3>2. {"clearing", "reporting"} \subseteq Place
      BY DEF Place
    <3> QED BY <3>1, <3>2, ReaderPending
  <2>2. CASE a \in Loop /\ running
    <3>1. at'[a] = "clearing"
      BY <1>0, <1>12, <2>2 DEF Check, Goto
    <3> QED BY <2>2, <3>1, LoopPending
  <2>3. CASE a \in Loop /\ ~running
    <3>1. StopUnderWay
      BY <1>12, <2>3 DEF Check, Holds, Safe, Exclusive
    <3>2. at'["reader"] = at["reader"]
      BY <1>0, <1>12, <2>3, Actors DEF Check, Goto
    <3> QED BY <3>1, <3>2 DEF StopUnderWay, Pending, ReaderOwes
  <2> QED BY <2>1, <2>2, <2>3 DEF Actor
<1>13. ASSUME NEW a \in Actor, Clear(a) \/ Cancel(a) \/ ForgetCancel(a) PROVE Pending'
  <2>1. at'[a] \in {"cancelling", "forgetting", Cleared(a)}
    BY <1>0, <1>13 DEF Clear, Cancel, ForgetCancel, Goto
  <2>2. at'[a] \in {"cancelling", "forgetting", "waiting", "reporting"}
    BY <2>1 DEF Cleared
  <2>3. CASE a = "reader"
    BY <2>2, <2>3 DEF Pending, ReaderOwes
  <2>4. CASE a \in Loop
    BY <2>2, <2>4, LoopPending
  <2> QED BY <2>3, <2>4 DEF Actor
<1>14. ASSUME NEW a \in Actor, SayStopped(a) PROVE Pending'
  BY <1>14, EventPending DEF SayStopped
<1>15. CASE UNCHANGED vars
  BY <1>15 DEF vars, Pending, ReaderOwes, Has
<1> QED BY <1>1, <1>2, <1>3, <1>4, <1>5, <1>6, <1>7, <1>8, <1>9, <1>10, <1>11, <1>12, <1>13, <1>14,
           <1>15 DEF Next, Reader, Tidy, Idle

-----------------------------------------------------------------------------
(* The theorems.                                                           *)

\* The inductive invariant, for any number of loops and presses.
THEOREM LifecycleInvariant == Spec => []IInv
<1>1. ASSUME Init PROVE IInv
  <2>1. TypeOK
    <3>1. at \in [Actor -> Place]
      BY <1>1 DEF Init, Place
    <3>2. presses \in 0..MaxPresses
      BY <1>1, PressesAssumption DEF Init
    <3>3. /\ stdin \in Seq({"start", "stop"})
          /\ stdout \in Seq({"starting", "listening", "stopped", "error"})
      BY <1>1, EmptySeq DEF Init
    <3> QED BY <1>1, <3>1, <3>2, <3>3 DEF Init, TypeOK
  <2>2. /\ listening = FALSE /\ running = FALSE /\ at["reader"] = "reading"
        /\ \A l \in Loop : at[l] = "unborn"
    BY <1>1, Actors DEF Init
  <2> QED BY <2>1, <2>2 DEF IInv, Exclusive, Holds, StoppedMeansSilent, Pending
<1>2. IInv /\ [Next]_vars => IInv'
  BY TypeStep, SafeStep, PendingStep DEF IInv, Safe
<1> QED BY <1>1, <1>2, PTL DEF Spec

\* The types.
THEOREM LifecycleTypes == Spec => []TypeOK
<1>1. IInv => TypeOK
  BY DEF IInv
<1> QED BY <1>1, LifecycleInvariant, PTL

\* The microphone is held by one loop, although running is cleared by the request
\* reader and by the loops without any lock (lifecycle.go).
THEOREM OneMicrophoneAlways == Spec => []OneMicrophone
<1>1. IInv => OneMicrophone
  BY DEF IInv, Exclusive, Holds, OneMicrophone
<1> QED BY <1>1, LifecycleInvariant, PTL

\* When a stop is answered, the microphone is off.
THEOREM StoppedAlwaysSilent == Spec => []StoppedMeansSilent
<1>1. IInv => StoppedMeansSilent
  BY DEF IInv
<1> QED BY <1>1, LifecycleInvariant, PTL

\* A session that the extension believes in has its end ahead of it (lifecycle.go:70).
THEOREM NeverStuckListening == Spec => []NotStuckListening
<1>1. ASSUME IInv PROVE NotStuckListening
  <2>1. \A f : stdin = << >> => ~Has(stdin, f)
    BY DEF Has
  <2>2. \A f : stdout = << >> => ~Has(stdout, f)
    BY DEF Has
  <2> QED BY <1>1, <2>1, <2>2 DEF IInv, Pending, ReaderOwes, NotStuckListening
<1> QED BY <1>1, LifecycleInvariant, PTL

=============================================================================
