--------------------------- MODULE BackendProofs ---------------------------
(***************************************************************************)
(* The connection and its keeper, for any set of calls and any bounds.     *)
(*                                                                         *)
(* The inductive invariant Wire says whose a line in a pipe is: a request  *)
(* in a pipe names the call its id was given to, whose work has not begun; *)
(* an answer names the call whose work is done.  A handler waits under one *)
(* id.  The other properties follow from it or are carried along with it.  *)
(* Between adds what a restart leaves behind for the next connection, and  *)
(* Fresh what the processes were spawned with while no change was missed.  *)
(***************************************************************************)
EXTENDS Backend, SequenceTheorems, TLAPS

Lines(pipe) == {pipe[i] : i \in 1..Len(pipe)}

\* No call has two ids, and the pending ids are those of the calls that wait.
Numbered ==
    /\ \A i, j \in Ids(issued) : issued[i] = issued[j] => i = j
    /\ \A i \in Ids(issued) : call[issued[i]] # "idle"
    /\ \A i \in pending : call[issued[i]] = "pending"
    /\ \A c \in Call : call[c] = "pending" => \E i \in pending : issued[i] = c

\* What the lines to the core are about.
CoreLines ==
    \A m \in Lines(toCore) :
        /\ m.kind = "request" =>
              m.id \in Ids(issued) /\ issued[m.id] = m.about /\ handler[m.about] = "none"
        /\ m.kind = "response" => m.id \in Ids(asked) /\ asked[m.id] = m.about

\* What the lines to the extension are about.
ExtLines ==
    \A m \in Lines(toExt) :
        /\ m.kind = "request" => m.id \in Ids(asked) /\ asked[m.id] = m.about
        /\ m.kind = "response" =>
              m.id \in Ids(issued) /\ issued[m.id] = m.about /\ handler[m.about] = "done"

\* No call is requested twice.
OneRequest ==
    \A k, l \in 1..Len(toCore) :
        toCore[k].kind = "request" /\ toCore[l].kind = "request"
            /\ toCore[k].about = toCore[l].about => k = l

\* A handler that is awaited waits, and under one id.
Waiting ==
    /\ \A i \in awaited : handler[asked[i]] = "asking"
    /\ \A i, j \in awaited : asked[i] = asked[j] => i = j

\* The question with this id is somewhere.
Somewhere(i) ==
    \/ \E m \in Lines(toExt) : m.kind = "request" /\ m.id = i
    \/ i \in hosting
    \/ \E m \in Lines(toCore) : m.kind = "response" /\ m.id = i

Questions ==
    alive => \A c \in Call : handler[c] = "asking" =>
        \E i \in awaited : asked[i] = c /\ Somewhere(i)

\* A call that waits is somewhere.
Calls ==
    alive => \A c \in Call : call[c] = "pending" =>
        \/ \E m \in Lines(toCore) : m.kind = "request" /\ m.about = c
        \/ \E m \in Lines(toExt) : m.kind = "response" /\ m.about = c
        \/ handler[c] \in {"running", "asking"}

\* No work is done for a call that was not made.
Unmade == \A c \in Call : call[c] = "idle" => handler[c] = "none"

Silenced == disposed => pending = {}

Wire ==
    /\ TypeOK /\ Numbered /\ CoreLines /\ ExtLines /\ OneRequest /\ Waiting
    /\ Questions /\ Calls /\ Silenced /\ Unmade /\ RightAnswers

\* While a backend is spawned there is no client; when the core has been, nothing of
\* the old connection is left.
Between ==
    /\ phase # "idle" => disposed
    /\ phase = "voice" =>
          /\ toCore = << >> /\ toExt = << >> /\ hosting = {}
          /\ \A c \in Call : handler[c] \notin {"running", "asking"}

-----------------------------------------------------------------------------
(* Pipes and ids.                                                          *)

\* A line is written at the end of a pipe.
LEMMA LinesAppend ==
    ASSUME NEW S, NEW s \in Seq(S), NEW e \in S
    PROVE  /\ Append(s, e) \in Seq(S)
           /\ Lines(Append(s, e)) = Lines(s) \union {e}
<1>1. /\ Append(s, e) \in Seq(S) /\ Len(Append(s, e)) = Len(s) + 1
      /\ \A i \in 1..Len(s) : Append(s, e)[i] = s[i]
      /\ Append(s, e)[Len(s) + 1] = e /\ Len(s) \in Nat
  BY AppendProperties, LenProperties
<1>2. 1..Len(s) + 1 = (1..Len(s)) \union {Len(s) + 1}
  BY <1>1
<1> QED BY <1>1, <1>2 DEF Lines

\* The first line of a pipe is read.
LEMMA LinesTail ==
    ASSUME NEW S, NEW s \in Seq(S), s # << >>
    PROVE  /\ Tail(s) \in Seq(S) /\ Head(s) \in S
           /\ Head(s) \in Lines(s)
           /\ Lines(s) = {Head(s)} \union Lines(Tail(s))
<1>1. /\ Head(s) \in S /\ Tail(s) \in Seq(S) /\ Len(Tail(s)) = Len(s) - 1
      /\ \A i \in 1..Len(Tail(s)) : Tail(s)[i] = s[i + 1]
      /\ Head(s) = s[1] /\ Len(s) \in Nat \ {0}
  BY HeadTailProperties, EmptySeq, LenProperties
<1>2. \A i \in 1..Len(s) : i = 1 \/ i - 1 \in 1..Len(Tail(s))
  BY <1>1
<1>3. \A i \in 1..Len(Tail(s)) : i + 1 \in 1..Len(s)
  BY <1>1
<1>4. \A i \in 1..Len(s) : i # 1 => s[i] = Tail(s)[i - 1]
  BY <1>1, <1>2
<1>5. 1 \in 1..Len(s)
  BY <1>1
<1>6. Lines(s) \subseteq {Head(s)} \union Lines(Tail(s))
  BY <1>1, <1>2, <1>4 DEF Lines
<1>7. {Head(s)} \union Lines(Tail(s)) \subseteq Lines(s)
  BY <1>1, <1>3, <1>5 DEF Lines
<1> QED BY <1>1, <1>5, <1>6, <1>7 DEF Lines

\* Nothing is in an empty pipe.
LEMMA LinesEmpty == Lines(<< >>) = {}
  BY DEF Lines

\* The elements of a pipe of messages are messages.
LEMMA LinesMessages ==
    ASSUME NEW s \in Seq(Message)
    PROVE  Lines(s) \subseteq Message
  BY ElementOfSeq DEF Lines

\* One more id is given out.
LEMMA OneMoreId ==
    ASSUME NEW given \in Seq(Call), NEW c \in Call
    PROVE  /\ Append(given, c) \in Seq(Call)
           /\ Len(given) + 1 \in Nat \ {0}
           /\ Ids(given) = 1..Len(given)
           /\ Ids(Append(given, c)) = Ids(given) \union {Len(given) + 1}
           /\ Len(given) + 1 \notin Ids(given)
           /\ \A i \in Ids(given) : Append(given, c)[i] = given[i]
           /\ Append(given, c)[Len(given) + 1] = c
           /\ \A i \in Ids(given) : given[i] \in Call /\ i \in Nat \ {0}
<1>1. /\ Append(given, c) \in Seq(Call) /\ Len(Append(given, c)) = Len(given) + 1
      /\ \A i \in 1..Len(given) : Append(given, c)[i] = given[i]
      /\ Append(given, c)[Len(given) + 1] = c /\ Len(given) \in Nat
  BY AppendProperties, LenProperties
<1>2. \A i \in 1..Len(given) : given[i] \in Call
  BY ElementOfSeq
<1> QED BY <1>1, <1>2 DEF Ids

\* The ids given out are numbers, and were given to calls.
LEMMA IdsOfCalls ==
    ASSUME NEW given \in Seq(Call)
    PROVE  /\ Ids(given) \subseteq Nat \ {0}
           /\ Ids(given) = 1..Len(given)
           /\ \A i \in Ids(given) : given[i] \in Call
  BY ElementOfSeq, LenProperties DEF Ids

-----------------------------------------------------------------------------
(* Steps of the extension.                                                 *)

\* What a line says.
LEMMA LineSays ==
    ASSUME NEW id \in Nat \ {0}, NEW c \in Call, NEW long \in BOOLEAN
    PROVE  /\ Request(id, c, long) \in Message
           /\ Request(id, c, long).kind = "request" /\ Request(id, c, long).id = id
           /\ Request(id, c, long).about = c
           /\ Response(id, c, long) \in Message
           /\ Response(id, c, long).kind = "response" /\ Response(id, c, long).id = id
           /\ Response(id, c, long).about = c
  BY DEF Request, Response, Message

\* A request is written to a pipe that holds none of its call.
LEMMA OneMoreRequest ==
    ASSUME NEW s \in Seq(Message), NEW e \in Message,
           \A k, l \in 1..Len(s) :
              s[k].kind = "request" /\ s[l].kind = "request" /\ s[k].about = s[l].about => k = l,
           e.kind = "request" => \A m \in Lines(s) : m.kind = "request" => m.about # e.about
    PROVE  LET t == Append(s, e)
           IN  \A k, l \in 1..Len(t) :
                  t[k].kind = "request" /\ t[l].kind = "request" /\ t[k].about = t[l].about => k = l
<1>1. /\ Len(Append(s, e)) = Len(s) + 1
      /\ \A i \in 1..Len(s) : Append(s, e)[i] = s[i]
      /\ Append(s, e)[Len(s) + 1] = e /\ Len(s) \in Nat
  BY AppendProperties, LenProperties
<1>2. \A i \in 1..Len(s) + 1 : i \in 1..Len(s) \/ i = Len(s) + 1
  BY <1>1
<1>3. \A i \in 1..Len(s) : s[i] \in Lines(s)
  BY DEF Lines
<1> QED BY <1>1, <1>2, <1>3

\* When the first line is read, it was the only request of its call.
LEMMA OneRequestLess ==
    ASSUME NEW s \in Seq(Message), s # << >>,
           \A k, l \in 1..Len(s) :
              s[k].kind = "request" /\ s[l].kind = "request" /\ s[k].about = s[l].about => k = l
    PROVE  /\ LET t == Tail(s)
              IN  \A k, l \in 1..Len(t) :
                     t[k].kind = "request" /\ t[l].kind = "request" /\ t[k].about = t[l].about
                        => k = l
           /\ Head(s).kind = "request" =>
                 \A m \in Lines(Tail(s)) : m.kind = "request" => m.about # Head(s).about
<1>1. /\ Len(Tail(s)) = Len(s) - 1
      /\ \A i \in 1..Len(Tail(s)) : Tail(s)[i] = s[i + 1]
      /\ Head(s) = s[1] /\ Len(s) \in Nat \ {0}
  BY HeadTailProperties, EmptySeq, LenProperties
<1>2. 1 \in 1..Len(s) /\ \A i \in 1..Len(Tail(s)) : i + 1 \in 1..Len(s) /\ i + 1 # 1 /\ i \in Nat
  BY <1>1
<1>3. ASSUME NEW k \in 1..Len(Tail(s)), NEW l \in 1..Len(Tail(s)),
             Tail(s)[k].kind = "request", Tail(s)[l].kind = "request",
             Tail(s)[k].about = Tail(s)[l].about
      PROVE  k = l
  <2>1. k + 1 = l + 1
    BY <1>1, <1>2, <1>3
  <2> QED BY <2>1, <1>2
<1>4. ASSUME Head(s).kind = "request", NEW k \in 1..Len(Tail(s)), Tail(s)[k].kind = "request"
      PROVE  Tail(s)[k].about # Head(s).about
  BY <1>1, <1>2, <1>4
<1> QED BY <1>3, <1>4 DEF Lines

\* A call is made.
LEMMA StepMake ==
    ASSUME Wire, NEW c \in Call, NEW long \in BOOLEAN, Make(c, long)
    PROVE  Wire'
<1> DEFINE id == Len(issued) + 1
<1> DEFINE line == Request(id, c, long)
<1>0. /\ call \in [Call -> {"idle", "pending", "answered", "failed"}]
      /\ issued \in Seq(Call) /\ pending \subseteq Ids(issued) /\ toCore \in Seq(Message)
      /\ alive \in BOOLEAN
  BY IdsOfCalls DEF Wire, TypeOK, Ids
<1>1. /\ id \in Nat \ {0} /\ id \notin Ids(issued)
      /\ Ids(issued)' = Ids(issued) \union {id} /\ issued' \in Seq(Call)
      /\ \A i \in Ids(issued) : issued'[i] = issued[i] /\ issued[i] \in Call
      /\ issued'[id] = c
  BY <1>0, OneMoreId DEF Make, Ids
<1>2. /\ line \in Message /\ line.kind = "request" /\ line.id = id /\ line.about = c
  BY <1>1, LineSays
<1>3. /\ call[c] = "idle" /\ call' = [call EXCEPT ![c] = "pending"]
      /\ pending' = pending \union {id} /\ ~disposed
      /\ toCore' = IF alive THEN Append(toCore, line) ELSE toCore
      /\ UNCHANGED <<answer, hosting, disposed, exitSeen, core, toExt>>
  BY DEF Make, WriteToCore
<1> HIDE DEF id, line
<1>4. /\ toCore' \in Seq(Message)
      /\ alive => toCore' = Append(toCore, line) /\ Lines(toCore') = Lines(toCore) \union {line}
      /\ ~alive => toCore' = toCore /\ Lines(toCore') = Lines(toCore)
  <2>1. CASE alive
    BY <1>0, <1>2, <1>3, <2>1, LinesAppend
  <2>2. CASE ~alive
    BY <1>0, <1>3, <2>2
  <2> QED BY <2>1, <2>2
<1>5. TypeOK'
  <2>1. pending' \subseteq 1..Len(issued')
    BY <1>0, <1>1, <1>3 DEF Ids
  <2> QED BY <1>0, <1>1, <1>3, <1>4, <2>1 DEF Wire, TypeOK, core
<1>6. Numbered'
  <2>1. \A i \in Ids(issued) : issued[i] # c
    BY <1>3 DEF Wire, Numbered
  <2>2. /\ \A i \in Ids(issued) : call'[issued[i]] = call[issued[i]]
        /\ call'[c] = "pending"
    BY <1>0, <1>1, <1>3, <2>1
  <2>3. \A i, j \in Ids(issued)' : issued'[i] = issued'[j] => i = j
    BY <1>1, <2>1 DEF Wire, Numbered
  <2>4. \A i \in Ids(issued)' : call'[issued'[i]] # "idle"
    BY <1>1, <2>2 DEF Wire, Numbered
  <2>5. \A i \in pending' : call'[issued'[i]] = "pending"
    BY <1>0, <1>1, <1>3, <2>2 DEF Wire, Numbered
  <2>6. ASSUME NEW d \in Call, call'[d] = "pending"
        PROVE  \E i \in pending' : issued'[i] = d
    <3>1. CASE d = c
      BY <1>1, <1>3, <3>1
    <3>2. CASE d # c
      BY <1>0, <1>1, <1>3, <2>6, <3>2 DEF Wire, Numbered
    <3> QED BY <3>1, <3>2
  <2> QED BY <2>3, <2>4, <2>5, <2>6 DEF Numbered
<1>7. \A m \in Lines(toCore) : m.kind = "request" => m.about # c
  BY <1>3 DEF Wire, CoreLines, Numbered
<1>8. handler[c] = "none"
  BY <1>3 DEF Wire, Unmade
<1>9. \A d \in Call : call'[d] = "idle" => call[d] = "idle"
  BY <1>0, <1>3
<1>10. CoreLines'
  <2>1. \A m \in Lines(toCore) : m.kind = "request" => m.id \in Ids(issued)
    BY DEF Wire, CoreLines
  <2>2. UNCHANGED <<handler, asked>>
    BY <1>3 DEF core
  <2>3. \A m \in Lines(toCore') : m \in Lines(toCore) \/ m = line
    BY <1>4, <1>0
  <2>4. Ids(asked)' = Ids(asked)
    BY <2>2 DEF Ids
  <2> QED BY <1>1, <1>2, <1>8, <2>1, <2>2, <2>3, <2>4 DEF Wire, CoreLines
<1>11. ExtLines'
  <2>1. UNCHANGED <<handler, asked, toExt>> /\ Ids(asked)' = Ids(asked)
    BY <1>3 DEF core, Ids
  <2> QED BY <1>1, <2>1 DEF Wire, ExtLines
<1>12. OneRequest'
  <2>1. CASE alive
    <3>1. OneRequest /\ toCore' = Append(toCore, line)
      BY <1>4, <2>1 DEF Wire
    <3> QED BY <1>0, <1>2, <1>7, <3>1, OneMoreRequest DEF OneRequest
  <2>2. CASE ~alive
    BY <1>4, <2>2 DEF Wire, OneRequest
  <2> QED BY <1>0, <2>1, <2>2
<1>13. Waiting' /\ Silenced' /\ RightAnswers' /\ Unmade'
  BY <1>3, <1>9 DEF Wire, Waiting, Silenced, RightAnswers, Unmade, core
<1>14. Questions'
  <2>1. Lines(toCore) \subseteq Lines(toCore')
    BY <1>0, <1>4
  <2> QED BY <1>3, <2>1 DEF Wire, Questions, Somewhere, core
<1>15. Calls'
  <2>1. Lines(toCore) \subseteq Lines(toCore') /\ (alive => line \in Lines(toCore'))
    BY <1>0, <1>4
  <2>2. \A d \in Call : d # c => call'[d] = call[d]
    BY <1>0, <1>3
  <2> QED BY <1>2, <1>3, <2>1, <2>2 DEF Wire, Calls, core
<1> QED BY <1>5, <1>6, <1>10, <1>11, <1>12, <1>13, <1>14, <1>15 DEF Wire
\* A call is refused by a client that was disposed of.
LEMMA StepMakeRefused ==
    ASSUME Wire, NEW c \in Call, MakeRefused(c)
    PROVE  Wire'
<1>1. /\ call \in [Call -> {"idle", "pending", "answered", "failed"}] /\ call[c] = "idle"
      /\ call' = [call EXCEPT ![c] = "failed"]
      /\ UNCHANGED <<answer, issued, pending, hosting, disposed, exitSeen, core, toCore, toExt>>
  BY DEF Wire, TypeOK, MakeRefused
<1>2. \A d \in Call : call'[d] = call[d] \/ (d = c /\ call'[d] = "failed")
  BY <1>1
<1>3. Ids(issued)' = Ids(issued) /\ Ids(asked)' = Ids(asked)
  BY <1>1 DEF Ids, core
<1>4. TypeOK'
  BY <1>1 DEF Wire, TypeOK, core
<1>5. Numbered'
  BY <1>1, <1>2, <1>3 DEF Wire, Numbered, TypeOK, Ids
<1>6. CoreLines' /\ ExtLines' /\ OneRequest'
  BY <1>1, <1>3 DEF Wire, CoreLines, ExtLines, OneRequest, core
<1>7. Waiting' /\ Silenced' /\ RightAnswers' /\ Questions'
  BY <1>1 DEF Wire, Waiting, Silenced, RightAnswers, Questions, Somewhere, core
<1>8. Unmade' /\ Calls'
  BY <1>1, <1>2 DEF Wire, Unmade, Calls, core
<1> QED BY <1>4, <1>5, <1>6, <1>7, <1>8 DEF Wire

\* All pending calls fail.
LEMMA StepRejectAll ==
    ASSUME Wire, RejectAll, {disposed', exitSeen'} \subseteq BOOLEAN,
           UNCHANGED <<answer, issued, hosting, reader, handler, told, asked, awaited, toExt>>,
           \/ UNCHANGED <<alive, toCore>>
           \/ alive' = FALSE /\ toCore' = << >>
    PROVE  /\ Wire'
           /\ \A c \in Call : call'[c] = IF call[c] = "pending" THEN "failed" ELSE call[c]
<1>1. /\ call \in [Call -> {"idle", "pending", "answered", "failed"}]
      /\ call' = [c \in Call |-> IF \E i \in pending : issued[i] = c THEN "failed" ELSE call[c]]
      /\ pending' = {} /\ pending \subseteq Ids(issued)
  BY DEF Wire, TypeOK, RejectAll, Settled, Ids
<1>2. \A c \in Call : (\E i \in pending : issued[i] = c) <=> call[c] = "pending"
  BY DEF Wire, Numbered
<1>3. \A c \in Call : call'[c] = IF call[c] = "pending" THEN "failed" ELSE call[c]
  BY <1>1, <1>2
<1>4. Ids(issued)' = Ids(issued) /\ Ids(asked)' = Ids(asked)
  BY DEF Ids
<1> DEFINE died == alive' = FALSE /\ toCore' = << >>
<1>10. died => Lines(toCore') = {} /\ toCore' \in Seq(Message) /\ 1..Len(toCore') = {}
  BY LinesEmpty, EmptySeq
<1>11. died \/ UNCHANGED <<alive, toCore>>
  OBVIOUS
<1>5. TypeOK'
  <2>1. alive' \in BOOLEAN /\ toCore' \in Seq(Message)
    BY <1>10, <1>11 DEF Wire, TypeOK
  <2> QED BY <1>1, <2>1 DEF Wire, TypeOK
<1>6. Numbered'
  <2>1. \A i \in Ids(issued) : issued[i] \in Call
    BY IdsOfCalls DEF Wire, TypeOK
  <2> QED BY <1>1, <1>3, <1>4, <2>1 DEF Wire, Numbered
<1>7. CoreLines' /\ ExtLines' /\ OneRequest'
  <2>1. CASE died
    BY <1>4, <1>10, <2>1 DEF Wire, CoreLines, ExtLines, OneRequest
  <2>2. CASE UNCHANGED <<alive, toCore>>
    BY <1>4, <2>2 DEF Wire, CoreLines, ExtLines, OneRequest
  <2> QED BY <1>11, <2>1, <2>2
<1>8. Waiting' /\ Silenced' /\ RightAnswers'
  BY <1>1 DEF Wire, Waiting, Silenced, RightAnswers
<1>9. Unmade' /\ Questions' /\ Calls'
  <2>1. Unmade'
    BY <1>3 DEF Wire, Unmade
  <2>2. CASE died
    BY <2>1, <2>2 DEF Questions, Calls
  <2>3. CASE UNCHANGED <<alive, toCore>>
    BY <1>3, <2>1, <2>3 DEF Wire, Questions, Somewhere, Calls
  <2> QED BY <1>11, <2>2, <2>3
<1> QED BY <1>3, <1>5, <1>6, <1>7, <1>8, <1>9 DEF Wire

\* A question of the core is heard.
LEMMA StepHearRequest ==
    ASSUME Wire, HearRequest
    PROVE  Wire'
<1> DEFINE line == Head(toExt)
<1>1. /\ toExt \in Seq(Message) /\ toExt # << >> /\ line.kind = "request"
      /\ toExt' = Tail(toExt) /\ hosting' = hosting \union {line.id}
      /\ UNCHANGED <<call, answer, issued, pending, disposed, exitSeen, core, toCore>>
  BY DEF Wire, TypeOK, HearRequest
<1>2. /\ toExt' \in Seq(Message) /\ line \in Message
      /\ Lines(toExt) = {line} \union Lines(toExt')
  BY <1>1, LinesTail
<1> HIDE DEF line
<1>3. line.id \in Ids(asked) /\ asked[line.id] = line.about
  BY <1>1, <1>2 DEF Wire, ExtLines
<1>4. Ids(issued)' = Ids(issued) /\ Ids(asked)' = Ids(asked)
  BY <1>1 DEF Ids, core
<1>5. TypeOK'
  BY <1>1, <1>2, <1>3 DEF Wire, TypeOK, Ids, core
<1>6. Numbered' /\ CoreLines' /\ ExtLines' /\ OneRequest'
  BY <1>1, <1>2, <1>4 DEF Wire, Numbered, CoreLines, ExtLines, OneRequest, core
<1>7. Waiting' /\ Silenced' /\ RightAnswers' /\ Unmade'
  BY <1>1 DEF Wire, Waiting, Silenced, RightAnswers, Unmade, core
<1>8. Questions'
  <2>1. \A i : Somewhere(i) => Somewhere(i)'
    BY <1>1, <1>2 DEF Somewhere
  <2> QED BY <1>1, <2>1 DEF Wire, Questions, core
<1>9. Calls'
  BY <1>1, <1>2 DEF Wire, Calls, core
<1> QED BY <1>5, <1>6, <1>7, <1>8, <1>9 DEF Wire

\* An answer of the core is heard.
LEMMA StepHearAnswer ==
    ASSUME Wire, HearAnswer
    PROVE  /\ Wire'
           /\ \/ \A c \in Call : call'[c] = call[c]
              \/ \E c \in Call : /\ call[c] = "pending" /\ handler[c] = "done"
                                 /\ call' = [call EXCEPT ![c] = "answered"]
<1> DEFINE line == Head(toExt)
<1> DEFINE hit == {line.id} \intersect pending
<1>1. /\ toExt \in Seq(Message) /\ toExt # << >> /\ line.kind = "response"
      /\ toExt' = Tail(toExt) /\ pending' = pending \ hit
      /\ call' = [c \in Call |-> IF \E i \in hit : issued[i] = c THEN "answered" ELSE call[c]]
      /\ answer' = [c \in Call |-> IF \E i \in hit : issued[i] = c THEN line.about ELSE answer[c]]
      /\ UNCHANGED <<issued, hosting, disposed, exitSeen, core, toCore>>
  BY DEF Wire, TypeOK, HearAnswer, Settle, Settled
<1>2. /\ toExt' \in Seq(Message) /\ line \in Message
      /\ Lines(toExt) = {line} \union Lines(toExt')
  BY <1>1, LinesTail
<1>3. line.id \in Ids(issued) /\ issued[line.id] = line.about
  BY <1>1, <1>2 DEF Wire, ExtLines
<1>0. \A i \in hit : i = line.id /\ i \in pending
  OBVIOUS
<1>h. line.id \in pending => line.id \in hit
  OBVIOUS
<1> HIDE DEF line, hit
<1>4. Ids(issued)' = Ids(issued) /\ Ids(asked)' = Ids(asked)
  BY <1>1 DEF Ids, core
<1>5. /\ call \in [Call -> {"idle", "pending", "answered", "failed"}]
      /\ answer \in [Call -> Call \union {None}] /\ pending \subseteq Ids(issued)
      /\ \A i \in Ids(issued) : issued[i] \in Call
  BY IdsOfCalls DEF Wire, TypeOK, Ids
<1>6. \A c \in Call :
        \/ /\ c = line.about /\ line.id \in pending /\ call[c] = "pending"
           /\ call'[c] = "answered" /\ answer'[c] = c
        \/ /\ ~(c = line.about /\ line.id \in pending)
           /\ call'[c] = call[c] /\ answer'[c] = answer[c]
  <2> TAKE c \in Call
  <2>1. CASE \E i \in hit : issued[i] = c
    BY <1>0, <1>1, <1>3, <1>5, <2>1 DEF Wire, Numbered
  <2>2. CASE ~\E i \in hit : issued[i] = c
    BY <1>h, <1>1, <1>3, <1>5, <2>2
  <2> QED BY <2>1, <2>2
<1>7. TypeOK'
  <2>1. line.about \in Call
    BY <1>2 DEF Message
  <2> QED BY <1>1, <1>2, <1>5, <2>1 DEF Wire, TypeOK, Ids, core
<1>8. Numbered'
  <2>1. \A i \in pending' : i \in pending /\ i # line.id
    BY <1>1, <1>h
  <2>2. \A i \in pending' : issued[i] # line.about
    BY <1>3, <1>5, <2>1 DEF Wire, Numbered
  <2>3. \A i \in pending' : call'[issued[i]] = "pending"
    BY <1>5, <1>6, <2>1, <2>2 DEF Wire, Numbered
  <2>4. \A i \in Ids(issued) : call'[issued[i]] # "idle"
    BY <1>5, <1>6 DEF Wire, Numbered
  <2>5. \A c \in Call : call'[c] = "pending" => call[c] = "pending" /\ ~(c = line.about /\ line.id \in pending)
    BY <1>6
  <2>6. \A c \in Call : call'[c] = "pending" => \E i \in pending' : issued[i] = c
    BY <1>0, <1>1, <1>3, <2>5 DEF Wire, Numbered
  <2> QED BY <1>1, <1>4, <2>3, <2>4, <2>6 DEF Wire, Numbered
<1>9. CoreLines' /\ ExtLines' /\ OneRequest'
  BY <1>1, <1>2, <1>4 DEF Wire, CoreLines, ExtLines, OneRequest, core
<1>10. Waiting' /\ Silenced'
  BY <1>1 DEF Wire, Waiting, Silenced, core
<1>11. RightAnswers' /\ Unmade'
  BY <1>1, <1>6 DEF Wire, RightAnswers, Unmade, core
<1>12. Questions'
  <2>1. \A i : Somewhere(i) => Somewhere(i)'
    BY <1>1, <1>2 DEF Somewhere
  <2> QED BY <1>1, <2>1 DEF Wire, Questions, core
<1>13. Calls'
  <2>1. \A c \in Call : call'[c] = "pending" => call[c] = "pending" /\ c # line.about
    BY <1>3, <1>5, <1>6 DEF Wire, Numbered
  <2> QED BY <1>1, <1>2, <2>1 DEF Wire, Calls, core
<1>14. \/ \A c \in Call : call'[c] = call[c]
       \/ \E c \in Call : /\ call[c] = "pending" /\ handler[c] = "done"
                          /\ call' = [call EXCEPT ![c] = "answered"]
  <2>1. CASE line.id \in pending
    <3>1. line.about \in Call /\ call[line.about] = "pending" /\ call'[line.about] = "answered"
      BY <1>3, <1>5, <1>6, <2>1
    <3>2. handler[line.about] = "done"
      BY <1>1, <1>2 DEF Wire, ExtLines
    <3>3. call' = [call EXCEPT ![line.about] = "answered"]
      <4>1. \A c \in Call : c # line.about => call'[c] = call[c]
        BY <1>6
      <4>2. call' = [c \in Call |-> call'[c]]
        BY <1>1
      <4> QED BY <1>5, <3>1, <4>1, <4>2
    <3> QED BY <3>1, <3>2, <3>3
  <2>2. CASE line.id \notin pending
    BY <1>6, <2>2
  <2> QED BY <2>1, <2>2
<1> QED BY <1>7, <1>8, <1>9, <1>10, <1>11, <1>12, <1>13, <1>14 DEF Wire

\* The extension answers a question.
LEMMA StepServe ==
    ASSUME Wire, NEW id \in hosting, NEW long \in BOOLEAN, Serve(id, long)
    PROVE  Wire'
<1> DEFINE line == Response(id, asked[id], long)
<1>1. /\ toCore \in Seq(Message) /\ alive \in BOOLEAN
      /\ hosting \subseteq Ids(asked) /\ hosting' = hosting \ {id}
      /\ toCore' = IF alive THEN Append(toCore, line) ELSE toCore
      /\ UNCHANGED <<call, answer, issued, pending, disposed, exitSeen, core, toExt>>
  BY DEF Wire, TypeOK, Serve, WriteToCore, Ids
<1>2. id \in Ids(asked) /\ asked[id] \in Call /\ id \in Nat \ {0}
  BY <1>1, IdsOfCalls DEF Wire, TypeOK
<1>3. /\ line \in Message /\ line.kind = "response" /\ line.id = id /\ line.about = asked[id]
  BY <1>2, LineSays
<1> HIDE DEF line
<1>4. /\ toCore' \in Seq(Message)
      /\ alive => toCore' = Append(toCore, line) /\ Lines(toCore') = Lines(toCore) \union {line}
      /\ ~alive => toCore' = toCore /\ Lines(toCore') = Lines(toCore)
  <2>1. CASE alive
    BY <1>1, <1>3, <2>1, LinesAppend
  <2>2. CASE ~alive
    BY <1>1, <2>2
  <2> QED BY <2>1, <2>2
<1>5. Ids(issued)' = Ids(issued) /\ Ids(asked)' = Ids(asked)
  BY <1>1 DEF Ids, core
<1>6. TypeOK'
  BY <1>1, <1>4 DEF Wire, TypeOK, core
<1>7. Numbered' /\ ExtLines'
  BY <1>1, <1>5 DEF Wire, Numbered, ExtLines, core
<1>8. CoreLines'
  <2>1. \A m \in Lines(toCore') : m \in Lines(toCore) \/ m = line
    BY <1>1, <1>4
  <2> QED BY <1>1, <1>2, <1>3, <1>5, <2>1 DEF Wire, CoreLines, core
<1>9. OneRequest'
  <2>1. CASE alive
    <3>1. OneRequest /\ toCore' = Append(toCore, line) /\ line.kind # "request"
      BY <1>3, <1>4, <2>1 DEF Wire
    <3> QED BY <1>1, <1>3, <3>1, OneMoreRequest DEF OneRequest
  <2>2. CASE ~alive
    BY <1>4, <2>2 DEF Wire, OneRequest
  <2> QED BY <1>1, <2>1, <2>2
<1>10. Waiting' /\ Silenced' /\ RightAnswers' /\ Unmade'
  BY <1>1 DEF Wire, Waiting, Silenced, RightAnswers, Unmade, core
<1>11. Questions' /\ Calls'
  <2>1. alive => \A i : Somewhere(i) => Somewhere(i)'
    <3>1. alive => line \in Lines(toCore') /\ Lines(toCore) \subseteq Lines(toCore')
      BY <1>4
    <3> QED BY <1>1, <1>3, <3>1 DEF Somewhere
  <2>2. alive => Lines(toCore) \subseteq Lines(toCore')
    BY <1>4
  <2>3. Questions'
    BY <1>1, <2>1 DEF Wire, Questions, core
  <2>4. Calls'
    BY <1>1, <2>2 DEF Wire, Calls, core
  <2> QED BY <2>3, <2>4
<1> QED BY <1>6, <1>7, <1>8, <1>9, <1>10, <1>11 DEF Wire

-----------------------------------------------------------------------------
(* Steps of the core.                                                      *)

\* The core reads a request.
LEMMA StepReadRequest ==
    ASSUME Wire, ReadRequest
    PROVE  /\ Wire'
           /\ \E c \in Call : /\ call[c] # "idle" /\ handler[c] = "none"
                              /\ handler' = [handler EXCEPT ![c] = "running"]
<1> DEFINE line == Head(toCore)
<1>1. /\ toCore \in Seq(Message) /\ toCore # << >> /\ line.kind = "request"
      /\ toCore' = Tail(toCore)
      /\ handler \in [Call -> {"none", "running", "asking", "done", "lost"}]
      /\ handler' = [handler EXCEPT ![line.about] = "running"]
      /\ UNCHANGED <<extension, alive, reader, told, asked, awaited, toExt>>
  BY DEF Wire, TypeOK, ReadRequest, Reading
<1>2. /\ toCore' \in Seq(Message) /\ line \in Message /\ line \in Lines(toCore)
      /\ Lines(toCore) = {line} \union Lines(toCore')
  BY <1>1, LinesTail
<1>3. /\ OneRequest'
      /\ \A m \in Lines(toCore') : m.kind = "request" => m.about # line.about
  BY <1>1, OneRequestLess DEF Wire, OneRequest
<1> HIDE DEF line
<1>4. /\ line.about \in Call /\ handler[line.about] = "none"
      /\ line.id \in Ids(issued) /\ issued[line.id] = line.about
  BY <1>1, <1>2 DEF Wire, CoreLines, Message
<1>5. /\ handler'[line.about] = "running"
      /\ \A c \in Call : c # line.about => handler'[c] = handler[c]
  BY <1>1, <1>4
<1>6. Ids(issued)' = Ids(issued) /\ Ids(asked)' = Ids(asked)
  BY <1>1 DEF Ids, extension
<1>7. TypeOK'
  BY <1>1, <1>2 DEF Wire, TypeOK, extension
<1>8. Numbered'
  BY <1>1, <1>6 DEF Wire, Numbered, extension
<1>9. CoreLines'
  <2>1. \A m \in Lines(toCore') : m \in Lines(toCore) /\ m.about \in Call
    BY <1>2, LinesMessages DEF Message
  <2> QED BY <1>1, <1>3, <1>5, <1>6, <2>1 DEF Wire, CoreLines, extension
<1>10. ExtLines'
  <2>1. \A m \in Lines(toExt) : m.about \in Call
    BY LinesMessages DEF Wire, TypeOK, Message
  <2> QED BY <1>1, <1>4, <1>5, <1>6, <2>1 DEF Wire, ExtLines, extension
<1>11. Waiting'
  <2>1. \A i \in awaited : asked[i] \in Call
    BY IdsOfCalls DEF Wire, TypeOK
  <2> QED BY <1>1, <1>4, <1>5, <2>1 DEF Wire, Waiting, extension
<1>12. Silenced' /\ RightAnswers'
  BY <1>1 DEF Wire, Silenced, RightAnswers, extension
<1>13. Unmade'
  BY <1>1, <1>4, <1>5 DEF Wire, Unmade, Numbered, extension
<1>14. Questions'
  <2>1. \A i : Somewhere(i) => Somewhere(i)'
    BY <1>1, <1>2 DEF Somewhere, extension
  <2> QED BY <1>1, <1>4, <1>5, <2>1 DEF Wire, Questions, extension
<1>15. Calls'
  BY <1>1, <1>2, <1>5 DEF Wire, Calls, extension
<1>16. call[line.about] # "idle"
  BY <1>4 DEF Wire, Numbered
<1> QED BY <1>1, <1>3, <1>4, <1>7, <1>8, <1>9, <1>10, <1>11, <1>12, <1>13, <1>14, <1>15, <1>16
        DEF Wire

\* The core reads an answer.
LEMMA StepReadAnswer ==
    ASSUME Wire, ReadAnswer
    PROVE  /\ Wire'
           /\ \A c \in Call : \/ handler'[c] = handler[c]
                              \/ handler[c] = "asking" /\ handler'[c] = "running"
<1> DEFINE line == Head(toCore)
<1> DEFINE hit == {line.id} \intersect awaited
<1> DEFINE woken == {c \in Call : \E i \in hit : asked[i] = c}
<1>1. /\ toCore \in Seq(Message) /\ toCore # << >> /\ line.kind = "response"
      /\ toCore' = Tail(toCore)
      /\ handler \in [Call -> {"none", "running", "asking", "done", "lost"}]
      /\ told \in [Call -> Call \union {None}] /\ awaited \subseteq Ids(asked)
      /\ \A i \in Ids(asked) : asked[i] \in Call
      /\ awaited' = awaited \ hit
      /\ handler' = [c \in Call |-> IF c \in woken THEN "running" ELSE handler[c]]
      /\ told' = [c \in Call |-> IF c \in woken THEN line.about ELSE told[c]]
      /\ UNCHANGED <<extension, alive, reader, asked, toExt>>
  <2>1. awaited \subseteq Ids(asked) /\ \A i \in Ids(asked) : asked[i] \in Call
    BY IdsOfCalls DEF Wire, TypeOK
  <2> QED BY <2>1 DEF Wire, TypeOK, ReadAnswer, Reading
<1>2. /\ toCore' \in Seq(Message) /\ line \in Message /\ line \in Lines(toCore)
      /\ Lines(toCore) = {line} \union Lines(toCore')
  BY <1>1, LinesTail
<1>3. OneRequest'
  BY <1>1, OneRequestLess DEF Wire, OneRequest
<1>4. line.id \in Ids(asked) /\ asked[line.id] = line.about /\ line.about \in Call
  BY <1>1, <1>2 DEF Wire, CoreLines, Message
<1>5. \A c \in woken : c = line.about /\ handler[c] = "asking" /\ line.id \in awaited
  BY <1>4 DEF Wire, Waiting
<1>6. \A i \in awaited' : i \in awaited /\ asked[i] \notin woken /\ asked[i] \in Call
  <2> TAKE i \in awaited'
  <2>1. i \in awaited /\ i # line.id /\ asked[i] \in Call
    BY <1>1
  <2>2. ASSUME asked[i] \in woken PROVE FALSE
    BY <1>4, <1>5, <2>1, <2>2 DEF Wire, Waiting
  <2> QED BY <2>1, <2>2
<1>7. \A i \in awaited : i \in awaited' \/ asked[i] \in woken
  BY <1>1
<1> HIDE DEF line, hit, woken
<1>8. \A c \in Call : \/ /\ c \in woken /\ handler[c] = "asking" /\ handler'[c] = "running"
                         /\ told'[c] = c
                      \/ c \notin woken /\ handler'[c] = handler[c] /\ told'[c] = told[c]
  BY <1>1, <1>5
<1>9. Ids(issued)' = Ids(issued) /\ Ids(asked)' = Ids(asked)
  BY <1>1 DEF Ids, extension
<1>10. TypeOK'
  <2>1. awaited' \subseteq 1..Len(asked)'
    BY <1>1, <1>6 DEF Ids
  <2>2. /\ handler' \in [Call -> {"none", "running", "asking", "done", "lost"}]
        /\ told' \in [Call -> Call \union {None}]
    BY <1>1, <1>4
  <2> QED BY <1>1, <1>2, <2>1, <2>2 DEF Wire, TypeOK, extension
<1>11. Numbered'
  BY <1>1, <1>9 DEF Wire, Numbered, extension
<1>12. CoreLines'
  <2>1. \A m \in Lines(toCore') : m \in Lines(toCore) /\ m.about \in Call
    BY <1>2, LinesMessages DEF Message
  <2> QED BY <1>1, <1>8, <1>9, <2>1 DEF Wire, CoreLines, extension
<1>13. ExtLines'
  <2>1. \A m \in Lines(toExt) : m.about \in Call
    BY LinesMessages DEF Wire, TypeOK, Message
  <2> QED BY <1>1, <1>8, <1>9, <2>1 DEF Wire, ExtLines, extension
<1>14. Waiting'
  BY <1>1, <1>6, <1>8 DEF Wire, Waiting, extension
<1>15. Silenced' /\ RightAnswers'
  <2>1. Silenced'
    BY <1>1 DEF Wire, Silenced, extension
  <2>2. RightAnswers'
    BY <1>1, <1>8 DEF Wire, RightAnswers, extension
  <2> QED BY <2>1, <2>2
<1>16. Unmade'
  BY <1>1, <1>8 DEF Wire, Unmade, extension
<1>17. Questions'
  <2> SUFFICES ASSUME alive', NEW c \in Call, handler'[c] = "asking"
               PROVE  \E i \in awaited' : asked'[i] = c /\ Somewhere(i)'
    BY DEF Questions
  <2>1. c \notin woken /\ handler[c] = "asking" /\ alive
    BY <1>1, <1>8
  <2>2. PICK i \in awaited : asked[i] = c /\ Somewhere(i)
    BY <2>1 DEF Wire, Questions
  <2>3. i \in awaited' /\ asked'[i] = c
    BY <1>1, <1>7, <2>1, <2>2
  <2>4. i # line.id
    BY <1>1, <2>3 DEF hit
  <2>5. Somewhere(i)'
    BY <1>1, <1>2, <2>2, <2>4 DEF Somewhere, extension
  <2> QED BY <2>3, <2>5
<1>18. Calls'
  BY <1>1, <1>2, <1>8 DEF Wire, Calls, extension
<1>19. \A c \in Call : \/ handler'[c] = handler[c]
                       \/ handler[c] = "asking" /\ handler'[c] = "running"
  BY <1>8
<1>20. Wire'
  BY <1>3, <1>10, <1>11, <1>12, <1>13, <1>14, <1>15, <1>16, <1>17, <1>18 DEF Wire
<1> QED BY <1>19, <1>20

\* A handler asks the extension.
LEMMA StepAsk ==
    ASSUME Wire, NEW c \in Call, Ask(c)
    PROVE  Wire'
<1> DEFINE id == Len(asked) + 1
<1> DEFINE line == Request(id, c, FALSE)
<1>0. /\ handler \in [Call -> {"none", "running", "asking", "done", "lost"}]
      /\ asked \in Seq(Call) /\ awaited \subseteq Ids(asked) /\ hosting \subseteq Ids(asked)
      /\ toExt \in Seq(Message)
  BY IdsOfCalls DEF Wire, TypeOK, Ids
<1>1. /\ id \in Nat \ {0} /\ id \notin Ids(asked)
      /\ Ids(asked)' = Ids(asked) \union {id} /\ asked' \in Seq(Call)
      /\ \A i \in Ids(asked) : asked'[i] = asked[i] /\ asked[i] \in Call
      /\ asked'[id] = c
  BY <1>0, OneMoreId DEF Ask, Ids
<1>2. /\ line \in Message /\ line.kind = "request" /\ line.id = id /\ line.about = c
  BY <1>1 DEF Request, Message
<1>3. /\ handler[c] = "running" /\ handler' = [handler EXCEPT ![c] = "asking"]
      /\ awaited' = awaited \union {id} /\ alive
      /\ toExt' = Append(toExt, line)
      /\ UNCHANGED <<extension, alive, reader, told, toCore>>
  BY DEF Ask
<1> HIDE DEF id, line
<1>4. toExt' \in Seq(Message) /\ Lines(toExt') = Lines(toExt) \union {line}
  BY <1>0, <1>2, <1>3, LinesAppend
<1>5. handler'[c] = "asking" /\ \A d \in Call : d # c => handler'[d] = handler[d]
  BY <1>0, <1>3
<1>6. Ids(issued)' = Ids(issued)
  BY <1>3 DEF Ids, extension
<1>7. TypeOK'
  <2>1. awaited' \subseteq 1..Len(asked') /\ hosting' \subseteq 1..Len(asked')
    BY <1>0, <1>1, <1>3 DEF Ids, extension
  <2> QED BY <1>0, <1>1, <1>3, <1>4, <2>1 DEF Wire, TypeOK, extension
<1>8. Numbered' /\ OneRequest'
  BY <1>3, <1>6 DEF Wire, Numbered, OneRequest, extension
<1>9. CoreLines'
  <2>1. \A m \in Lines(toCore) : m.about \in Call
    BY LinesMessages DEF Wire, TypeOK, Message
  <2> QED BY <1>1, <1>3, <1>5, <1>6, <2>1 DEF Wire, CoreLines, extension
<1>10. ExtLines'
  <2>1. \A m \in Lines(toExt) : m.about \in Call
    BY LinesMessages DEF Wire, TypeOK, Message
  <2>2. \A m \in Lines(toExt') : m \in Lines(toExt) \/ m = line
    BY <1>4
  <2>3. UNCHANGED issued
    BY <1>3 DEF extension
  <2> QED BY <1>1, <1>2, <1>3, <1>5, <1>6, <2>1, <2>2, <2>3 DEF Wire, ExtLines
<1>11. Waiting'
  <2>1. \A i \in awaited : asked[i] # c
    BY <1>3 DEF Wire, Waiting
  <2>2. \A i \in awaited : asked'[i] = asked[i] /\ asked[i] \in Call
    BY <1>0, <1>1
  <2>3. \A i \in awaited' : i \in awaited \/ i = id
    BY <1>3
  <2> QED BY <1>1, <1>5, <2>1, <2>2, <2>3 DEF Wire, Waiting
<1>12. Silenced' /\ RightAnswers'
  BY <1>3 DEF Wire, Silenced, RightAnswers, extension
<1>13. Unmade'
  BY <1>3, <1>5 DEF Wire, Unmade, extension
<1>14. Questions'
  <2>1. \A i : Somewhere(i) => Somewhere(i)'
    BY <1>3, <1>4 DEF Somewhere, extension
  <2>2. PICK n \in Nat : n = id
    BY <1>1
  <2>3. n \in awaited' /\ asked'[n] = c /\ Somewhere(n)'
    BY <1>1, <1>2, <1>3, <1>4, <2>2 DEF Somewhere
  <2>4. ASSUME NEW d \in Call, handler'[d] = "asking"
        PROVE  \E i \in awaited' : asked'[i] = d /\ Somewhere(i)'
    <3>1. CASE d = c
      BY <2>3, <3>1
    <3>2. CASE d # c
      BY <1>0, <1>1, <1>3, <1>5, <2>1, <2>4, <3>2 DEF Wire, Questions
    <3> QED BY <3>1, <3>2
  <2> QED BY <2>4 DEF Questions
<1>15. Calls'
  BY <1>3, <1>4, <1>5 DEF Wire, Calls, extension
<1> QED BY <1>7, <1>8, <1>9, <1>10, <1>11, <1>12, <1>13, <1>14, <1>15 DEF Wire

\* A handler ends.
LEMMA StepReply ==
    ASSUME Wire, NEW c \in Call, Reply(c)
    PROVE  Wire'
<1>0. /\ handler \in [Call -> {"none", "running", "asking", "done", "lost"}]
      /\ toExt \in Seq(Message) /\ Ids(issued) \subseteq Nat \ {0}
      /\ handler[c] = "running" /\ handler' = [handler EXCEPT ![c] = "done"]
      /\ UNCHANGED <<extension, alive, reader, told, asked, awaited, toCore>>
  BY IdsOfCalls DEF Wire, TypeOK, Reply
<1>1. PICK id \in Ids(issued) :
        issued[id] = c /\ toExt' = Append(toExt, Response(id, c, FALSE))
  BY DEF Reply
<1> DEFINE line == Response(id, c, FALSE)
<1>2. line \in Message /\ line.kind = "response" /\ line.id = id /\ line.about = c
  BY <1>0 DEF Response, Message
<1>3. toExt' = Append(toExt, line)
  BY <1>1
<1> HIDE DEF line
<1>4. toExt' \in Seq(Message) /\ Lines(toExt') = Lines(toExt) \union {line}
  BY <1>0, <1>2, <1>3, LinesAppend
<1>5. handler'[c] = "done" /\ \A d \in Call : d # c => handler'[d] = handler[d]
  BY <1>0
<1>6. Ids(issued)' = Ids(issued) /\ Ids(asked)' = Ids(asked)
  BY <1>0 DEF Ids, extension
<1>7. TypeOK'
  BY <1>0, <1>4 DEF Wire, TypeOK, extension
<1>8. Numbered' /\ OneRequest'
  BY <1>0, <1>6 DEF Wire, Numbered, OneRequest, extension
<1>9. CoreLines'
  <2>1. \A m \in Lines(toCore) : m.about \in Call
    BY LinesMessages DEF Wire, TypeOK, Message
  <2> QED BY <1>0, <1>5, <1>6, <2>1 DEF Wire, CoreLines, extension
<1>10. ExtLines'
  <2>1. \A m \in Lines(toExt) : m.about \in Call
    BY LinesMessages DEF Wire, TypeOK, Message
  <2>2. \A m \in Lines(toExt') : m \in Lines(toExt) \/ m = line
    BY <1>4
  <2>3. UNCHANGED <<issued, asked>>
    BY <1>0 DEF extension
  <2> QED BY <1>1, <1>2, <1>5, <1>6, <2>1, <2>2, <2>3 DEF Wire, ExtLines
<1>11. Waiting'
  <2>1. \A i \in awaited : asked[i] # c /\ asked[i] \in Call
    BY <1>0, IdsOfCalls DEF Wire, Waiting, TypeOK
  <2> QED BY <1>0, <1>5, <2>1 DEF Wire, Waiting
<1>12. Silenced' /\ RightAnswers'
  BY <1>0 DEF Wire, Silenced, RightAnswers, extension
<1>13. Unmade'
  BY <1>0, <1>5 DEF Wire, Unmade, extension
<1>14. Questions'
  <2>1. \A i : Somewhere(i) => Somewhere(i)'
    BY <1>0, <1>4 DEF Somewhere, extension
  <2> QED BY <1>0, <1>5, <2>1 DEF Wire, Questions
<1>15. Calls'
  BY <1>0, <1>2, <1>4, <1>5 DEF Wire, Calls, extension
<1> QED BY <1>7, <1>8, <1>9, <1>10, <1>11, <1>12, <1>13, <1>14, <1>15 DEF Wire

\* Run stops reading.
LEMMA StepReadTooLong ==
    ASSUME Wire, ReadTooLong
    PROVE  Wire'
<1>1. /\ reader' = "ended"
      /\ UNCHANGED <<extension, alive, handler, told, asked, awaited, toCore, toExt>>
  BY DEF ReadTooLong
<1>2. Ids(issued)' = Ids(issued) /\ Ids(asked)' = Ids(asked)
  BY <1>1 DEF Ids, extension
<1>3. TypeOK'
  BY <1>1 DEF Wire, TypeOK, extension
<1>4. Numbered' /\ CoreLines' /\ ExtLines' /\ OneRequest'
  BY <1>1, <1>2 DEF Wire, Numbered, CoreLines, ExtLines, OneRequest, extension
<1>5. Waiting' /\ Silenced' /\ RightAnswers' /\ Unmade'
  BY <1>1 DEF Wire, Waiting, Silenced, RightAnswers, Unmade, extension
<1>6. Questions' /\ Calls'
  BY <1>1 DEF Wire, Questions, Somewhere, Calls, extension
<1> QED BY <1>3, <1>4, <1>5, <1>6 DEF Wire

\* The process ends.
LEMMA StepExit ==
    ASSUME Wire, Exit
    PROVE  Wire'
<1>1. /\ alive' = FALSE /\ toCore' = << >> /\ Lines(toCore') = {}
      /\ UNCHANGED <<extension, reader, handler, told, asked, awaited, toExt>>
  BY LinesEmpty DEF Exit
<1>2. Ids(issued)' = Ids(issued) /\ Ids(asked)' = Ids(asked)
  BY <1>1 DEF Ids, extension
<1>3. TypeOK'
  <2>1. toCore' \in Seq(Message)
    BY <1>1, EmptySeq
  <2> QED BY <1>1, <2>1 DEF Wire, TypeOK, extension
<1>4. Numbered' /\ CoreLines' /\ ExtLines'
  BY <1>1, <1>2 DEF Wire, Numbered, CoreLines, ExtLines, extension
<1>5. OneRequest'
  <2>1. 1..Len(toCore') = {}
    BY <1>1
  <2> QED BY <2>1 DEF OneRequest
<1>6. Waiting' /\ Silenced' /\ RightAnswers' /\ Unmade'
  BY <1>1 DEF Wire, Waiting, Silenced, RightAnswers, Unmade, extension
<1>7. Questions' /\ Calls'
  BY <1>1 DEF Questions, Calls
<1> QED BY <1>3, <1>4, <1>5, <1>6, <1>7 DEF Wire

\* Nothing happens on the connection.
LEMMA StepNothing ==
    ASSUME Wire, UNCHANGED vars
    PROVE  Wire'
<1>1. UNCHANGED <<call, answer, issued, pending, hosting, disposed, exitSeen, alive, reader,
                  handler, told, asked, awaited, toCore, toExt>>
  BY DEF vars, extension, core
<1>2. Ids(issued)' = Ids(issued) /\ Ids(asked)' = Ids(asked)
  BY <1>1 DEF Ids
<1>3. TypeOK'
  BY <1>1 DEF Wire, TypeOK
<1>4. Numbered' /\ CoreLines' /\ ExtLines' /\ OneRequest'
  BY <1>1, <1>2 DEF Wire, Numbered, CoreLines, ExtLines, OneRequest
<1>5. Waiting' /\ Silenced' /\ RightAnswers' /\ Unmade'
  BY <1>1 DEF Wire, Waiting, Silenced, RightAnswers, Unmade
<1>6. Questions' /\ Calls'
  BY <1>1 DEF Wire, Questions, Somewhere, Calls
<1> QED BY <1>3, <1>4, <1>5, <1>6 DEF Wire

-----------------------------------------------------------------------------
(* The contract.                                                           *)

\* The same for the callers, and no work begun or ended.
LEMMA Stutter ==
    ASSUME \A c \in Call : call'[c] = call[c],
           \A c \in Call : \/ handler'[c] = handler[c]
                           \/ {handler[c], handler'[c]} \subseteq {"running", "asking", "lost"}
    PROVE  UNCHANGED Once!contract
  BY DEF Once!contract

\* A call is made.
LEMMA ContractMade ==
    ASSUME NEW c \in Call, call \in [Call -> {"idle", "pending", "answered", "failed"}],
           call[c] = "idle", UNCHANGED handler,
           \/ call' = [call EXCEPT ![c] = "pending"]
           \/ call' = [call EXCEPT ![c] = "failed"]
    PROVE  Once!Made(c)
<1>1. CASE call' = [call EXCEPT ![c] = "pending"]
  BY <1>1 DEF Once!Made
<1>2. CASE call' = [call EXCEPT ![c] = "failed"]
  BY <1>2 DEF Once!Made
<1> QED BY <1>1, <1>2

\* The callers that wait are told of a failure.
LEMMA ContractAllFail ==
    ASSUME call \in [Call -> {"idle", "pending", "answered", "failed"}],
           \A c \in Call : call'[c] = IF call[c] = "pending" THEN "failed" ELSE call[c],
           UNCHANGED handler
    PROVE  Once!AllFail
  BY DEF Once!AllFail, Once!Open

\* A caller is told the answer.
LEMMA ContractTold ==
    ASSUME NEW c \in Call, call \in [Call -> {"idle", "pending", "answered", "failed"}],
           call[c] = "pending", handler[c] = "done", UNCHANGED handler,
           call' = [call EXCEPT ![c] = "answered"]
    PROVE  Once!Told(c)
  BY DEF Once!Told, Once!Open

\* The work begins.
LEMMA ContractBegun ==
    ASSUME NEW c \in Call, handler \in [Call -> {"none", "running", "asking", "done", "lost"}],
           call \in [Call -> {"idle", "pending", "answered", "failed"}],
           call[c] # "idle", handler[c] = "none", UNCHANGED call,
           handler' = [handler EXCEPT ![c] = "running"]
    PROVE  Once!Begun(c)
  BY DEF Once!Begun

\* The work ends.
LEMMA ContractEnded ==
    ASSUME NEW c \in Call, handler \in [Call -> {"none", "running", "asking", "done", "lost"}],
           handler[c] = "running", UNCHANGED call,
           handler' = [handler EXCEPT ![c] = "done"]
    PROVE  Once!Ended(c)
  BY DEF Once!Ended

-----------------------------------------------------------------------------
(* The connection by itself.                                               *)

\* What both sides do between two restarts.
Traffic ==
    \/ Extension \/ Core \/ Crash
    \/ \E c \in Call : MakeRefused(c) \/ \E long \in BOOLEAN : Make(c, long)

\* The types the contract's lemmas ask for.
LEMMA CallTypes ==
    ASSUME Wire
    PROVE  /\ call \in [Call -> {"idle", "pending", "answered", "failed"}]
           /\ handler \in [Call -> {"none", "running", "asking", "done", "lost"}]
  BY DEF Wire, TypeOK

\* Whatever the extension does, the invariant is kept and the contract observed.
LEMMA StepExtension ==
    ASSUME Wire, Extension
    PROVE  Wire' /\ [Once!ContractNext]_(Once!contract)
<1>0. /\ call \in [Call -> {"idle", "pending", "answered", "failed"}]
      /\ handler \in [Call -> {"none", "running", "asking", "done", "lost"}]
  BY CallTypes
<1>1. CASE HearRequest
  <2>1. Wire'
    BY <1>1, StepHearRequest
  <2>2. UNCHANGED <<call, handler>>
    BY <1>1 DEF HearRequest, core
  <2>3. UNCHANGED Once!contract
    BY <2>2, Stutter
  <2> QED BY <2>1, <2>3
<1>2. CASE HearAnswer
  <2>1. UNCHANGED handler
    BY <1>2 DEF HearAnswer, Settle, core
  <2>2. CASE \A c \in Call : call'[c] = call[c]
    <3>1. UNCHANGED Once!contract
      BY <2>1, <2>2, Stutter
    <3> QED BY <1>2, <3>1, StepHearAnswer
  <2>3. ASSUME NEW c \in Call, call[c] = "pending", handler[c] = "done",
               call' = [call EXCEPT ![c] = "answered"]
        PROVE  Once!ContractNext
    <3>1. Once!Told(c)
      BY <1>0, <2>1, <2>3, ContractTold
    <3> QED BY <3>1 DEF Once!ContractNext
  <2> QED BY <1>2, <2>2, <2>3, StepHearAnswer
<1>3. CASE SeeExit
  <2>1. /\ Wire'
        /\ \A c \in Call : call'[c] = IF call[c] = "pending" THEN "failed" ELSE call[c]
    <3>1. {disposed', exitSeen'} \subseteq BOOLEAN
      BY <1>3 DEF SeeExit, Wire, TypeOK
    <3> QED BY <1>3, <3>1, StepRejectAll DEF SeeExit, core
  <2>2. UNCHANGED handler
    BY <1>3 DEF SeeExit, core
  <2>3. Once!AllFail
    BY <1>0, <2>1, <2>2, ContractAllFail
  <2> QED BY <2>1, <2>3 DEF Once!ContractNext
<1>4. ASSUME NEW id \in hosting, NEW long \in BOOLEAN, Serve(id, long)
      PROVE  Wire' /\ UNCHANGED Once!contract
  <2>1. Wire'
    BY <1>4, StepServe
  <2>2. UNCHANGED <<call, handler>>
    BY <1>4 DEF Serve, core
  <2>3. UNCHANGED Once!contract
    BY <2>2, Stutter
  <2> QED BY <2>1, <2>3
<1> QED BY <1>1, <1>2, <1>3, <1>4 DEF Extension

\* Whatever the core does, the same.
LEMMA StepCore ==
    ASSUME Wire, Core
    PROVE  Wire' /\ [Once!ContractNext]_(Once!contract)
<1>0. /\ call \in [Call -> {"idle", "pending", "answered", "failed"}]
      /\ handler \in [Call -> {"none", "running", "asking", "done", "lost"}]
  BY CallTypes
<1>1. CASE ReadRequest
  <2>1. UNCHANGED call
    BY <1>1 DEF ReadRequest, extension
  <2>2. PICK c \in Call : /\ call[c] # "idle" /\ handler[c] = "none"
                          /\ handler' = [handler EXCEPT ![c] = "running"]
    BY <1>1, StepReadRequest
  <2>3. Once!Begun(c)
    BY <1>0, <2>1, <2>2, ContractBegun
  <2> QED BY <1>1, <2>3, StepReadRequest DEF Once!ContractNext
<1>2. CASE ReadAnswer
  <2>1. UNCHANGED call
    BY <1>2 DEF ReadAnswer, extension
  <2>2. \A c \in Call : \/ handler'[c] = handler[c]
                        \/ {handler[c], handler'[c]} \subseteq {"running", "asking", "lost"}
    BY <1>2, StepReadAnswer
  <2>3. UNCHANGED Once!contract
    BY <2>1, <2>2, Stutter
  <2> QED BY <1>2, <2>3, StepReadAnswer
<1>3. CASE ReadTooLong
  <2>1. UNCHANGED <<call, handler>>
    BY <1>3 DEF ReadTooLong, extension
  <2>2. UNCHANGED Once!contract
    BY <2>1, Stutter
  <2> QED BY <1>3, <2>2, StepReadTooLong
<1>4. CASE RunReturns
  <2>1. UNCHANGED <<call, handler>> /\ Exit
    BY <1>4 DEF RunReturns, Exit, extension
  <2>2. UNCHANGED Once!contract
    BY <2>1, Stutter
  <2> QED BY <2>1, <2>2, StepExit
<1>5. ASSUME NEW c \in Call, Ask(c)
      PROVE  Wire' /\ UNCHANGED Once!contract
  <2>1. /\ UNCHANGED call /\ handler[c] = "running"
        /\ handler' = [handler EXCEPT ![c] = "asking"]
    BY <1>5 DEF Ask, extension
  <2>2. \A d \in Call : \/ handler'[d] = handler[d]
                        \/ {handler[d], handler'[d]} \subseteq {"running", "asking", "lost"}
    BY <1>0, <2>1
  <2>3. UNCHANGED Once!contract
    BY <2>1, <2>2, Stutter
  <2> QED BY <1>5, <2>3, StepAsk
<1>6. ASSUME NEW c \in Call, Reply(c)
      PROVE  Wire' /\ Once!ContractNext
  <2>1. /\ UNCHANGED call /\ handler[c] = "running"
        /\ handler' = [handler EXCEPT ![c] = "done"]
    BY <1>6 DEF Reply, extension
  <2>2. Once!Ended(c)
    BY <1>0, <2>1, ContractEnded
  <2> QED BY <1>6, <2>2, StepReply DEF Once!ContractNext
<1> QED BY <1>1, <1>2, <1>3, <1>4, <1>5, <1>6 DEF Core

\* The traffic keeps the invariant and observes the contract.
LEMMA StepTraffic ==
    ASSUME Wire, Traffic
    PROVE  Wire' /\ [Once!ContractNext]_(Once!contract)
<1>0. call \in [Call -> {"idle", "pending", "answered", "failed"}]
  BY CallTypes
<1>1. CASE Crash
  <2>1. UNCHANGED <<call, handler>> /\ Exit
    BY <1>1 DEF Crash, Exit, extension
  <2>2. UNCHANGED Once!contract
    BY <2>1, Stutter
  <2> QED BY <2>1, <2>2, StepExit
<1>2. ASSUME NEW c \in Call, MakeRefused(c)
      PROVE  Wire' /\ Once!ContractNext
  <2>1. call[c] = "idle" /\ call' = [call EXCEPT ![c] = "failed"] /\ UNCHANGED handler
    BY <1>2 DEF MakeRefused, core
  <2>2. Once!Made(c)
    BY <1>0, <2>1, ContractMade
  <2> QED BY <1>2, <2>2, StepMakeRefused DEF Once!ContractNext
<1>3. ASSUME NEW c \in Call, NEW long \in BOOLEAN, Make(c, long)
      PROVE  Wire' /\ Once!ContractNext
  <2>1. call[c] = "idle" /\ call' = [call EXCEPT ![c] = "pending"] /\ UNCHANGED handler
    BY <1>3 DEF Make, core
  <2>2. Once!Made(c)
    BY <1>0, <2>1, ContractMade
  <2> QED BY <1>3, <2>2, StepMake DEF Once!ContractNext
<1> QED BY <1>1, <1>2, <1>3, StepExtension, StepCore DEF Traffic

-----------------------------------------------------------------------------
(* The keeper.                                                             *)

IInv == Wire /\ Between

\* A restart that is not begun touches nothing; one that is fails all open calls.
LEMMA StepRestart ==
    ASSUME IInv, RestartVocode
    PROVE  IInv' /\ [Once!ContractNext]_(Once!contract)
<1>1. CASE UNCHANGED <<vars, phase>>
  <2>1. Wire'
    BY <1>1, StepNothing DEF IInv
  <2>2. UNCHANGED <<disposed, toCore, toExt, hosting, handler, call, phase>>
    BY <1>1 DEF vars, extension, core
  <2>3. Between'
    BY <2>2 DEF IInv, Between
  <2>4. UNCHANGED Once!contract
    BY <2>2, Stutter
  <2> QED BY <2>1, <2>3, <2>4 DEF IInv
<1>2. CASE /\ disposed' = TRUE /\ RejectAll /\ alive' = FALSE /\ toCore' = << >>
           /\ phase' = "check"
           /\ UNCHANGED <<answer, issued, hosting, exitSeen, reader, handler, told,
                          asked, awaited, toExt>>
  <2>1. {disposed', exitSeen'} \subseteq BOOLEAN
    BY <1>2 DEF IInv, Wire, TypeOK
  <2>2. /\ Wire'
        /\ \A c \in Call : call'[c] = IF call[c] = "pending" THEN "failed" ELSE call[c]
    BY <1>2, <2>1, StepRejectAll DEF IInv
  <2>3. Between'
    BY <1>2 DEF Between
  <2>4. Once!AllFail
    BY <1>2, <2>2, CallTypes, ContractAllFail DEF IInv
  <2> QED BY <2>2, <2>3, <2>4 DEF IInv, Once!ContractNext
<1> QED BY <1>1, <1>2 DEF RestartVocode

\* A new core begins with empty pipes; a handler of the old one is lost.
LEMMA StepSpawnCore ==
    ASSUME IInv, SpawnCore
    PROVE  IInv' /\ UNCHANGED Once!contract
<1>1. /\ disposed /\ phase' = "voice" /\ pending = {}
      /\ alive' = TRUE /\ reader' = "reading" /\ asked' = << >> /\ awaited' = {}
      /\ toCore' = << >> /\ toExt' = << >> /\ hosting' = {}
      /\ handler' = [c \in Call |-> IF handler[c] \in {"running", "asking"} THEN "lost"
                                    ELSE handler[c]]
      /\ UNCHANGED <<call, answer, issued, pending, disposed, exitSeen, told>>
  BY DEF IInv, Wire, Silenced, Between, SpawnCore
<1>2. /\ Lines(toCore') = {} /\ Lines(toExt') = {} /\ Ids(issued)' = Ids(issued)
      /\ toCore' \in Seq(Message) /\ toExt' \in Seq(Message) /\ asked' \in Seq(Call)
      /\ 1..Len(toCore') = {}
  BY <1>1, LinesEmpty, EmptySeq DEF Ids
<1>3. handler \in [Call -> {"none", "running", "asking", "done", "lost"}]
  BY CallTypes DEF IInv
<1>4. \A c \in Call : handler'[c] \notin {"running", "asking"}
  BY <1>1, <1>3
<1>5. \A c \in Call : call[c] # "pending"
  BY <1>1 DEF IInv, Wire, Numbered
<1>6. TypeOK'
  <2>1. handler' \in [Call -> {"none", "running", "asking", "done", "lost"}]
    BY <1>1, <1>3
  <2> QED BY <1>1, <1>2, <2>1 DEF IInv, Wire, TypeOK
<1>7. Numbered' /\ Silenced' /\ RightAnswers'
  BY <1>1, <1>2 DEF IInv, Wire, Numbered, Silenced, RightAnswers
<1>8. CoreLines' /\ ExtLines' /\ OneRequest' /\ Waiting'
  BY <1>1, <1>2 DEF CoreLines, ExtLines, OneRequest, Waiting
<1>9. Questions' /\ Calls' /\ Unmade'
  <2>1. Questions'
    BY <1>4 DEF Questions
  <2>2. Calls'
    BY <1>1, <1>5 DEF Calls
  <2>3. Unmade'
    BY <1>1, <1>3 DEF IInv, Wire, Unmade
  <2> QED BY <2>1, <2>2, <2>3
<1>10. Between'
  BY <1>1, <1>4 DEF Between
<1>11. UNCHANGED Once!contract
  <2>1. \A c \in Call : \/ handler'[c] = handler[c]
                        \/ {handler[c], handler'[c]} \subseteq {"running", "asking", "lost"}
    BY <1>1, <1>3
  <2> QED BY <1>1, <2>1, Stutter
<1> QED BY <1>6, <1>7, <1>8, <1>9, <1>10, <1>11 DEF IInv, Wire

\* A new client begins its ids anew, and nothing of the old one is in the pipes.
LEMMA StepSpawnVoice ==
    ASSUME IInv, SpawnVoice
    PROVE  IInv' /\ UNCHANGED Once!contract
<1>1. /\ disposed /\ phase' = "idle" /\ disposed' = FALSE /\ exitSeen' = ~alive
      /\ issued' = << >> /\ pending' = {} /\ pending = {}
      /\ UNCHANGED <<call, answer, hosting, alive, reader, handler, told, asked, awaited,
                     toCore, toExt>>
      /\ toCore = << >> /\ toExt = << >>
      /\ \A c \in Call : handler[c] \notin {"running", "asking"}
  BY DEF IInv, Wire, Silenced, Between, SpawnVoice, Wired, core
<1>2. /\ Lines(toCore') = {} /\ Lines(toExt') = {} /\ Ids(asked)' = Ids(asked)
      /\ issued' \in Seq(Call) /\ Ids(issued)' = {}
  BY <1>1, LinesEmpty, EmptySeq DEF Ids
<1>3. \A c \in Call : call[c] # "pending"
  BY <1>1 DEF IInv, Wire, Numbered
<1>4. TypeOK'
  BY <1>1, <1>2 DEF IInv, Wire, TypeOK
<1>5. Numbered'
  BY <1>1, <1>2, <1>3 DEF Numbered
<1>6. CoreLines' /\ ExtLines' /\ OneRequest'
  BY <1>1, <1>2 DEF IInv, Wire, CoreLines, ExtLines, OneRequest
<1>7. Waiting' /\ Silenced' /\ RightAnswers' /\ Unmade'
  BY <1>1 DEF IInv, Wire, Waiting, Silenced, RightAnswers, Unmade
<1>8. Questions' /\ Calls'
  BY <1>1, <1>3 DEF Questions, Calls
<1>9. Between'
  BY <1>1 DEF Between
<1>10. UNCHANGED Once!contract
  BY <1>1, Stutter
<1> QED BY <1>4, <1>5, <1>6, <1>7, <1>8, <1>9, <1>10 DEF IInv, Wire

\* A core or a sidecar that cannot be spawned leaves no process.
LEMMA StepSpawnFails ==
    ASSUME IInv, SpawnFails
    PROVE  IInv' /\ UNCHANGED Once!contract
<1>1. Exit /\ phase' = "idle"
  BY DEF SpawnFails, Wired, Exit
<1>2. Wire'
  BY <1>1, StepExit DEF IInv
<1>3. Between'
  BY <1>1 DEF Between
<1>4. UNCHANGED <<call, handler>>
  BY <1>1 DEF Exit, extension
<1>5. UNCHANGED Once!contract
  BY <1>4, Stutter
<1> QED BY <1>2, <1>3, <1>5 DEF IInv

\* What leaves the connection alone and does not begin to spawn.
LEMMA StepKeeper ==
    ASSUME IInv, UNCHANGED vars,
           phase' \in {phase, "idle"} \/ (phase = "check" /\ phase' = "core")
    PROVE  IInv' /\ UNCHANGED Once!contract
<1>1. Wire'
  BY StepNothing DEF IInv
<1>2. UNCHANGED <<disposed, toCore, toExt, hosting, handler, call>>
  BY DEF vars, extension, core
<1>3. Between'
  BY <1>2 DEF IInv, Between
<1>4. UNCHANGED Once!contract
  BY <1>2, Stutter
<1> QED BY <1>1, <1>3, <1>4 DEF IInv

\* The traffic cannot put anything into the pipes of a core that has no client yet.
LEMMA StepConnection ==
    ASSUME IInv, Connection
    PROVE  IInv' /\ [Once!ContractNext]_(Once!contract)
<1>1. Traffic /\ UNCHANGED phase
  BY DEF Connection, Traffic, keeper
<1>2. Wire' /\ [Once!ContractNext]_(Once!contract)
  BY <1>1, StepTraffic DEF IInv
<1>3. UNCHANGED disposed
  BY <1>1 DEF Traffic, Extension, Core, Crash, RunReturns, Exit, MakeRefused, Make, HearRequest,
              HearAnswer, Settle, SeeExit, Serve, ReadRequest, ReadAnswer, ReadTooLong, Ask, Reply,
              extension
<1>4. ASSUME phase = "voice"
      PROVE  /\ toCore' = << >> /\ toExt' = << >> /\ hosting' = {}
             /\ UNCHANGED handler
  <2>1. /\ disposed /\ toCore = << >> /\ toExt = << >> /\ hosting = {}
        /\ \A c \in Call : handler[c] \notin {"running", "asking"}
    BY <1>4 DEF IInv, Between
  <2>2. ~HearRequest /\ ~HearAnswer /\ ~ReadRequest /\ ~ReadAnswer /\ ~ReadTooLong
    BY <2>1 DEF HearRequest, HearAnswer, ReadRequest, ReadAnswer, ReadTooLong, Reading
  <2>3. \A c \in Call : ~Ask(c) /\ ~Reply(c) /\ \A long \in BOOLEAN : ~Make(c, long)
    BY <2>1 DEF Ask, Reply, Make
  <2>4. SeeExit \/ RunReturns \/ Crash \/ \E c \in Call : MakeRefused(c)
    BY <1>1, <2>1, <2>2, <2>3 DEF Traffic, Extension, Core
  <2> QED BY <2>1, <2>4 DEF SeeExit, RunReturns, Crash, Exit, MakeRefused, extension, core
<1>5. Between'
  BY <1>1, <1>3, <1>4 DEF IInv, Between
<1> QED BY <1>2, <1>5 DEF IInv

\* A backend is started with nothing made and nothing in the pipes.
LEMMA Start ==
    ASSUME BackendInit
    PROVE  IInv /\ Once!ContractInit
<1>1. /\ call = [c \in Call |-> "idle"] /\ answer = [c \in Call |-> None]
      /\ handler = [c \in Call |-> "none"] /\ told = [c \in Call |-> None]
      /\ issued = << >> /\ pending = {} /\ hosting = {} /\ disposed = TRUE /\ exitSeen = TRUE
      /\ alive = FALSE /\ reader = "reading" /\ asked = << >> /\ awaited = {}
      /\ toCore = << >> /\ toExt = << >> /\ phase = "check"
  BY DEF BackendInit
<1>2. /\ Lines(toCore) = {} /\ Lines(toExt) = {} /\ Ids(issued) = {} /\ Ids(asked) = {}
      /\ issued \in Seq(Call) /\ asked \in Seq(Call)
      /\ toCore \in Seq(Message) /\ toExt \in Seq(Message)
  BY <1>1, LinesEmpty, EmptySeq DEF Ids
<1>3. TypeOK
  BY <1>1, <1>2 DEF TypeOK
<1>4. Numbered /\ CoreLines /\ ExtLines
  BY <1>1, <1>2 DEF Numbered, CoreLines, ExtLines
<1>5. OneRequest /\ Waiting
  BY <1>1 DEF OneRequest, Waiting
<1>6. Questions /\ Calls /\ Silenced /\ Unmade /\ RightAnswers
  BY <1>1 DEF Questions, Calls, Silenced, Unmade, RightAnswers
<1>7. Between
  BY <1>1 DEF Between
<1>8. Once!ContractInit
  BY <1>1 DEF Once!ContractInit
<1> QED BY <1>3, <1>4, <1>5, <1>6, <1>7, <1>8 DEF IInv, Wire

\* Every step keeps the invariant and observes the contract.
LEMMA Step ==
    ASSUME IInv, [BackendNext]_backendVars
    PROVE  IInv' /\ [Once!ContractNext]_(Once!contract)
<1>1. CASE ChangeSecret
  <2>1. RestartVocode \/ UNCHANGED <<vars, phase>>
    BY <1>1 DEF ChangeSecret
  <2>2. CASE RestartVocode
    BY <2>2, StepRestart
  <2>3. CASE UNCHANGED <<vars, phase>>
    <3>1. UNCHANGED vars /\ phase' \in {phase, "idle"}
      BY <2>3
    <3>2. IInv' /\ UNCHANGED Once!contract
      BY <3>1, StepKeeper
    <3> QED BY <3>2
  <2> QED BY <2>1, <2>2, <2>3
<1>2. CASE ChangeSetting
  <2>1. UNCHANGED vars /\ phase' \in {phase, "idle"}
    BY <1>2 DEF ChangeSetting
  <2>2. IInv' /\ UNCHANGED Once!contract
    BY <2>1, StepKeeper
  <2> QED BY <2>2
<1>3. CASE TimerFires
  BY <1>3, StepRestart DEF TimerFires
<1>4. CASE CheckSetup
  <2>1. UNCHANGED vars /\ phase = "check" /\ phase' \in {"core", "idle"}
    BY <1>4 DEF CheckSetup, Wired
  <2>2. IInv' /\ UNCHANGED Once!contract
    BY <2>1, StepKeeper
  <2> QED BY <2>2
<1>5. CASE SpawnCore \/ SpawnVoice \/ SpawnFails
  BY <1>5, StepSpawnCore, StepSpawnVoice, StepSpawnFails
<1>6. CASE Connection
  BY <1>6, StepConnection
<1>7. CASE UNCHANGED backendVars
  <2>1. UNCHANGED vars /\ phase' \in {phase, "idle"}
    BY <1>7 DEF backendVars, keeper
  <2>2. IInv' /\ UNCHANGED Once!contract
    BY <2>1, StepKeeper
  <2> QED BY <2>2
<1>8. Quiet => UNCHANGED backendVars
  BY DEF Quiet
<1> QED BY <1>1, <1>2, <1>3, <1>4, <1>5, <1>6, <1>7, <1>8 DEF BackendNext, Wiring

-----------------------------------------------------------------------------
(* The theorems.                                                           *)

\* The inductive invariant, through restarts and crashes.
THEOREM WireInvariant == BackendSpec => []IInv
  BY Start, Step, PTL DEF BackendSpec

\* The types, for any set of calls and any bounds.
THEOREM BackendTypes == BackendSpec => []TypeOK
<1>1. IInv => TypeOK
  BY DEF IInv, Wire
<1> QED BY <1>1, WireInvariant, PTL

\* Callers and handlers are given their own answers, although both sides number their
\* calls from one, and a new connection begins anew (handleMessage, Server.Run).
THEOREM RightAnswersAlways == BackendSpec => []RightAnswers
<1>1. IInv => RightAnswers
  BY DEF IInv, Wire
<1> QED BY <1>1, WireInvariant, PTL

\* While the core runs, a call that waits is in a pipe or being served.
THEOREM NoCallForgottenEver == BackendSpec => []NoCallForgotten
<1>1. ASSUME IInv PROVE NoCallForgotten
  <2>1. Calls
    BY <1>1 DEF IInv, Wire
  <2> QED BY <2>1 DEF Calls, NoCallForgotten, OnItsWay, Lines
<1> QED BY <1>1, WireInvariant, PTL

\* While the core runs, a question that waits is in a pipe or being answered.
THEOREM NoQuestionForgottenEver == BackendSpec => []NoQuestionForgotten
<1>1. ASSUME IInv PROVE NoQuestionForgotten
  <2> SUFFICES ASSUME NEW c \in Call, handler[c] = "asking", alive
               PROVE  \/ OnItsWay(toExt, "request", c) \/ OnItsWay(toCore, "response", c)
                      \/ \E id \in hosting : asked[id] = c
    BY DEF NoQuestionForgotten
  <2>1. PICK i \in awaited : asked[i] = c /\ Somewhere(i)
    BY <1>1 DEF IInv, Wire, Questions
  <2>2. CASE \E m \in Lines(toExt) : m.kind = "request" /\ m.id = i
    <3>1. PICK m \in Lines(toExt) : m.kind = "request" /\ m.id = i
      BY <2>2
    <3>2. m.about = c
      BY <1>1, <2>1, <3>1 DEF IInv, Wire, ExtLines
    <3> QED BY <3>1, <3>2 DEF OnItsWay, Lines
  <2>3. CASE \E m \in Lines(toCore) : m.kind = "response" /\ m.id = i
    <3>1. PICK m \in Lines(toCore) : m.kind = "response" /\ m.id = i
      BY <2>3
    <3>2. m.about = c
      BY <1>1, <2>1, <3>1 DEF IInv, Wire, CoreLines
    <3> QED BY <3>1, <3>2 DEF OnItsWay, Lines
  <2> QED BY <2>1, <2>2, <2>3 DEF Somewhere
<1> QED BY <1>1, WireInvariant, PTL

\* After a restart nobody waits for the connection that is gone.
THEOREM RestartSettlesCallsAlways == BackendSpec => []RestartSettlesCalls
<1>1. IInv => RestartSettlesCalls
  BY DEF IInv, Wire, Silenced, Numbered, RestartSettlesCalls
<1> QED BY <1>1, WireInvariant, PTL

\* The backend implements the contract of a call: whatever crashes and is restarted,
\* the work of a call is begun at most once, and its caller told at most once.
THEOREM ImplementsContract == BackendSpec => Contract
  BY Start, Step, WireInvariant, PTL DEF BackendSpec, Contract, Once!ContractSpec

-----------------------------------------------------------------------------
(* What the processes were spawned with.                                   *)

\* The keeper's types; restarts and listeners.
KeeperOK ==
    /\ phase \in {"idle", "check", "core", "voice"}
    /\ restarting \in BOOLEAN /\ watching \in BOOLEAN /\ timer \in BOOLEAN /\ failed \in BOOLEAN
    /\ timer => watching
    /\ restarting => phase # "idle"
    /\ phase # "idle" => restarting \/ ~watching
    /\ phase = "idle" => watching

\* Nothing of the backend before is left while a new one is spawned; and when no change
\* is outstanding or was missed, what was spawned so far is the user's.
Fresh ==
    /\ phase \in {"check", "core"} => coreEnv = NoEnv
    /\ phase # "idle" => voiceEnv = NoEnv
    /\ missed = "none" /\ ~timer =>
        /\ phase = "idle" /\ ~failed => UpToDate
        /\ phase = "voice" => coreEnv = wanted

\* A restart begins anew; one that cannot begin, because the backend is being spawned,
\* is noted when it comes too late.
LEMMA FreshRestart ==
    ASSUME KeeperOK, Fresh, RestartVocode, watching' = watching,
           timer' = timer \/ timer' = FALSE, restarting \/ watching
    PROVE  KeeperOK' /\ Fresh'
<1>1. watching' \in BOOLEAN /\ timer' \in BOOLEAN
  BY DEF KeeperOK
<1>2. timer' => watching'
  BY DEF KeeperOK
<1>3. CASE /\ restarting /\ UNCHANGED <<phase, restarting, coreEnv, voiceEnv, failed>>
           /\ NoRestart("restarting")
  <2>1. phase' = phase /\ phase \in {"check", "core", "voice"}
    BY <1>3 DEF KeeperOK
  <2>2. /\ phase' \in {"idle", "check", "core", "voice"}
        /\ restarting' \in BOOLEAN /\ failed' \in BOOLEAN
    BY <1>3 DEF KeeperOK
  <2>3. restarting' => phase' # "idle"
    BY <1>3 DEF KeeperOK
  <2>4. phase' # "idle" => restarting' \/ ~watching'
    BY <1>3 DEF KeeperOK
  <2>5. phase' = "voice" /\ missed' = "none" => coreEnv' = wanted'
    BY <1>3 DEF NoRestart
  <2>6. Fresh'
    BY <1>3, <2>1, <2>5 DEF Fresh, NoEnv
  <2> QED BY <1>1, <1>2, <2>1, <2>2, <2>3, <2>4, <2>6 DEF KeeperOK
<1>4. CASE /\ phase' = "check" /\ restarting' = TRUE /\ failed' = FALSE
           /\ coreEnv' = NoEnv /\ voiceEnv' = NoEnv
  <2>1. Fresh'
    BY <1>4 DEF Fresh, NoEnv
  <2>2. /\ phase' \in {"idle", "check", "core", "voice"}
        /\ restarting' \in BOOLEAN /\ failed' \in BOOLEAN
    BY <1>4
  <2>3. restarting' /\ phase' # "idle"
    BY <1>4
  <2> QED BY <1>1, <1>2, <2>1, <2>2, <2>3 DEF KeeperOK
<1> QED BY <1>3, <1>4 DEF RestartVocode

\* Every step of the keeper.
LEMMA FreshStep ==
    ASSUME KeeperOK, Fresh, [BackendNext]_backendVars
    PROVE  KeeperOK' /\ Fresh'
<1>1. CASE ChangeSecret
  <2>1. watching' = watching /\ timer' = timer
    BY <1>1 DEF ChangeSecret
  <2>2. CASE watching
    BY <1>1, <2>1, <2>2, FreshRestart DEF ChangeSecret
  <2>3. CASE ~watching
    <3>1. UNCHANGED <<phase, restarting, coreEnv, voiceEnv, failed>> /\ phase # "idle"
      BY <1>1, <2>3 DEF ChangeSecret, KeeperOK
    <3>2. phase' = "voice" /\ missed' = "none" => coreEnv' = wanted'
      BY <1>1, <2>3, <3>1 DEF ChangeSecret, NoRestart
    <3> QED BY <2>1, <3>1, <3>2 DEF KeeperOK, Fresh, NoEnv
  <2> QED BY <2>2, <2>3
<1>2. CASE ChangeSetting
  <2>1. /\ UNCHANGED <<phase, restarting, watching, coreEnv, voiceEnv, failed>>
        /\ timer' = watching
    BY <1>2 DEF ChangeSetting
  <2>2. ~watching => phase # "idle"
    BY DEF KeeperOK
  <2>3. ~watching /\ phase' = "voice" /\ missed' = "none" => coreEnv' = wanted'
    BY <1>2, <2>1 DEF ChangeSetting, NoRestart
  <2> QED BY <2>1, <2>2, <2>3 DEF KeeperOK, Fresh, NoEnv
<1>3. CASE TimerFires
  <2>1. watching
    BY <1>3 DEF TimerFires, KeeperOK
  <2> QED BY <1>3, <2>1, FreshRestart DEF TimerFires
<1>4. CASE CheckSetup
  BY <1>4 DEF CheckSetup, Wired, KeeperOK, Fresh, UpToDate, NoEnv
<1>5. CASE SpawnCore
  BY <1>5 DEF SpawnCore, KeeperOK, Fresh, NoEnv
<1>6. CASE SpawnVoice
  BY <1>6 DEF SpawnVoice, Wired, KeeperOK, Fresh, UpToDate, NoEnv
<1>7. CASE SpawnFails
  BY <1>7 DEF SpawnFails, Wired, KeeperOK, Fresh, NoEnv
<1>8. CASE UNCHANGED keeper
  BY <1>8 DEF keeper, KeeperOK, Fresh, UpToDate, NoEnv
<1>9. Connection \/ Quiet \/ UNCHANGED backendVars => UNCHANGED keeper
  BY DEF Connection, Quiet, backendVars
<1> QED BY <1>1, <1>2, <1>3, <1>4, <1>5, <1>6, <1>7, <1>8, <1>9 DEF BackendNext, Wiring

\* However changes, timers and spawns interleave: unless the last spawn failed, the
\* processes run with the last change, or it came after the core was spawned and before
\* the wiring was over (extension.ts:243, 317, 358).
THEOREM LatestUnlessMissedAlways == BackendSpec => []LatestUnlessMissed
<1>1. BackendInit => KeeperOK /\ Fresh
  BY DEF BackendInit, KeeperOK, Fresh, NoEnv
<1>2. KeeperOK /\ Fresh => LatestUnlessMissed
  BY DEF KeeperOK, Fresh, LatestUnlessMissed, AtRest
<1> QED BY <1>1, <1>2, FreshStep, PTL DEF BackendSpec

=============================================================================
