-------------------------- MODULE TaskRunnerProofs --------------------------
(***************************************************************************)
(* What a run may begin over the log of its context, for any allowances,   *)
(* contents and numbers of runs, pauses and crashes.                       *)
(*                                                                         *)
(* The log only grows. An operation is open from its first event to one    *)
(* that says its outcome; while a run is under way at most the operation   *)
(* it is at is open, and a run that finds any other leaves at once.        *)
(***************************************************************************)
EXTENDS TaskRunner, FiniteSetTheorems, TLAPS

IsLog(s) == \E S : s \in Seq(S)

\* The places of the log where an operation began whose outcome it does not say.
Models == {i \in 1 .. Len(log) : OpenModel(log[i])}
Tools == {i \in 1 .. Len(log) : OpenTool(log[i])}
Validations == {i \in 1 .. Len(log) : OpenValidation(log[i])}
AllEnded == Models = {} /\ Tools = {} /\ Validations = {}

\* The last checkpoint of a log holds this content.
Holds(s, content) ==
    \E n \in 1 .. Len(s) :
        /\ s[n].type = "checkpoint" /\ s[n].value = content
        /\ \A j \in n + 1 .. Len(s) : s[j].type # "checkpoint"

Answers(e) == e.type \in ModelErrors \union {"model_finished"}

-----------------------------------------------------------------------------
(* The log. *)

\* Events are added at the end.
LEMMA Grows ==
    ASSUME IsLog(log), NEW t, IsLog(t), log' = log \o t
    PROVE  /\ IsLog(log') /\ Len(log) \in Nat /\ Len(t) \in Nat /\ Len(log') = Len(log) + Len(t)
           /\ \A i \in 1 .. Len(log) : log'[i] = log[i]
           /\ \A k \in 1 .. Len(t) : log'[Len(log) + k] = t[k]
<1>1. PICK S : log \in Seq(S)
  BY DEF IsLog
<1>2. PICK T : t \in Seq(T)
  BY DEF IsLog
<1>3. log \in Seq(S \cup T) /\ t \in Seq(S \cup T)
  BY <1>1, <1>2
<1>4. log' \in Seq(S \cup T)
  BY <1>3
<1> QED
  BY <1>3, <1>4 DEF IsLog

\* An operation is open after new events if one of them began it, or if it was open and none ends it.
LEMMA OpenAfter ==
    ASSUME IsLog(log), NEW t, IsLog(t), log' = log \o t
    PROVE  /\ \A i \in Models' :
                \/ i \in Models /\ \A k \in 1 .. Len(t) : ~(Answers(t[k]) /\ t[k].op = log[i].op)
                \/ i > Len(log) /\ log'[i].type = "model_started"
           /\ \A i \in Tools' :
                \/ i \in Tools /\ \A k \in 1 .. Len(t) : ~(t[k].type = "tool_finished" /\ t[k].op = log[i].op)
                \/ i > Len(log) /\ log'[i].type = "tool_started"
           /\ \A i \in Validations' :
                \/ i \in Validations /\ \A k \in 1 .. Len(t) : t[k].type # "host_validation_finished"
                \/ i > Len(log) /\ log'[i].type = "host_validation_started"
<1>1. /\ Len(log) \in Nat /\ Len(t) \in Nat /\ Len(log') = Len(log) + Len(t)
      /\ \A i \in 1 .. Len(log) : log'[i] = log[i] /\ i \in 1 .. Len(log')
      /\ \A k \in 1 .. Len(t) : log'[Len(log) + k] = t[k] /\ Len(log) + k \in 1 .. Len(log')
  BY Grows
<1>2. ASSUME NEW i \in Models'
      PROVE  \/ i \in Models /\ \A k \in 1 .. Len(t) : ~(Answers(t[k]) /\ t[k].op = log[i].op)
             \/ i > Len(log) /\ log'[i].type = "model_started"
  <2>1. i \in 1 .. Len(log') /\ log'[i].type = "model_started"
        /\ \A j \in 1 .. Len(log') : ~(Answers(log'[j]) /\ log'[j].op = log'[i].op)
    BY DEF Models, OpenModel, Answered, Has, Answers
  <2>2. CASE i \in 1 .. Len(log)
    <3>1. log'[i] = log[i]
      BY <1>1, <2>2
    <3>2. \A j \in 1 .. Len(log) : ~(Answers(log[j]) /\ log[j].op = log[i].op)
      BY <1>1, <2>1, <3>1
    <3>3. \A k \in 1 .. Len(t) : ~(Answers(t[k]) /\ t[k].op = log[i].op)
      BY <1>1, <2>1, <3>1
    <3>4. i \in Models
      BY <2>1, <2>2, <3>1, <3>2 DEF Models, OpenModel, Answered, Has, Answers
    <3> QED
      BY <3>3, <3>4
  <2> QED
    BY <1>1, <2>1, <2>2
<1>3. ASSUME NEW i \in Tools'
      PROVE  \/ i \in Tools /\ \A k \in 1 .. Len(t) : ~(t[k].type = "tool_finished" /\ t[k].op = log[i].op)
             \/ i > Len(log) /\ log'[i].type = "tool_started"
  <2>1. i \in 1 .. Len(log') /\ log'[i].type = "tool_started"
        /\ \A j \in 1 .. Len(log') : ~(log'[j].type = "tool_finished" /\ log'[j].op = log'[i].op)
    BY DEF Tools, OpenTool, Has
  <2>2. CASE i \in 1 .. Len(log)
    <3>1. log'[i] = log[i]
      BY <1>1, <2>2
    <3>2. \A j \in 1 .. Len(log) : ~(log[j].type = "tool_finished" /\ log[j].op = log[i].op)
      BY <1>1, <2>1, <3>1
    <3>3. \A k \in 1 .. Len(t) : ~(t[k].type = "tool_finished" /\ t[k].op = log[i].op)
      BY <1>1, <2>1, <3>1
    <3>4. i \in Tools
      BY <2>1, <2>2, <3>1, <3>2 DEF Tools, OpenTool, Has
    <3> QED
      BY <3>3, <3>4
  <2> QED
    BY <1>1, <2>1, <2>2
<1>4. ASSUME NEW i \in Validations'
      PROVE  \/ i \in Validations /\ \A k \in 1 .. Len(t) : t[k].type # "host_validation_finished"
             \/ i > Len(log) /\ log'[i].type = "host_validation_started"
  <2>1. i \in 1 .. Len(log') /\ log'[i].type = "host_validation_started"
        /\ \A j \in 1 .. Len(log') : log'[j].type # "host_validation_finished"
    BY DEF Validations, OpenValidation, HasAny
  <2>2. /\ \A j \in 1 .. Len(log) : log[j].type # "host_validation_finished"
        /\ \A k \in 1 .. Len(t) : t[k].type # "host_validation_finished"
    BY <1>1, <2>1
  <2>3. CASE i \in 1 .. Len(log)
    <3>1. log'[i] = log[i]
      BY <1>1, <2>3
    <3> QED
      BY <2>1, <2>2, <2>3, <3>1 DEF Validations, OpenValidation, HasAny
  <2> QED
    BY <1>1, <2>1, <2>3
<1> QED
  BY <1>2, <1>3, <1>4

\* An event, or two, at the end.
LEMMA AtTheEnd ==
    ASSUME IsLog(log), NEW a, NEW b
    PROVE  /\ IsLog(<<a>>) /\ Len(<<a>>) = 1 /\ <<a>>[1] = a /\ Append(log, a) = log \o <<a>>
           /\ IsLog(<<a, b>>) /\ Len(<<a, b>>) = 2 /\ <<a, b>>[1] = a /\ <<a, b>>[2] = b
           /\ Append(Append(log, a), b) = log \o <<a, b>>
<1>1. PICK S : log \in Seq(S)
  BY DEF IsLog
<1> DEFINE T == S \cup {a, b}
<1>2. log \in Seq(T) /\ a \in T /\ b \in T
  BY <1>1
<1> HIDE DEF T
<1>3. <<a>> \in Seq(T) /\ <<a, b>> \in Seq(T)
  BY <1>2
<1>4. Len(<<a>>) = 1 /\ <<a>>[1] = a /\ Len(<<a, b>>) = 2 /\ <<a, b>>[1] = a /\ <<a, b>>[2] = b
  OBVIOUS
<1>5. Append(log, a) = log \o <<a>>
  BY <1>2, <1>3
<1>6. Append(Append(log, a), b) = log \o <<a, b>>
  BY <1>2, <1>3
<1> QED
  BY <1>3, <1>4, <1>5, <1>6 DEF IsLog

\* What a step adds to the log.
LEMMA AppendedIs ==
    ASSUME IsLog(log), NEW t, IsLog(t), log' = log \o t
    PROVE  \A e \in Appended : \E k \in 1 .. Len(t) : e = t[k]
<1>1. /\ Len(log) \in Nat /\ Len(t) \in Nat /\ Len(log') = Len(log) + Len(t)
      /\ \A k \in 1 .. Len(t) : log'[Len(log) + k] = t[k]
  BY Grows
<1>2. ASSUME NEW i \in Len(log) + 1 .. Len(log')
      PROVE  \E k \in 1 .. Len(t) : log'[i] = t[k]
  <2>1. i - Len(log) \in 1 .. Len(t) /\ Len(log) + (i - Len(log)) = i
    BY <1>1
  <2>2. log'[i] = t[i - Len(log)]
    BY <1>1, <2>1
  <2> QED
    BY <2>1, <2>2
<1> QED
  BY <1>2 DEF Appended

\* A checkpoint is the last one until the next.
LEMMA HoldsAfter ==
    ASSUME IsLog(log), NEW t, IsLog(t), log' = log \o t, NEW content
    PROVE  /\ (Holds(log, content) /\ \A k \in 1 .. Len(t) : t[k].type # "checkpoint")
                => Holds(log', content)
           /\ (/\ 1 <= Len(t) /\ t[1].type = "checkpoint" /\ t[1].value = content
               /\ \A k \in 2 .. Len(t) : t[k].type # "checkpoint")
                => Holds(log', content)
<1>1. /\ Len(log) \in Nat /\ Len(t) \in Nat /\ Len(log') = Len(log) + Len(t)
      /\ \A i \in 1 .. Len(log) : log'[i] = log[i]
      /\ \A k \in 1 .. Len(t) : log'[Len(log) + k] = t[k]
  BY Grows
<1>2. \A j \in 1 .. Len(log') : j \in 1 .. Len(log) \/ (j - Len(log) \in 1 .. Len(t) /\ Len(log) + (j - Len(log)) = j)
  BY <1>1
<1>3. ASSUME Holds(log, content), \A k \in 1 .. Len(t) : t[k].type # "checkpoint"
      PROVE  Holds(log', content)
  <2>1. PICK n \in 1 .. Len(log) :
          /\ log[n].type = "checkpoint" /\ log[n].value = content
          /\ \A j \in n + 1 .. Len(log) : log[j].type # "checkpoint"
    BY <1>3 DEF Holds
  <2>2. n \in 1 .. Len(log') /\ log'[n] = log[n]
    BY <1>1
  <2>3. ASSUME NEW j \in n + 1 .. Len(log')
        PROVE  log'[j].type # "checkpoint"
    <3>1. CASE j \in 1 .. Len(log)
      BY <1>1, <2>1, <3>1
    <3>2. CASE j - Len(log) \in 1 .. Len(t) /\ Len(log) + (j - Len(log)) = j
      <4>1. log'[j] = t[j - Len(log)]
        BY <1>1, <3>2
      <4> QED
        BY <1>3, <3>2, <4>1
    <3>3. j \in 1 .. Len(log')
      BY <1>1
    <3> QED
      BY <1>2, <3>1, <3>2, <3>3
  <2> QED
    BY <2>1, <2>2, <2>3 DEF Holds
<1>4. ASSUME 1 <= Len(t), t[1].type = "checkpoint", t[1].value = content,
             \A k \in 2 .. Len(t) : t[k].type # "checkpoint"
      PROVE  Holds(log', content)
  <2>1. Len(log) + 1 \in 1 .. Len(log') /\ log'[Len(log) + 1] = t[1]
    BY <1>1, <1>4
  <2>2. ASSUME NEW j \in (Len(log) + 1) + 1 .. Len(log')
        PROVE  log'[j].type # "checkpoint"
    <3>1. j - Len(log) \in 2 .. Len(t) /\ j - Len(log) \in 1 .. Len(t) /\ Len(log) + (j - Len(log)) = j
      BY <1>1
    <3>2. log'[j] = t[j - Len(log)]
      BY <1>1, <3>1
    <3> QED
      BY <1>4, <3>1, <3>2
  <2> QED
    BY <1>4, <2>1, <2>2 DEF Holds
<1> QED
  BY <1>3, <1>4

\* The last checkpoint is the one a resumed run reads.
LEMMA HoldsLast ==
    ASSUME IsLog(log), NEW content, Holds(log, content)
    PROVE  LastValue("checkpoint") = content
<1>1. Len(log) \in Nat
  BY DEF IsLog
<1>2. PICK n \in 1 .. Len(log) :
        /\ log[n].type = "checkpoint" /\ log[n].value = content
        /\ \A j \in n + 1 .. Len(log) : log[j].type # "checkpoint"
  BY DEF Holds
<1> DEFINE IsLast(i) == log[i].type = "checkpoint" /\ \A j \in i + 1 .. Len(log) : log[j].type # "checkpoint"
           last == CHOOSE i \in 1 .. Len(log) : IsLast(i)
<1>3. last \in 1 .. Len(log) /\ IsLast(last)
  BY <1>2
<1>4. last = n
  <2>1. CASE last < n
    BY <1>1, <1>2, <1>3, <2>1
  <2>2. CASE n < last
    BY <1>1, <1>2, <1>3, <2>2
  <2> QED
    BY <1>1, <1>3, <2>1, <2>2
<1>5. LastValue("checkpoint") = log[last].value
  BY DEF LastValue
<1> QED
  BY <1>2, <1>4, <1>5

\* One event is recorded.
LEMMA Recorded ==
    ASSUME IsLog(log), NEW e, log' = Append(log, e)
    PROVE  /\ IsLog(log') /\ (\A x \in Appended : x = e)
           /\ \A i \in Models' :
                \/ log'[i] = e /\ e.type = "model_started"
                \/ i \in Models /\ log'[i] = log[i] /\ ~(Answers(e) /\ e.op = log[i].op)
           /\ \A i \in Tools' :
                \/ log'[i] = e /\ e.type = "tool_started"
                \/ i \in Tools /\ log'[i] = log[i] /\ ~(e.type = "tool_finished" /\ e.op = log[i].op)
           /\ \A i \in Validations' :
                \/ e.type = "host_validation_started"
                \/ i \in Validations /\ e.type # "host_validation_finished"
           /\ \A content : Holds(log, content) /\ e.type # "checkpoint" => Holds(log', content)
           /\ e.type = "checkpoint" => Holds(log', e.value)
<1> DEFINE t == <<e>>
<1>1. IsLog(t) /\ log' = log \o t /\ Len(t) = 1 /\ t[1] = e
  BY AtTheEnd
<1> HIDE DEF t
<1>2. /\ IsLog(log') /\ Len(log) \in Nat /\ Len(log') = Len(log) + 1
      /\ \A i \in 1 .. Len(log) : log'[i] = log[i]
      /\ log'[Len(log) + 1] = e
  <2>1. /\ IsLog(log') /\ Len(log) \in Nat /\ Len(log') = Len(log) + Len(t)
        /\ \A i \in 1 .. Len(log) : log'[i] = log[i]
        /\ \A k \in 1 .. Len(t) : log'[Len(log) + k] = t[k]
    BY <1>1, Grows
  <2>2. 1 \in 1 .. Len(t)
    BY <1>1
  <2> QED
    BY <1>1, <2>1, <2>2
<1>3. \A k \in 1 .. Len(t) : t[k] = e
  BY <1>1
<1>4. \A x \in Appended : x = e
  BY <1>1, <1>3, AppendedIs
<1>5. \A i \in 1 .. Len(log') : i > Len(log) => log'[i] = e
  BY <1>2
<1>6. /\ Models \subseteq 1 .. Len(log) /\ Tools \subseteq 1 .. Len(log)
      /\ Models' \subseteq 1 .. Len(log') /\ Tools' \subseteq 1 .. Len(log')
      /\ Validations' \subseteq 1 .. Len(log')
  BY DEF Models, Tools, Validations
<1>12. 1 \in 1 .. Len(t)
  BY <1>1
<1>13. /\ \A i \in Models' :
            \/ i \in Models /\ \A k \in 1 .. Len(t) : ~(Answers(t[k]) /\ t[k].op = log[i].op)
            \/ i > Len(log) /\ log'[i].type = "model_started"
       /\ \A i \in Tools' :
            \/ i \in Tools /\ \A k \in 1 .. Len(t) : ~(t[k].type = "tool_finished" /\ t[k].op = log[i].op)
            \/ i > Len(log) /\ log'[i].type = "tool_started"
       /\ \A i \in Validations' :
            \/ i \in Validations /\ \A k \in 1 .. Len(t) : t[k].type # "host_validation_finished"
            \/ i > Len(log) /\ log'[i].type = "host_validation_started"
  BY <1>1, OpenAfter
<1>7. \A i \in Models' :
        \/ log'[i] = e /\ e.type = "model_started"
        \/ i \in Models /\ log'[i] = log[i] /\ ~(Answers(e) /\ e.op = log[i].op)
  <2>1. \A i \in Models' :
          \/ i \in Models /\ ~(Answers(e) /\ e.op = log[i].op)
          \/ i > Len(log) /\ log'[i].type = "model_started"
    BY <1>1, <1>12, <1>13
  <2> QED
    BY <1>2, <1>5, <1>6, <2>1
<1>8. \A i \in Tools' :
        \/ log'[i] = e /\ e.type = "tool_started"
        \/ i \in Tools /\ log'[i] = log[i] /\ ~(e.type = "tool_finished" /\ e.op = log[i].op)
  <2>1. \A i \in Tools' :
          \/ i \in Tools /\ ~(e.type = "tool_finished" /\ e.op = log[i].op)
          \/ i > Len(log) /\ log'[i].type = "tool_started"
    BY <1>1, <1>12, <1>13
  <2> QED
    BY <1>2, <1>5, <1>6, <2>1
<1>9. \A i \in Validations' :
        \/ e.type = "host_validation_started"
        \/ i \in Validations /\ e.type # "host_validation_finished"
  <2>1. \A i \in Validations' :
          \/ i \in Validations /\ e.type # "host_validation_finished"
          \/ i > Len(log) /\ log'[i].type = "host_validation_started"
    BY <1>1, <1>12, <1>13
  <2> QED
    BY <1>2, <1>5, <1>6, <2>1
<1>10. \A content : Holds(log, content) /\ e.type # "checkpoint" => Holds(log', content)
  BY <1>1, <1>3, HoldsAfter
<1>11. e.type = "checkpoint" => Holds(log', e.value)
  BY <1>1, HoldsAfter
<1> QED
  BY <1>2, <1>4, <1>7, <1>8, <1>9, <1>10, <1>11

\* Two events are recorded together.
LEMMA RecordedTwo ==
    ASSUME IsLog(log), NEW a, NEW b, log' = log \o <<a, b>>
    PROVE  /\ IsLog(log') /\ (\A x \in Appended : x \in {a, b})
           /\ \A i \in Models' :
                \/ log'[i] \in {a, b} /\ log'[i].type = "model_started"
                \/ i \in Models
           /\ \A i \in Tools' :
                \/ log'[i] \in {a, b} /\ log'[i].type = "tool_started"
                \/ i \in Tools /\ log'[i] = log[i] /\ ~(b.type = "tool_finished" /\ b.op = log[i].op)
           /\ \A i \in Validations' :
                \/ a.type = "host_validation_started" \/ b.type = "host_validation_started"
                \/ i \in Validations
           /\ a.type = "checkpoint" /\ b.type # "checkpoint" => Holds(log', a.value)
<1> DEFINE t == <<a, b>>
<1>1. IsLog(t) /\ log' = log \o t /\ Len(t) = 2 /\ t[1] = a /\ t[2] = b
  BY AtTheEnd
<1> HIDE DEF t
<1>2. /\ IsLog(log') /\ Len(log) \in Nat /\ Len(log') = Len(log) + 2
      /\ \A i \in 1 .. Len(log) : log'[i] = log[i]
      /\ log'[Len(log) + 1] = a /\ log'[Len(log) + 2] = b
  <2>1. /\ IsLog(log') /\ Len(log) \in Nat /\ Len(log') = Len(log) + Len(t)
        /\ \A i \in 1 .. Len(log) : log'[i] = log[i]
        /\ \A k \in 1 .. Len(t) : log'[Len(log) + k] = t[k]
    BY <1>1, Grows
  <2>2. 1 \in 1 .. Len(t) /\ 2 \in 1 .. Len(t)
    BY <1>1
  <2> QED
    BY <1>1, <2>1, <2>2
<1>3. \A k \in 1 .. Len(t) : t[k] \in {a, b}
  BY <1>1
<1>4. \A x \in Appended : x \in {a, b}
  BY <1>1, <1>3, AppendedIs
<1>5. \A i \in 1 .. Len(log') : i > Len(log) => log'[i] \in {a, b}
  BY <1>2
<1>6. /\ Models \subseteq 1 .. Len(log) /\ Tools \subseteq 1 .. Len(log)
      /\ Models' \subseteq 1 .. Len(log') /\ Tools' \subseteq 1 .. Len(log')
      /\ Validations' \subseteq 1 .. Len(log')
  BY DEF Models, Tools, Validations
<1>7. \A i \in Models' : (log'[i] \in {a, b} /\ log'[i].type = "model_started") \/ i \in Models
  <2>1. \A i \in Models' : i \in Models \/ (i > Len(log) /\ log'[i].type = "model_started")
    BY <1>1, OpenAfter
  <2> QED
    BY <1>5, <1>6, <2>1
<1>8. 2 \in 1 .. Len(t)
  BY <1>1
<1>9. \A i \in Tools' :
        \/ log'[i] \in {a, b} /\ log'[i].type = "tool_started"
        \/ i \in Tools /\ log'[i] = log[i] /\ ~(b.type = "tool_finished" /\ b.op = log[i].op)
  <2>1. \A i \in Tools' :
          \/ i \in Tools /\ \A k \in 1 .. Len(t) : ~(t[k].type = "tool_finished" /\ t[k].op = log[i].op)
          \/ i > Len(log) /\ log'[i].type = "tool_started"
    BY <1>1, OpenAfter
  <2>2. \A i \in Tools' :
          \/ i \in Tools /\ ~(b.type = "tool_finished" /\ b.op = log[i].op)
          \/ i > Len(log) /\ log'[i].type = "tool_started"
    BY <1>1, <1>8, <2>1
  <2> QED
    BY <1>2, <1>5, <1>6, <2>2
<1>10. \A i \in Validations' :
        \/ a.type = "host_validation_started" \/ b.type = "host_validation_started"
        \/ i \in Validations
  <2>1. \A i \in Validations' :
          i \in Validations \/ (i > Len(log) /\ log'[i].type = "host_validation_started")
    BY <1>1, OpenAfter
  <2> QED
    BY <1>5, <1>6, <2>1
<1>11. a.type = "checkpoint" /\ b.type # "checkpoint" => Holds(log', a.value)
  <2>1. 1 <= Len(t) /\ \A k \in 2 .. Len(t) : t[k] = b
    BY <1>1
  <2> SUFFICES ASSUME a.type = "checkpoint", b.type # "checkpoint" PROVE Holds(log', a.value)
    OBVIOUS
  <2>2. t[1].type = "checkpoint" /\ t[1].value = a.value /\ \A k \in 2 .. Len(t) : t[k].type # "checkpoint"
    BY <1>1, <2>1
  <2> QED
    BY <1>1, <2>1, <2>2, HoldsAfter
<1> QED
  BY <1>2, <1>4, <1>7, <1>9, <1>10, <1>11

-----------------------------------------------------------------------------
(* The invariant. *)

\* Nothing is open while a run is between two operations.
BetweenOperations == pc \in {"begun", "create", "turn", "replied", "recheck"} => AllEnded
\* A run that waits for the model, or for a tool, has no other operation open.
AtModel == pc = "model" => (\A i \in Models : log[i].op = loop.calls) /\ Tools = {} /\ Validations = {}
AtTool == pc = "tool" => (\A i \in Tools : log[i].op = loop.calls) /\ Models = {} /\ Validations = {}
AtValidation ==
    /\ pc \in {"validating", "checking"} => Models = {} /\ Tools = {}
    /\ pc = "checking" => Holds(log, snapshot)
\* A run about to complete has ended all it began, and what it checked is what it saved last.
AboutToComplete ==
    /\ pending => pc \in {"closing", "ending", "ended", "stopped"}
    /\ pending /\ pc \in {"closing", "ending"} =>
         AllEnded /\ checked = snapshot /\ Holds(log, snapshot)

Inv ==
    /\ IsLog(log) /\ "calls" \in DOMAIN loop
    /\ BetweenOperations /\ AtModel /\ AtTool /\ AtValidation /\ AboutToComplete

\* The initial state begins nothing.
LEMMA InitKeeps == Init => Inv
<1> SUFFICES ASSUME Init PROVE Inv
  OBVIOUS
<1>1. log = <<>> /\ pc = "stopped" /\ loop = NoLoop /\ pending = FALSE
  BY DEF Init
<1>2. IsLog(log)
  <2>1. <<>> \in Seq({})
    OBVIOUS
  <2> QED
    BY <1>1, <2>1 DEF IsLog
<1>3. "calls" \in DOMAIN loop
  BY <1>1 DEF NoLoop
<1> QED
  BY <1>1, <1>2, <1>3 DEF Inv, BetweenOperations, AtModel, AtTool, AtValidation, AboutToComplete

\* Steps of others, which only a later look at a signal shows.
LEMMA Resting ==
    ASSUME Inv, UNCHANGED <<log, pc, snapshot, loop, checked, pending>>
    PROVE  Inv'
<1>1. Models' = Models /\ Tools' = Tools /\ Validations' = Validations
  BY DEF Models, Tools, Validations, OpenModel, OpenTool, OpenValidation, Answered, Has, HasAny
<1> QED
  BY <1>1 DEF Inv, AllEnded, BetweenOperations, AtModel, AtTool, AtValidation, AboutToComplete

\* A run that gives up, has returned or was lost has nothing to keep but the log.
LEMMA Leaves ==
    ASSUME IsLog(log)', ("calls" \in DOMAIN loop)',
           pc' \in {"stopped", "orphans", "history", "closing", "ending", "ended"},
           pending' => pc' \in {"stopped", "ended"}
    PROVE  Inv'
BY DEF Inv, BetweenOperations, AtModel, AtTool, AtValidation, AboutToComplete

-----------------------------------------------------------------------------
(* The steps. *)

\* Only a run that has passed its checks is about to complete.
LEMMA NotPending ==
    ASSUME Inv, pc \notin {"closing", "ending", "ended", "stopped"}
    PROVE  ~pending
BY DEF Inv, AboutToComplete

\* Steps that begin, leave or lose a run.
LEMMA LeavingKeeps ==
    ASSUME Inv,
           \/ Start \/ EndpointFails \/ TurnStops \/ ModelFails \/ ToolLost \/ Throws
           \/ End \/ Return \/ EndThrows \/ Steer \/ Crash \/ \E ok \in BOOLEAN : OrphansEnd(ok)
    PROVE  Inv'
<1>1. \A e : log' = Append(log, e) => IsLog(log')
  BY Recorded DEF Inv
<1>2. log' = log => IsLog(log')
  BY DEF Inv
<1>3. "calls" \in DOMAIN NoLoop /\ "calls" \in DOMAIN loop
  BY DEF NoLoop, Inv
<1>4. CASE Start
  BY <1>2, <1>3, <1>4, Leaves DEF Start, Goto
<1>5. CASE EndpointFails
  BY <1>2, <1>3, <1>5, Leaves DEF EndpointFails, Forgotten, Goto
<1>6. CASE TurnStops
  BY <1>2, <1>3, <1>6, NotPending, Leaves DEF TurnStops, Finish, Goto
<1>7. CASE ModelFails
  <2>1. log' = log \/ \E type \in ModelErrors : log' = Append(log, Event(type, loop.calls, None))
    BY <1>7 DEF ModelFails, Record
  <2>2. IsLog(log')
    BY <1>1, <1>2, <2>1
  <2> QED
    BY <1>3, <1>7, <2>2, NotPending, Leaves DEF ModelFails, Finish, Goto
<1>8. CASE ToolLost
  BY <1>2, <1>3, <1>8, NotPending, Leaves DEF ToolLost, Finish, Goto
<1>9. CASE Throws
  BY <1>2, <1>3, <1>9, NotPending, Leaves DEF Throws, Finish, Goto
<1>10. CASE End
  <2>1. log' = log \/ log' = Append(log, Event("completed", 0, snapshot))
    BY <1>10 DEF End, Record
  <2>2. IsLog(log')
    BY <1>1, <1>2, <2>1
  <2> QED
    BY <1>3, <1>10, <2>2, Leaves DEF End, Goto, outcome
<1>11. CASE Return
  BY <1>2, <1>3, <1>11, Leaves DEF Return, Forgotten, Goto
<1>12. CASE EndThrows
  BY <1>2, <1>3, <1>12, Leaves DEF EndThrows, Forgotten, Goto
<1>13. CASE Steer
  <2>1. log' = Append(log, Event("steering", Count("steering", log) + 1, None))
    BY <1>13 DEF Steer, Record
  <2>2. IsLog(log')
    BY <1>1, <2>1
  <2> QED
    BY <1>3, <1>13, <2>2, Leaves DEF Steer, outcome
<1>14. CASE Crash
  BY <1>2, <1>3, <1>14, Leaves DEF Crash, Forgotten, Goto
<1>15. CASE \E ok \in BOOLEAN : OrphansEnd(ok)
  <2>1. PICK ok \in BOOLEAN : OrphansEnd(ok)
    BY <1>15
  <2>2. CASE ok
    BY <1>2, <1>3, <2>1, <2>2, NotPending, Leaves DEF OrphansEnd, Goto, outcome
  <2>3. CASE ~ok
    BY <1>2, <1>3, <2>1, <2>3, NotPending, Leaves DEF OrphansEnd, Forgotten, Goto
  <2> QED
    BY <2>2, <2>3
<1> QED
  BY <1>4, <1>5, <1>6, <1>7, <1>8, <1>9, <1>10, <1>11, <1>12, <1>13, <1>14, <1>15

\* A run that finds an operation open leaves; the others begin with none.
LEMMA BeginningKeeps ==
    ASSUME Inv, History \/ FirstCheckpoint \/ \E ok \in BOOLEAN : Create(ok)
    PROVE  Inv'
<1>1. CASE History
  <2>1. ~pending /\ pending' = pending
    BY <1>1, NotPending DEF History, Finish, outcome
  <2>2. CASE pc' = "closing"
    <3>1. log' = log /\ loop' = loop
      BY <1>1, <2>2 DEF History, Goto
    <3> QED
      BY <2>1, <2>2, <3>1, Leaves DEF Inv
  <2>3. CASE pc' # "closing"
    <3>1. ~Refused /\ loop' = Rebuild /\ pc' \in {"create", "begun"}
      BY <1>1, <2>3 DEF History, Goto, Finish
    <3>2. AllEnded
      BY <3>1 DEF Refused, Unresolved, AllEnded, Models, Tools, Validations
    <3>3. log' = log \/ log' = Append(log, Event("started", 0, None))
      BY <1>1, <2>3 DEF History, Record, Finish, Goto
    <3>4. IsLog(log') /\ AllEnded'
      <4>1. CASE log' = log
        BY <3>2, <4>1 DEF Inv, AllEnded, Models, Tools, Validations, OpenModel, OpenTool, OpenValidation, Answered, Has, HasAny
      <4>2. CASE log' = Append(log, Event("started", 0, None))
        <5> DEFINE e == Event("started", 0, None)
        <5>1. log' = Append(log, e) /\ e.type = "started"
          BY <4>2 DEF Event
        <5> HIDE DEF e
        <5> QED
          BY <3>2, <5>1, Recorded DEF Inv, AllEnded
      <4> QED
        BY <3>3, <4>1, <4>2
    <3>5. "calls" \in DOMAIN loop'
      BY <3>1 DEF Rebuild
    <3> QED
      BY <2>1, <3>1, <3>4, <3>5 DEF Inv, BetweenOperations, AtModel, AtTool, AtValidation, AboutToComplete
  <2> QED
    BY <2>2, <2>3
<1>2. CASE FirstCheckpoint
  <2> DEFINE e == Event("checkpoint", 0, Inputs)
  <2>1. log' = Append(log, e) /\ e.type = "checkpoint" /\ pc' = "create" /\ loop' = loop /\ pending' = pending
    BY <1>2 DEF FirstCheckpoint, Record, Goto, outcome, Event
  <2> HIDE DEF e
  <2>2. AllEnded /\ ~pending
    BY <1>2, NotPending DEF FirstCheckpoint, Inv, BetweenOperations
  <2>3. IsLog(log') /\ AllEnded'
    BY <2>1, <2>2, Recorded DEF Inv, AllEnded
  <2> QED
    BY <2>1, <2>2, <2>3 DEF Inv, BetweenOperations, AtModel, AtTool, AtValidation, AboutToComplete
<1>3. CASE \E ok \in BOOLEAN : Create(ok)
  <2>1. /\ pc' \in {"turn", "closing"} /\ log' = log /\ loop' = loop /\ ~pending /\ pending' = pending
        /\ pc = "create"
    BY <1>3, NotPending DEF Create, Finish, Goto, outcome
  <2>2. AllEnded /\ IsLog(log')
    BY <2>1 DEF Inv, BetweenOperations
  <2>3. AllEnded'
    BY <2>1, <2>2 DEF AllEnded, Models, Tools, Validations, OpenModel, OpenTool, OpenValidation, Answered, Has, HasAny
  <2> QED
    BY <2>1, <2>2, <2>3 DEF Inv, BetweenOperations, AtModel, AtTool, AtValidation, AboutToComplete
<1> QED
  BY <1>1, <1>2, <1>3

\* The model is asked, and answers.
LEMMA AskingKeeps ==
    ASSUME Inv, Ask \/ \E kind \in Replies : Reply(kind)
    PROVE  Inv'
<1>1. CASE Ask
  <2> DEFINE e == Event("model_started", loop.calls + 1, None)
  <2>1. /\ log' = Append(log, e) /\ e.type = "model_started" /\ e.op = loop.calls + 1
        /\ pc' = "model" /\ pending' = pending
    BY <1>1 DEF Ask, Record, Goto, outcome, Event
  <2>2. loop' = [loop EXCEPT !.calls = @ + 1]
    BY <1>1 DEF Ask
  <2>3. "calls" \in DOMAIN loop' /\ loop'.calls = loop.calls + 1
    BY <2>2 DEF Inv
  <2> HIDE DEF e
  <2>4. AllEnded /\ ~pending
    BY <1>1, NotPending DEF Ask, Inv, BetweenOperations
  <2>5. IsLog(log') /\ (\A i \in Models' : log'[i] = e) /\ Tools' = {} /\ Validations' = {}
    BY <2>1, <2>4, Recorded DEF Inv, AllEnded
  <2> QED
    BY <2>1, <2>3, <2>4, <2>5 DEF Inv, BetweenOperations, AtModel, AtTool, AtValidation, AboutToComplete
<1>2. CASE \E kind \in Replies : Reply(kind)
  <2>1. PICK kind \in Replies : Reply(kind)
    BY <1>2
  <2> DEFINE e == Event("model_finished", loop.calls, kind)
  <2>2. /\ log' = Append(log, e) /\ e.type = "model_finished" /\ e.op = loop.calls /\ pc = "model"
        /\ pc' = "replied" /\ pending' = pending /\ loop' = [loop EXCEPT !.messages = Said(e)]
    BY <2>1 DEF Reply, Record, Goto, outcome, Event
  <2> HIDE DEF e
  <2>3. "calls" \in DOMAIN loop' /\ ~pending /\ Answers(e)
    BY <2>2, NotPending DEF Inv, Answers
  <2>4. (\A i \in Models : log[i].op = loop.calls) /\ Tools = {} /\ Validations = {}
    BY <2>2 DEF Inv, AtModel
  <2>5. IsLog(log') /\ AllEnded'
    BY <2>2, <2>3, <2>4, Recorded DEF Inv, AllEnded
  <2> QED
    BY <2>2, <2>3, <2>5 DEF Inv, BetweenOperations, AtModel, AtTool, AtValidation, AboutToComplete
<1> QED
  BY <1>1, <1>2

\* The start of a tool, after a checkpoint or not.
LEMMA ToolBegins ==
    ASSUME Inv, AllEnded, ~pending, NEW e, e.type = "tool_started", e.op = loop.calls,
           \/ log' = Append(log, e)
           \/ \E a : a.type = "checkpoint" /\ log' = Append(Append(log, a), e),
           pc' = "tool", pending' = pending, "calls" \in DOMAIN loop', loop'.calls = loop.calls
    PROVE  Inv'
<1>1. CASE log' = Append(log, e)
  <2>0. IsLog(log) /\ Models = {} /\ Tools = {} /\ Validations = {}
    BY DEF Inv, AllEnded
  <2>1. IsLog(log') /\ Models' = {} /\ Validations' = {} /\ \A i \in Tools' : log'[i] = e
    BY <1>1, <2>0, Recorded
  <2> QED
    BY <2>1 DEF Inv, BetweenOperations, AtModel, AtTool, AtValidation, AboutToComplete
<1>2. CASE \E a : a.type = "checkpoint" /\ log' = Append(Append(log, a), e)
  <2>1. PICK a : a.type = "checkpoint" /\ log' = Append(Append(log, a), e)
    BY <1>2
  <2>2. log' = log \o <<a, e>>
    BY <2>1, AtTheEnd DEF Inv
  <2>3. /\ IsLog(log') /\ Models' = {} /\ Validations' = {}
        /\ \A i \in Tools' : log'[i] \in {a, e} /\ log'[i].type = "tool_started"
    <3>1. IsLog(log) /\ Models = {} /\ Tools = {} /\ Validations = {}
      BY DEF Inv, AllEnded
    <3>2. \A x \in {a, e} : x.type \notin {"model_started", "host_validation_started"}
      BY <2>1
    <3>3. /\ IsLog(log')
          /\ \A i \in Models' : (log'[i] \in {a, e} /\ log'[i].type = "model_started") \/ i \in Models
          /\ \A i \in Validations' :
               a.type = "host_validation_started" \/ e.type = "host_validation_started" \/ i \in Validations
          /\ \A i \in Tools' : (log'[i] \in {a, e} /\ log'[i].type = "tool_started") \/ i \in Tools
      BY <2>2, <3>1, RecordedTwo
    <3> QED
      BY <3>1, <3>2, <3>3
  <2>4. \A i \in Tools' : log'[i].op = loop'.calls
    BY <2>1, <2>3
  <2> QED
    BY <2>3, <2>4 DEF Inv, BetweenOperations, AtModel, AtTool, AtValidation, AboutToComplete
<1> QED
  BY <1>1, <1>2

\* What becomes of a reply: a nudge, a tool, a second look, or the end.
LEMMA ActKeeps ==
    ASSUME Inv, Act
    PROVE  Inv'
<1>1. pc = "replied" /\ AllEnded /\ ~pending /\ "calls" \in DOMAIN loop /\ IsLog(log)
  BY NotPending DEF Act, Inv, BetweenOperations
<1>2. CASE pc' = "closing"
  <2>1. log' = log \/ \E e : log' = Append(log, e)
    BY <1>2 DEF Act, Acted, Nudged, BeginTool, NudgeSaved, Finish, Record, Goto
  <2>2. loop' = loop /\ pending' = pending
    BY <1>2 DEF Act, Acted, Nudged, BeginTool, Finish, Goto, outcome
  <2>3. IsLog(log')
    BY <1>1, <2>1, Recorded
  <2> QED
    BY <1>1, <1>2, <2>2, <2>3, Leaves
<1>3. CASE ~Stopping /\ Acted /\ pc' # "closing"
  <2>1. CASE BeginTool(log)
    <3> DEFINE e == Event("tool_started", loop.calls, None)
    <3>1. /\ log' = Append(log, e) /\ e.type = "tool_started" /\ e.op = loop.calls
          /\ pc' = "tool" /\ pending' = pending
          /\ loop' = [loop EXCEPT !.tools = @ + 1, !.eligible = FALSE, !.noAction = 0, !.lengths = 0]
      BY <2>1 DEF BeginTool, Goto, outcome, Event
    <3> HIDE DEF e
    <3>2. DOMAIN loop' = DOMAIN loop /\ loop'.calls = loop.calls
      BY <1>1, <3>1
    <3> QED
      BY <1>1, <3>1, <3>2, ToolBegins
  <2>2. CASE pc' = "recheck" /\ UNCHANGED <<log, loop, outcome>>
    <3>1. AllEnded'
      BY <1>1, <2>2 DEF AllEnded, Models, Tools, Validations, OpenModel, OpenTool, OpenValidation, Answered, Has, HasAny
    <3> QED
      BY <1>1, <2>2, <3>1 DEF outcome, Inv, BetweenOperations, AtModel, AtTool, AtValidation, AboutToComplete
  <2> QED
    BY <1>3, <2>1, <2>2 DEF Acted, Finish, Goto
<1>4. CASE pc' # "closing" /\ \E kind \in {"length", "no_action"} : Nudged(kind)
  <2>1. PICK kind \in {"length", "no_action"} : Nudged(kind)
    BY <1>4
  <2> DEFINE e == Event("nudge", loop.calls, kind)
  <2>2. /\ log' = Append(log, e) /\ e.type = "nudge" /\ pc' = "turn" /\ pending' = pending
        /\ DOMAIN loop' = DOMAIN loop
    BY <1>4, <2>1 DEF Nudged, NudgeSaved, Record, Finish, Goto, outcome, Event
  <2> HIDE DEF e
  <2>3. IsLog(log') /\ AllEnded'
    BY <1>1, <2>2, Recorded DEF AllEnded
  <2> QED
    BY <1>1, <2>2, <2>3 DEF Inv, BetweenOperations, AtModel, AtTool, AtValidation, AboutToComplete
<1> QED
  BY <1>2, <1>3, <1>4 DEF Act, Finish, Goto

\* The second look at the workspace.
LEMMA RecheckKeeps ==
    ASSUME Inv, NEW content \in Contents, Recheck(content)
    PROVE  Inv'
<1>1. pc = "recheck" /\ AllEnded /\ ~pending /\ "calls" \in DOMAIN loop /\ IsLog(log)
  BY NotPending DEF Recheck, Inv, BetweenOperations
<1> DEFINE a == Event("checkpoint", loop.calls, content)
<1>2. a.type = "checkpoint"
  BY DEF Event
<1>3. CASE pc' = "closing"
  <2>1. (\E e : log' = Append(log, e)) \/ (\E e : log' = Append(Append(log, a), e))
    BY <1>3 DEF Recheck, BeginTool, Finish, Record, Goto
  <2>2. loop' = loop /\ pending' = pending
    BY <1>3 DEF Recheck, BeginTool, Finish, Goto, outcome
  <2> HIDE DEF a
  <2>3. IsLog(log')
    <3>1. CASE \E e : log' = Append(log, e)
      BY <1>1, <3>1, Recorded
    <3>2. CASE \E e : log' = Append(Append(log, a), e)
      <4>0. PICK e : log' = Append(Append(log, a), e)
        BY <3>2
      <4>1. log' = log \o <<a, e>>
        BY <1>1, <4>0, AtTheEnd
      <4> QED
        BY <1>1, <4>1, RecordedTwo
    <3> QED
      BY <2>1, <3>1, <3>2
  <2> QED
    BY <1>1, <1>3, <2>2, <2>3, Leaves
<1>4. CASE pc' # "closing"
  <2> DEFINE e == Event("tool_started", loop.calls, None)
  <2>1. BeginTool(Append(log, a))
    BY <1>4 DEF Recheck, Finish, Goto
  <2>2. /\ log' = Append(Append(log, a), e) /\ e.type = "tool_started" /\ e.op = loop.calls
        /\ pc' = "tool" /\ pending' = pending
        /\ loop' = [loop EXCEPT !.tools = @ + 1, !.eligible = FALSE, !.noAction = 0, !.lengths = 0]
    BY <2>1 DEF BeginTool, Goto, outcome, Event
  <2> HIDE DEF e, a
  <2>3. DOMAIN loop' = DOMAIN loop /\ loop'.calls = loop.calls
    BY <1>1, <2>2
  <2> QED
    BY <1>1, <1>2, <2>2, <2>3, ToolBegins
<1> QED
  BY <1>3, <1>4

\* A receipt ends its tool and is saved with the checkpoint it leaves.
LEMMA ReceiptEnds ==
    ASSUME Inv, pc = "tool", NEW content, NEW how, Receipt(content, how)
    PROVE  /\ IsLog(log') /\ AllEnded' /\ Holds(log', content)
           /\ DOMAIN loop' = DOMAIN loop /\ snapshot' = content /\ ~pending
           /\ \A x \in Appended : x.type \in {"checkpoint", "tool_finished"}
<1> DEFINE a == Event("checkpoint", loop.calls, content)
           e == Event("tool_finished", loop.calls, how)
<1>1. /\ log' = log \o <<a, e>> /\ a.type = "checkpoint" /\ a.value = content
      /\ e.type = "tool_finished" /\ e.op = loop.calls /\ snapshot' = content
      /\ DOMAIN loop' = DOMAIN loop
  BY DEF Receipt, Event
<1> HIDE DEF a, e
<1>2. /\ IsLog(log) /\ Models = {} /\ Validations = {} /\ \A i \in Tools : log[i].op = loop.calls
  BY DEF Inv, AtTool
<1>3. \A x \in {a, e} : x.type \in {"checkpoint", "tool_finished"}
  BY <1>1
<1>4. /\ IsLog(log') /\ (\A x \in Appended : x \in {a, e})
      /\ \A i \in Models' : (log'[i] \in {a, e} /\ log'[i].type = "model_started") \/ i \in Models
      /\ \A i \in Validations' :
           a.type = "host_validation_started" \/ e.type = "host_validation_started" \/ i \in Validations
      /\ \A i \in Tools' :
           \/ log'[i] \in {a, e} /\ log'[i].type = "tool_started"
           \/ i \in Tools /\ log'[i] = log[i] /\ ~(e.type = "tool_finished" /\ e.op = log[i].op)
  BY <1>1, <1>2, RecordedTwo
<1>5. Models' = {} /\ Tools' = {} /\ Validations' = {}
  BY <1>1, <1>2, <1>3, <1>4
<1>6. Holds(log', content)
  BY <1>1, <1>2, RecordedTwo
<1>7. ~pending
  BY NotPending
<1> QED
  BY <1>1, <1>3, <1>4, <1>5, <1>6, <1>7 DEF AllEnded

\* A tool ends, or finishes the work.
LEMMA ToolKeeps ==
    ASSUME Inv, NEW content \in Contents,
           \/ \E how \in ToolOutcomes : ToolEnds(content, how)
           \/ \E passed \in BOOLEAN : FinishTool(content, passed)
    PROVE  Inv'
<1>1. "calls" \in DOMAIN loop
  BY DEF Inv
<1>2. CASE \E how \in ToolOutcomes : ToolEnds(content, how)
  <2>1. PICK how \in ToolOutcomes : ToolEnds(content, how)
    BY <1>2
  <2>2. pc = "tool" /\ Receipt(content, how) /\ pc' \in {"closing", "turn"} /\ pending' = pending
    BY <2>1 DEF ToolEnds, Finish, Goto, outcome
  <2>3. IsLog(log') /\ AllEnded' /\ "calls" \in DOMAIN loop' /\ ~pending
    BY <1>1, <2>2, ReceiptEnds
  <2> QED
    BY <2>2, <2>3 DEF Inv, BetweenOperations, AtModel, AtTool, AtValidation, AboutToComplete
<1>3. CASE \E passed \in BOOLEAN : FinishTool(content, passed)
  <2>1. PICK passed \in BOOLEAN : FinishTool(content, passed)
    BY <1>3
  <2>2. pc = "tool" /\ Receipt(content, "failed")
    BY <2>1 DEF FinishTool, Saved
  <2>3. /\ IsLog(log') /\ AllEnded' /\ "calls" \in DOMAIN loop' /\ ~pending
        /\ Holds(log', content) /\ snapshot' = content
    BY <1>1, <2>2, ReceiptEnds
  <2>4. CASE passed
    <3>1. pc' = "closing" /\ checked' = content
      BY <2>1, <2>4 DEF FinishTool, Goto
    <3> QED
      BY <2>3, <3>1 DEF Inv, BetweenOperations, AtModel, AtTool, AtValidation, AboutToComplete
  <2>5. CASE ~passed
    <3>1. pc' = "turn" /\ pending' = pending
      BY <2>1, <2>5 DEF FinishTool, Goto, outcome
    <3> QED
      BY <2>3, <3>1 DEF Inv, BetweenOperations, AtModel, AtTool, AtValidation, AboutToComplete
  <2> QED
    BY <2>4, <2>5
<1> QED
  BY <1>2, <1>3

\* The host's own validation, of the work as the allowance left it.
LEMMA ValidationKeeps ==
    ASSUME Inv,
           \/ LoopExhausted
           \/ \E content \in Contents : ValidationCaptured(content)
           \/ \E passed \in BOOLEAN : ValidationEnds(passed)
    PROVE  Inv'
<1>0. IsLog(log) /\ "calls" \in DOMAIN loop
  BY DEF Inv
<1>1. CASE LoopExhausted
  <2>1. pc = "turn" /\ loop' = loop /\ pending' = pending
    BY <1>1 DEF LoopExhausted, Finish, outcome
  <2>2. AllEnded /\ ~pending
    BY <2>1, NotPending DEF Inv, BetweenOperations
  <2>3. CASE pc' = "closing" /\ log' = log
    BY <1>0, <2>1, <2>2, <2>3, Leaves
  <2>4. CASE pc' = "validating" /\ log' = Append(log, Event("host_validation_started", loop.calls, None))
    <3> DEFINE e == Event("host_validation_started", loop.calls, None)
    <3>1. log' = Append(log, e) /\ e.type = "host_validation_started" /\ pc' = "validating"
      BY <2>4 DEF Event
    <3> HIDE DEF e
    <3>2. IsLog(log') /\ Models' = {} /\ Tools' = {}
      BY <1>0, <2>2, <3>1, Recorded DEF AllEnded
    <3> QED
      BY <1>0, <2>1, <2>2, <3>1, <3>2 DEF Inv, BetweenOperations, AtModel, AtTool, AtValidation, AboutToComplete
  <2> QED
    BY <1>1, <2>3, <2>4 DEF LoopExhausted, Finish, Goto, Record
<1>2. CASE \E content \in Contents : ValidationCaptured(content)
  <2>1. PICK content \in Contents : ValidationCaptured(content)
    BY <1>2
  <2> DEFINE e == Event("checkpoint", loop.calls, content)
  <2>2. /\ log' = Append(log, e) /\ e.type = "checkpoint" /\ e.value = content /\ snapshot' = content
        /\ pc = "validating" /\ pc' \in {"closing", "checking"} /\ pending' = pending /\ loop' = loop
    BY <2>1 DEF ValidationCaptured, Record, Finish, Goto, outcome, Event
  <2> HIDE DEF e
  <2>3. Models = {} /\ Tools = {} /\ ~pending
    BY <2>2, NotPending DEF Inv, AtValidation
  <2>4. IsLog(log') /\ Models' = {} /\ Tools' = {} /\ Holds(log', content)
    BY <1>0, <2>2, <2>3, Recorded
  <2> QED
    BY <1>0, <2>2, <2>3, <2>4 DEF Inv, BetweenOperations, AtModel, AtTool, AtValidation, AboutToComplete
<1>3. CASE \E passed \in BOOLEAN : ValidationEnds(passed)
  <2>1. PICK passed \in BOOLEAN : ValidationEnds(passed)
    BY <1>3
  <2> DEFINE e == Event("host_validation_finished", loop.calls, IF passed THEN "passed" ELSE "failed")
  <2>2. /\ log' = Append(log, e) /\ e.type = "host_validation_finished" /\ pc = "checking"
        /\ pc' = "closing" /\ snapshot' = snapshot /\ loop' = loop
        /\ pending' = pending \/ checked' = snapshot
    BY <2>1 DEF ValidationEnds, Record, Finish, Goto, Event
  <2> HIDE DEF e
  <2>3. Models = {} /\ Tools = {} /\ ~pending /\ Holds(log, snapshot)
    BY <2>2, NotPending DEF Inv, AtValidation
  <2>4. IsLog(log') /\ Models' = {} /\ Tools' = {} /\ Validations' = {} /\ Holds(log', snapshot)
    BY <1>0, <2>2, <2>3, Recorded
  <2> QED
    BY <1>0, <2>2, <2>3, <2>4 DEF Inv, AllEnded, BetweenOperations, AtModel, AtTool, AtValidation, AboutToComplete
<1> QED
  BY <1>1, <1>2, <1>3

\* The clean-up leaves what was checked.
LEMMA CleanupKeeps ==
    ASSUME Inv, NEW ok \in BOOLEAN, CleanupEnds(ok)
    PROVE  Inv'
<1>1. pc = "closing" /\ pc' = "ending" /\ loop' = NoLoop /\ UNCHANGED <<log, snapshot, checked, pending>>
  BY DEF CleanupEnds, Goto
<1>2. Models' = Models /\ Tools' = Tools /\ Validations' = Validations /\ "calls" \in DOMAIN loop'
  BY <1>1 DEF Models, Tools, Validations, OpenModel, OpenTool, OpenValidation, Answered, Has, HasAny, NoLoop
<1> QED
  BY <1>1, <1>2 DEF Inv, AllEnded, BetweenOperations, AtModel, AtTool, AtValidation, AboutToComplete

\* The invariant is inductive.
LEMMA Inductive ==
    ASSUME Inv, [Next]_vars
    PROVE  Inv'
<1>1. CASE Pause \/ Cancel \/ AbortSignal \/ DeadlinePasses \/ UNCHANGED vars
  <2>1. UNCHANGED <<log, pc, snapshot, loop, checked, pending>>
    BY <1>1 DEF Pause, Cancel, AbortSignal, DeadlinePasses, vars, outcome
  <2> QED
    BY <2>1, Resting
<1>2. CASE RunStep
  BY <1>2, LeavingKeeps, BeginningKeeps, AskingKeeps, ActKeeps, RecheckKeeps, ToolKeeps, ValidationKeeps,
     CleanupKeeps DEF RunStep
<1> QED
  BY <1>1, <1>2, LeavingKeeps DEF Next

-----------------------------------------------------------------------------
(* What a step may begin. *)

\* Whatever a step begins or completes, it does so with nothing open and before anything stops the run.
LEMMA StartsOnly ==
    ASSUME Inv, [Next]_vars, NEW x \in Appended, x.type \in Starts
    PROVE  /\ ~Stopping /\ AllEnded
           /\ x.type = "completed" => pc = "ending" /\ pending /\ x.value = snapshot
<1>0. IsLog(log)
  BY DEF Inv
<1>1. log' # log
  <2>1. ASSUME log' = log PROVE FALSE
    <3>1. Len(log) \in Nat
      BY <1>0 DEF IsLog
    <3> QED
      BY <2>1, <3>1 DEF Appended
  <2> QED
    BY <2>1
<1>2. \A e : log' = Append(log, e) => x = e
  BY <1>0, Recorded
<1>3. \A a, b : log' = Append(Append(log, a), b) => x \in {a, b}
  <2>1. ASSUME NEW a, NEW b, log' = Append(Append(log, a), b)
        PROVE  x \in {a, b}
    <3>1. log' = log \o <<a, b>>
      BY <1>0, <2>1, AtTheEnd
    <3> QED
      BY <1>0, <3>1, RecordedTwo
  <2> QED
    BY <2>1
<1>4. CASE Ask
  <2>1. x = Event("model_started", loop.calls + 1, None) /\ ~Stopping /\ pc = "turn"
    BY <1>2, <1>4 DEF Ask, Record
  <2> QED
    BY <2>1 DEF Event, Inv, BetweenOperations
<1>5. CASE Act
  <2>1. AllEnded
    BY <1>5 DEF Act, Inv, BetweenOperations
  <2>2. CASE Stopping
    <3>1. x = Event("model_action_not_started", loop.calls, None)
      BY <1>2, <1>5, <2>2 DEF Act, Record
    <3> QED
      BY <3>1 DEF Event, Starts
  <2>3. CASE ~Stopping /\ Acted
    <3>1. x = Event("tool_started", loop.calls, None)
      BY <1>1, <1>2, <2>3 DEF Acted, BeginTool
    <3> QED
      BY <2>1, <2>3, <3>1 DEF Event
  <2>4. CASE \E kind \in {"length", "no_action"} : Nudged(kind)
    <3>1. PICK kind \in {"length", "no_action"} : Nudged(kind)
      BY <2>4
    <3>2. x = Event("nudge", loop.calls, kind)
      BY <1>1, <1>2, <3>1 DEF Nudged, NudgeSaved, Record
    <3> QED
      BY <3>2 DEF Event, Starts
  <2> QED
    BY <1>5, <2>2, <2>3, <2>4 DEF Act
<1>6. CASE \E content \in Contents : Recheck(content)
  <2>1. PICK content \in Contents : Recheck(content)
    BY <1>6
  <2>2. AllEnded
    BY <2>1 DEF Recheck, Inv, BetweenOperations
  <2> DEFINE a == Event("checkpoint", loop.calls, content)
  <2>3. CASE Stopping
    <3> DEFINE b == Event("model_action_not_started", loop.calls, None)
    <3>1. log' = Append(log, b) \/ log' = Append(Append(log, a), b)
      BY <2>1, <2>3 DEF Recheck
    <3>2. a.type \notin Starts /\ b.type \notin Starts
      BY DEF Event, Starts
    <3> HIDE DEF a, b
    <3> QED
      BY <1>2, <1>3, <3>1, <3>2
  <2>4. CASE ~Stopping
    <3> DEFINE b == Event("progress_stop", loop.calls, None)
               c == Event("tool_started", loop.calls, None)
    <3>1. log' = Append(log, b) \/ log' = Append(Append(log, a), c)
      BY <2>1, <2>4 DEF Recheck, Record, BeginTool
    <3>2. a.type \notin Starts /\ b.type \notin Starts /\ c.type = "tool_started"
      BY DEF Event, Starts
    <3> HIDE DEF a, b, c
    <3>3. x = c
      BY <1>2, <1>3, <3>1, <3>2
    <3> QED
      BY <2>2, <2>4, <3>2, <3>3
  <2> QED
    BY <2>3, <2>4
<1>7. CASE \E content \in Contents : \/ \E how \in ToolOutcomes : ToolEnds(content, how)
                                     \/ \E passed \in BOOLEAN : FinishTool(content, passed)
  <2>1. PICK content \in Contents : \/ \E how \in ToolOutcomes : ToolEnds(content, how)
                                    \/ \E passed \in BOOLEAN : FinishTool(content, passed)
    BY <1>7
  <2>2. pc = "tool" /\ \E how : Receipt(content, how)
    BY <2>1 DEF ToolEnds, FinishTool, Saved
  <2>3. x.type \in {"checkpoint", "tool_finished"}
    BY <2>2, ReceiptEnds
  <2> QED
    BY <2>3 DEF Starts
<1>8. CASE LoopExhausted
  <2>1. x = Event("host_validation_started", loop.calls, None) /\ ~Stopping /\ pc = "turn"
    BY <1>1, <1>2, <1>8 DEF LoopExhausted, Record
  <2> QED
    BY <2>1 DEF Event, Inv, BetweenOperations
<1>9. CASE End
  <2>1. x = Event("completed", 0, snapshot) /\ ~Stopping /\ pc = "ending" /\ pending
    BY <1>1, <1>2, <1>9 DEF End, Record
  <2> QED
    BY <2>1 DEF Event, Inv, AboutToComplete
<1>10. CASE History \/ FirstCheckpoint \/ ModelFails \/ Steer
  <2>1. \E type \in {"started", "checkpoint", "steering"} \cup ModelErrors : \E op, value : log' = Append(log, Event(type, op, value))
    BY <1>1, <1>10 DEF History, FirstCheckpoint, ModelFails, Steer, Record
  <2>2. x.type \in {"started", "checkpoint", "steering"} \cup ModelErrors
    BY <1>2, <2>1 DEF Event
  <2> QED
    BY <2>2 DEF Starts, ModelErrors
<1>11. CASE \/ \E kind \in Replies : Reply(kind)
            \/ \E content \in Contents : ValidationCaptured(content)
            \/ \E passed \in BOOLEAN : ValidationEnds(passed)
  <2>1. \E type \in {"model_finished", "checkpoint", "host_validation_finished"} : \E op, value : log' = Append(log, Event(type, op, value))
    BY <1>11 DEF Reply, ValidationCaptured, ValidationEnds, Record
  <2>2. x.type \in {"model_finished", "checkpoint", "host_validation_finished"}
    BY <1>2, <2>1 DEF Event
  <2> QED
    BY <2>2 DEF Starts
<1>12. CASE TurnStops \/ ToolLost \/ Return \/ \E ok \in BOOLEAN : OrphansEnd(ok) \/ Create(ok) \/ CleanupEnds(ok)
  BY <1>1, <1>12 DEF TurnStops, ToolLost, Return, OrphansEnd, Create, CleanupEnds
<1>13. CASE Start \/ EndpointFails \/ Throws \/ EndThrows \/ Pause \/ Cancel \/ AbortSignal \/ DeadlinePasses
            \/ Crash \/ UNCHANGED vars
  BY <1>1, <1>13 DEF Start, EndpointFails, Throws, EndThrows, Pause, Cancel, AbortSignal, DeadlinePasses, Crash, vars
<1> QED
  BY <1>4, <1>5, <1>6, <1>7, <1>8, <1>9, <1>10, <1>11, <1>12, <1>13 DEF Next, RunStep

-----------------------------------------------------------------------------
(* What a resumed run rebuilds: four folds and two counts of the log. *)

AddMessage(conversation, e) == conversation \o MessageOf(e)
NextInvalid(n, e) == IF e.type # "tool_finished" THEN n ELSE IF e.value = "invalid" THEN n + 1 ELSE 0
NextEligible(yes, e) == IF e.type = "tool_finished" THEN e.value = "done" ELSE yes

Replays == INSTANCE FoldLaws WITH Op <- AddMessage
AllStreaks == INSTANCE FoldLaws WITH Op <- StreaksAfter
Invalids == INSTANCE FoldLaws WITH Op <- NextInvalid
Eligibles == INSTANCE FoldLaws WITH Op <- NextEligible

\* The rebuilt values are the folds the laws are about.
LEMMA RebuiltByFolds ==
    ASSUME NEW s
    PROVE  /\ Replay(s) = Replays!Fold(<<>>, s) /\ Streaks(s) = AllStreaks!Fold([no_action |-> 0, length |-> 0], s)
           /\ InvalidStreak(s) = Invalids!Fold(0, s) /\ Eligible(s) = Eligibles!Fold(FALSE, s)
<1>1. Replay(s) = Replays!Fold(<<>>, s)
  BY DEF Replay, Replays!Fold, AddMessage, FoldLeft, Replays!FoldLeft, MapThenFoldSet, Replays!MapThenFoldSet,
     Max, Replays!Max
<1>2. Streaks(s) = AllStreaks!Fold([no_action |-> 0, length |-> 0], s)
  BY DEF Streaks, AllStreaks!Fold, FoldLeft, AllStreaks!FoldLeft, MapThenFoldSet, AllStreaks!MapThenFoldSet,
     Max, AllStreaks!Max
<1>3. InvalidStreak(s) = Invalids!Fold(0, s)
  BY DEF InvalidStreak, Invalids!Fold, NextInvalid, FoldLeft, Invalids!FoldLeft, MapThenFoldSet,
     Invalids!MapThenFoldSet, Max, Invalids!Max
<1>4. Eligible(s) = Eligibles!Fold(FALSE, s)
  BY DEF Eligible, Eligibles!Fold, NextEligible, FoldLeft, Eligibles!FoldLeft, MapThenFoldSet,
     Eligibles!MapThenFoldSet, Max, Eligibles!Max
<1> QED
  BY <1>1, <1>2, <1>3, <1>4

\* Four types of events are messages of the conversation.
LEMMA Says ==
    ASSUME NEW e
    PROVE  /\ e.type = "model_finished" =>
                MessageOf(e) = << <<"call", e.op>> >> \/ MessageOf(e) = << <<"text", e.op>> >>
           /\ e.type = "tool_finished" => MessageOf(e) = << <<"tool", e.op>> >>
           /\ e.type = "nudge" => MessageOf(e) = << <<e.value, e.op>> >>
           /\ e.type = "steering" => MessageOf(e) = << <<"steering", e.op>> >>
           /\ e.type \notin {"model_finished", "tool_finished", "nudge", "steering"} => MessageOf(e) = <<>>
BY DEF MessageOf

\* A conversation is a sequence.
LEMMA ReplayIsLog ==
    ASSUME NEW s, IsLog(s)
    PROVE  IsLog(Replay(s))
<1>1. PICK S : s \in Seq(S)
  BY DEF IsLog
<1> DEFINE M == UNION {{<<"call", e.op>>, <<"text", e.op>>, <<"tool", e.op>>, <<"steering", e.op>>, <<e.value, e.op>>} : e \in S}
<1>2. \A e \in S : /\ <<"call", e.op>> \in M /\ <<"text", e.op>> \in M /\ <<"tool", e.op>> \in M
                   /\ <<"steering", e.op>> \in M /\ <<e.value, e.op>> \in M
  OBVIOUS
<1> HIDE DEF M
<1>3. ASSUME NEW e \in S
      PROVE  MessageOf(e) \in Seq(M)
  <2>1. CASE e.type \notin {"model_finished", "tool_finished", "nudge", "steering"}
    <3>1. MessageOf(e) = <<>>
      BY <2>1, Says
    <3>2. <<>> \in Seq(M)
      OBVIOUS
    <3> QED
      BY <3>1, <3>2
  <2>2. CASE e.type \in {"model_finished", "tool_finished", "nudge", "steering"}
    <3>1. PICK m \in M : MessageOf(e) = <<m>>
      BY <1>2, <2>2, Says
    <3> QED
      BY <3>1
  <2> QED
    BY <2>1, <2>2
<1>4. <<>> \in Seq(M) /\ Replays!Keeps(Seq(M), S)
  BY <1>3 DEF AddMessage, Replays!Keeps
<1>5. Replays!Fold(<<>>, s) \in Seq(M)
  BY <1>1, <1>4, Replays!FoldStays
<1> QED
  BY <1>5, RebuiltByFolds DEF IsLog

\* One more event of a type is one more, and another leaves the count.
LEMMA CountAfter ==
    ASSUME NEW s, IsLog(s), NEW e, NEW type
    PROVE  Count(type, Append(s, e)) = IF e.type = type THEN Count(type, s) + 1 ELSE Count(type, s)
<1> DEFINE n == Len(s)
           r == Append(s, e)
           Old == {i \in 1 .. n : s[i].type = type}
           New == {i \in 1 .. n + 1 : r[i].type = type}
<1>1. n \in Nat /\ Len(r) = n + 1 /\ r[n + 1] = e /\ \A i \in 1 .. n : r[i] = s[i]
  BY DEF IsLog
<1>2. Count(type, s) = Cardinality(Old) /\ Count(type, r) = Cardinality(New)
  BY <1>1 DEF Count
<1> HIDE DEF n, r
<1>3. IsFiniteSet(Old)
  <2>1. IsFiniteSet(1 .. n) /\ Old \subseteq 1 .. n
    BY <1>1, FS_Interval
  <2> QED
    BY <2>1, FS_Subset
<1>4. New = IF e.type = type THEN Old \cup {n + 1} ELSE Old
  BY <1>1
<1>5. n + 1 \notin Old
  BY <1>1
<1> HIDE DEF Old, New
<1>6. Cardinality(Old \cup {n + 1}) = Cardinality(Old) + 1
  BY <1>3, <1>5, FS_AddElement
<1> QED
  BY <1>2, <1>4, <1>6 DEF r

\* What one more event does to what is rebuilt.
LEMMA RebuiltAfter ==
    ASSUME NEW s, IsLog(s), NEW e
    PROVE  /\ Replay(Append(s, e)) = Replay(s) \o MessageOf(e)
           /\ Streaks(Append(s, e)) = StreaksAfter(Streaks(s), e)
           /\ InvalidStreak(Append(s, e)) = NextInvalid(InvalidStreak(s), e)
           /\ Eligible(Append(s, e)) = NextEligible(Eligible(s), e)
<1>1. PICK S : s \in Seq(S)
  BY DEF IsLog
<1>2. Replays!Fold(<<>>, Append(s, e)) = AddMessage(Replays!Fold(<<>>, s), e)
  BY <1>1, Replays!FoldAppend
<1>3. AllStreaks!Fold([no_action |-> 0, length |-> 0], Append(s, e)) = StreaksAfter(AllStreaks!Fold([no_action |-> 0, length |-> 0], s), e)
  BY <1>1, AllStreaks!FoldAppend
<1>4. Invalids!Fold(0, Append(s, e)) = NextInvalid(Invalids!Fold(0, s), e)
  BY <1>1, Invalids!FoldAppend
<1>5. Eligibles!Fold(FALSE, Append(s, e)) = NextEligible(Eligibles!Fold(FALSE, s), e)
  BY <1>1, Eligibles!FoldAppend
<1> QED
  BY <1>2, <1>3, <1>4, <1>5, RebuiltByFolds DEF AddMessage

LoopFields == {"messages", "calls", "tools", "noAction", "lengths", "invalid", "eligible"}

\* The loop l of a run is what a restart would rebuild from s, eligibility aside.
Recalls(l, s) ==
    /\ l.messages = Replay(s)
    /\ l.calls = Count("model_started", s) /\ l.tools = Count("tool_started", s)
    /\ l.noAction = Streaks(s).no_action /\ l.lengths = Streaks(s).length
    /\ l.invalid = InvalidStreak(s)

\* Where a run remembers.
Remembering == {"begun", "create", "turn", "model", "replied", "recheck", "tool"}

\* A run holds what the last checkpoint saved.
Shows == HasAny("checkpoint") => Holds(log, snapshot)

\* From its history to its last tool, a run remembers what its log says; while a tool
\* runs the work is no longer eligible, which the log says with the receipt.
Memory ==
    /\ DOMAIN loop = LoopFields
    /\ pc \in Remembering =>
         /\ Recalls(loop, log)
         /\ pc # "tool" => loop.eligible = Eligible(log)
         /\ Shows

\* An event that is no part of what is rebuilt.
LEMMA QuietAfter ==
    ASSUME NEW s, IsLog(s), NEW e,
           e.type \notin {"model_started", "model_finished", "tool_started", "tool_finished", "nudge", "steering"}
    PROVE  /\ \A l : Recalls(l, Append(s, e)) <=> Recalls(l, s)
           /\ Eligible(Append(s, e)) = Eligible(s)
<1>1. Replay(Append(s, e)) = Replay(s)
  <2>1. MessageOf(e) = <<>>
    BY Says
  <2>2. PICK M : Replay(s) \in Seq(M)
    BY ReplayIsLog DEF IsLog
  <2>3. Replay(s) \o <<>> = Replay(s)
    BY <2>2
  <2> QED
    BY <2>1, <2>3, RebuiltAfter
<1>2. Streaks(Append(s, e)) = Streaks(s)
  BY RebuiltAfter DEF StreaksAfter
<1>3. InvalidStreak(Append(s, e)) = InvalidStreak(s) /\ Eligible(Append(s, e)) = Eligible(s)
  BY RebuiltAfter DEF NextInvalid, NextEligible
<1>4. /\ Count("model_started", Append(s, e)) = Count("model_started", s)
      /\ Count("tool_started", Append(s, e)) = Count("tool_started", s)
  BY CountAfter
<1> QED
  BY <1>1, <1>2, <1>3, <1>4 DEF Recalls

\* The start of a model call, or of a tool, which ends the streaks.
LEMMA StartAfter ==
    ASSUME NEW s, IsLog(s), NEW e, e.type \in {"model_started", "tool_started"}
    PROVE  /\ Replay(Append(s, e)) = Replay(s) /\ InvalidStreak(Append(s, e)) = InvalidStreak(s)
           /\ Eligible(Append(s, e)) = Eligible(s)
           /\ e.type = "model_started" =>
                /\ Streaks(Append(s, e)) = Streaks(s)
                /\ Count("model_started", Append(s, e)) = Count("model_started", s) + 1
                /\ Count("tool_started", Append(s, e)) = Count("tool_started", s)
           /\ e.type = "tool_started" =>
                /\ Streaks(Append(s, e)) = [no_action |-> 0, length |-> 0]
                /\ Count("model_started", Append(s, e)) = Count("model_started", s)
                /\ Count("tool_started", Append(s, e)) = Count("tool_started", s) + 1
<1>1. Replay(Append(s, e)) = Replay(s)
  <2>1. MessageOf(e) = <<>>
    BY Says
  <2>2. PICK M : Replay(s) \in Seq(M)
    BY ReplayIsLog DEF IsLog
  <2>3. Replay(s) \o <<>> = Replay(s)
    BY <2>2
  <2> QED
    BY <2>1, <2>3, RebuiltAfter
<1>2. /\ e.type = "model_started" => Streaks(Append(s, e)) = Streaks(s)
      /\ e.type = "tool_started" => Streaks(Append(s, e)) = [no_action |-> 0, length |-> 0]
  BY RebuiltAfter DEF StreaksAfter
<1>3. InvalidStreak(Append(s, e)) = InvalidStreak(s) /\ Eligible(Append(s, e)) = Eligible(s)
  BY RebuiltAfter DEF NextInvalid, NextEligible
<1>4. \A type : Count(type, Append(s, e)) = IF e.type = type THEN Count(type, s) + 1 ELSE Count(type, s)
  BY CountAfter
<1>5. /\ e.type = "model_started" =>
                /\ Count("model_started", Append(s, e)) = Count("model_started", s) + 1
                /\ Count("tool_started", Append(s, e)) = Count("tool_started", s)
      /\ e.type = "tool_started" =>
                /\ Count("model_started", Append(s, e)) = Count("model_started", s)
                /\ Count("tool_started", Append(s, e)) = Count("tool_started", s) + 1
  BY <1>4
<1> QED
  BY <1>1, <1>2, <1>3, <1>5

\* A reply, a nudge or a receipt, each a message.
LEMMA MessageAfter ==
    ASSUME NEW s, IsLog(s), NEW e, e.type \in {"model_finished", "nudge", "tool_finished"}
    PROVE  /\ Replay(Append(s, e)) = Replay(s) \o MessageOf(e)
           /\ Count("model_started", Append(s, e)) = Count("model_started", s)
           /\ Count("tool_started", Append(s, e)) = Count("tool_started", s)
           /\ e.type # "nudge" => Streaks(Append(s, e)) = Streaks(s)
           /\ e.type = "nudge" =>
                /\ Streaks(Append(s, e)).no_action = IF e.value = "no_action" THEN Streaks(s).no_action + 1 ELSE 0
                /\ Streaks(Append(s, e)).length = IF e.value = "length" THEN Streaks(s).length + 1 ELSE 0
           /\ e.type # "tool_finished" =>
                InvalidStreak(Append(s, e)) = InvalidStreak(s) /\ Eligible(Append(s, e)) = Eligible(s)
           /\ e.type = "tool_finished" =>
                /\ InvalidStreak(Append(s, e)) = IF e.value = "invalid" THEN InvalidStreak(s) + 1 ELSE 0
                /\ Eligible(Append(s, e)) = (e.value = "done")
<1>1. /\ Replay(Append(s, e)) = Replay(s) \o MessageOf(e)
      /\ Streaks(Append(s, e)) = StreaksAfter(Streaks(s), e)
      /\ InvalidStreak(Append(s, e)) = NextInvalid(InvalidStreak(s), e)
      /\ Eligible(Append(s, e)) = NextEligible(Eligible(s), e)
  BY RebuiltAfter
<1>2. /\ Count("model_started", Append(s, e)) = Count("model_started", s)
      /\ Count("tool_started", Append(s, e)) = Count("tool_started", s)
  BY CountAfter
<1>3. e.type # "nudge" => Streaks(Append(s, e)) = Streaks(s)
  BY <1>1 DEF StreaksAfter
<1>4. e.type = "nudge" =>
        /\ Streaks(Append(s, e)).no_action = IF e.value = "no_action" THEN Streaks(s).no_action + 1 ELSE 0
        /\ Streaks(Append(s, e)).length = IF e.value = "length" THEN Streaks(s).length + 1 ELSE 0
  <2> SUFFICES ASSUME e.type = "nudge"
               PROVE  LET after == StreaksAfter(Streaks(s), e)
                      IN  /\ after.no_action = IF e.value = "no_action" THEN Streaks(s).no_action + 1 ELSE 0
                          /\ after.length = IF e.value = "length" THEN Streaks(s).length + 1 ELSE 0
    BY <1>1
  <2>1. StreaksAfter(Streaks(s), e) =
          [k \in {"no_action", "length"} |-> IF k = e.value THEN Streaks(s)[k] + 1 ELSE 0]
    BY DEF StreaksAfter
  <2> QED
    BY <2>1
<1>5. /\ e.type # "tool_finished" =>
                InvalidStreak(Append(s, e)) = InvalidStreak(s) /\ Eligible(Append(s, e)) = Eligible(s)
      /\ e.type = "tool_finished" =>
                /\ InvalidStreak(Append(s, e)) = IF e.value = "invalid" THEN InvalidStreak(s) + 1 ELSE 0
                /\ Eligible(Append(s, e)) = (e.value = "done")
  BY <1>1 DEF NextInvalid, NextEligible
<1> QED
  BY <1>1, <1>2, <1>3, <1>4, <1>5

\* A log with a checkpoint has a last one, and a resumed run reads it.
LEMMA LastCheckpoint ==
    ASSUME IsLog(log), HasAny("checkpoint")
    PROVE  Holds(log, LastValue("checkpoint"))
<1> DEFINE Checkpoints == {i \in 1 .. Len(log) : log[i].type = "checkpoint"}
<1>1. Len(log) \in Nat
  BY DEF IsLog
<1>2. Checkpoints # {} /\ Checkpoints \in SUBSET Int
  BY <1>1 DEF HasAny
<1>3. IsFiniteSet(Checkpoints)
  <2>1. IsFiniteSet(1 .. Len(log))
    BY <1>1, FS_Interval
  <2>2. Checkpoints \subseteq 1 .. Len(log)
    OBVIOUS
  <2> QED
    BY <2>1, <2>2, FS_Subset
<1>8. Replays!Numbers(Checkpoints)
  <2>1. Replays!IsFiniteSet(Checkpoints)
    BY <1>3 DEF IsFiniteSet, Replays!IsFiniteSet
  <2> HIDE DEF Checkpoints
  <2> QED
    BY <1>2, <2>1 DEF Replays!Numbers
<1> HIDE DEF Checkpoints
<1>4. PICK n \in Checkpoints : \A y \in Checkpoints : n >= y
  BY <1>8, Replays!GreatestOf
<1>5. n \in 1 .. Len(log) /\ log[n].type = "checkpoint"
  BY <1>4 DEF Checkpoints
<1>6. \A j \in n + 1 .. Len(log) : log[j].type # "checkpoint"
  <2> SUFFICES ASSUME NEW j \in n + 1 .. Len(log), log[j].type = "checkpoint" PROVE FALSE
    OBVIOUS
  <2>1. j \in Checkpoints
    BY <1>1, <1>5 DEF Checkpoints
  <2>2. n >= j
    BY <1>4, <2>1
  <2> QED
    BY <1>1, <1>5, <2>2
<1>7. Holds(log, log[n].value)
  BY <1>5, <1>6 DEF Holds
<1> QED
  BY <1>7, HoldsLast

\* An event that is no checkpoint leaves the last one.
LEMMA ShowsAfter ==
    ASSUME IsLog(log), Shows, NEW e, e.type # "checkpoint", log' = Append(log, e), snapshot' = snapshot
    PROVE  Shows'
<1>1. PICK S : log \in Seq(S)
  BY DEF IsLog
<1>2. Len(log) \in Nat /\ Len(log') = Len(log) + 1 /\ log'[Len(log) + 1] = e
      /\ \A i \in 1 .. Len(log) : log'[i] = log[i]
  BY <1>1
<1>3. HasAny("checkpoint")' => HasAny("checkpoint")
  <2> SUFFICES ASSUME NEW i \in 1 .. Len(log'), log'[i].type = "checkpoint"
               PROVE  \E j \in 1 .. Len(log) : log[j].type = "checkpoint"
    BY DEF HasAny
  <2> QED
    BY <1>2
<1>4. Holds(log, snapshot) => Holds(log', snapshot)
  BY Recorded
<1> QED
  BY <1>3, <1>4 DEF Shows

\* A run that goes where nothing is remembered, or begins over.
LEMMA Forgets ==
    ASSUME DOMAIN loop' = LoopFields, pc' \notin Remembering
    PROVE  Memory'
BY DEF Memory, Remembering, Shows

\* A run that keeps its memory, and may go on.
LEMMA Remembers ==
    ASSUME Memory, UNCHANGED <<log, loop, snapshot>>,
           pc' \in Remembering => pc \in Remembering /\ (pc = "tool" => pc' = "tool")
    PROVE  Memory'
<1>1. HasAny("checkpoint")' = HasAny("checkpoint")
  BY DEF HasAny
<1> QED
  BY <1>1 DEF Memory, Remembering, Shows

\* The history is read: what is rebuilt is remembered.
LEMMA HistoryRemembers ==
    ASSUME Inv, Memory, History
    PROVE  Memory'
<1>1. IsLog(log)
  BY DEF Inv
<1>2. CASE Refused
  BY <1>2, Forgets DEF History, Finish, Goto, Memory, Remembering, Shows
<1>3. CASE ~Refused
  <2>1. /\ DOMAIN loop' = LoopFields /\ Recalls(loop', log) /\ loop'.eligible = Eligible(log)
        /\ pc' # "tool"
    BY <1>3 DEF History, Rebuild, LoopFields, Recalls, Goto
  <2>2. HasAny("checkpoint") => Holds(log, snapshot')
    <3>1. HasAny("checkpoint") => snapshot' = LastValue("checkpoint")
      BY <1>3 DEF History
    <3> QED
      BY <1>1, <3>1, LastCheckpoint
  <2>3. CASE UNCHANGED log
    <3>1. HasAny("checkpoint")' = HasAny("checkpoint")
      BY <2>3 DEF HasAny
    <3> QED
      BY <2>1, <2>2, <2>3, <3>1 DEF Memory, Remembering, Shows
  <2>4. CASE Record(Event("started", 0, None))
    <3> DEFINE e == Event("started", 0, None)
    <3>1. log' = Append(log, e) /\ e.type = "started"
      BY <2>4 DEF Record, Event
    <3> HIDE DEF e
    <3>2. Recalls(loop', log') /\ Eligible(log') = Eligible(log)
      BY <1>1, <2>1, <3>1, QuietAfter
    <3>3. PICK S : log \in Seq(S)
      BY <1>1 DEF IsLog
    <3>4. HasAny("checkpoint")' => HasAny("checkpoint")
      BY <3>1, <3>3 DEF HasAny
    <3>5. HasAny("checkpoint")' => Holds(log', snapshot')
      BY <1>1, <2>2, <3>1, <3>4, Recorded
    <3> QED
      BY <2>1, <3>2, <3>5 DEF Memory, Remembering, Shows
  <2> QED
    BY <1>3, <2>3, <2>4 DEF History
<1> QED
  BY <1>2, <1>3

\* The workspace a context begins with is saved.
LEMMA FirstRemembers ==
    ASSUME Inv, Memory, FirstCheckpoint
    PROVE  Memory'
<1> DEFINE e == Event("checkpoint", 0, Inputs)
<1>1. log' = Append(log, e) /\ e.type = "checkpoint" /\ e.value = snapshot' /\ IsLog(log)
  BY DEF FirstCheckpoint, Record, Event, Inv
<1>2. pc = "begun" /\ pc' = "create" /\ loop' = loop
  BY DEF FirstCheckpoint, Goto
<1> HIDE DEF e
<1>3. Recalls(loop, log) /\ loop.eligible = Eligible(log) /\ DOMAIN loop = LoopFields
  BY <1>2 DEF Memory, Remembering, Shows
<1>4. Recalls(loop, log') /\ Eligible(log') = Eligible(log)
  BY <1>1, <1>3, QuietAfter
<1>5. Holds(log', snapshot')
  BY <1>1, Recorded
<1> QED
  BY <1>2, <1>3, <1>4, <1>5 DEF Memory, Remembering, Shows

\* The model is asked: one more call.
LEMMA AskRemembers ==
    ASSUME Inv, Memory, Ask
    PROVE  Memory'
<1> DEFINE e == Event("model_started", loop.calls + 1, None)
<1>1. log' = Append(log, e) /\ e.type = "model_started" /\ snapshot' = snapshot /\ IsLog(log)
  BY DEF Ask, Record, Event, Inv
<1>2. pc = "turn" /\ pc' = "model" /\ loop' = [loop EXCEPT !.calls = @ + 1]
  BY DEF Ask, Goto
<1> HIDE DEF e
<1>3. Recalls(loop, log) /\ loop.eligible = Eligible(log) /\ DOMAIN loop = LoopFields /\ Shows
  BY <1>2 DEF Memory, Shows, Remembering
<1>4. /\ DOMAIN loop' = LoopFields /\ loop'.calls = loop.calls + 1
      /\ \A f \in LoopFields \ {"calls"} : loop'[f] = loop[f]
  BY <1>2, <1>3 DEF LoopFields
<1>5. /\ Replay(log') = Replay(log) /\ InvalidStreak(log') = InvalidStreak(log)
      /\ Eligible(log') = Eligible(log) /\ Streaks(log') = Streaks(log)
      /\ Count("model_started", log') = Count("model_started", log) + 1
      /\ Count("tool_started", log') = Count("tool_started", log)
  BY <1>1, StartAfter
<1>6. Recalls(loop', log') /\ loop'.eligible = Eligible(log')
  BY <1>3, <1>4, <1>5 DEF Recalls, LoopFields
<1>7. Shows'
  BY <1>1, <1>3, ShowsAfter
<1> QED
  BY <1>2, <1>4, <1>6, <1>7 DEF Memory, Shows, Remembering

\* The model has replied: one more message.
LEMMA ReplyRemembers ==
    ASSUME Inv, Memory, NEW kind, Reply(kind)
    PROVE  Memory'
<1> DEFINE e == Event("model_finished", loop.calls, kind)
<1>1. log' = Append(log, e) /\ e.type = "model_finished" /\ snapshot' = snapshot /\ IsLog(log)
  BY DEF Reply, Record, Event, Inv
<1>2. pc = "model" /\ pc' = "replied" /\ loop' = [loop EXCEPT !.messages = loop.messages \o MessageOf(e)]
  BY DEF Reply, Goto, Said
<1> HIDE DEF e
<1>3. Recalls(loop, log) /\ loop.eligible = Eligible(log) /\ DOMAIN loop = LoopFields /\ Shows
  BY <1>2 DEF Memory, Shows, Remembering
<1>4. /\ DOMAIN loop' = LoopFields /\ loop'.messages = loop.messages \o MessageOf(e)
      /\ \A f \in LoopFields \ {"messages"} : loop'[f] = loop[f]
  BY <1>2, <1>3 DEF LoopFields
<1>5. /\ Replay(log') = Replay(log) \o MessageOf(e) /\ InvalidStreak(log') = InvalidStreak(log)
      /\ Eligible(log') = Eligible(log) /\ Streaks(log') = Streaks(log)
      /\ Count("model_started", log') = Count("model_started", log)
      /\ Count("tool_started", log') = Count("tool_started", log)
  BY <1>1, MessageAfter
<1>6. Recalls(loop', log') /\ loop'.eligible = Eligible(log')
  BY <1>3, <1>4, <1>5 DEF Recalls, LoopFields
<1>7. Shows'
  BY <1>1, <1>3, ShowsAfter
<1> QED
  BY <1>2, <1>4, <1>6, <1>7 DEF Memory, Shows, Remembering

\* A log with one more event is a log.
LEMMA OneMore ==
    ASSUME NEW s, IsLog(s), NEW e
    PROVE  IsLog(Append(s, e))
<1>1. PICK S : s \in Seq(S)
  BY DEF IsLog
<1>2. s \in Seq(S \cup {e})
  BY <1>1
<1>3. Append(s, e) \in Seq(S \cup {e})
  BY <1>2
<1> QED
  BY <1>3 DEF IsLog

\* A reply without a complete action: one more message, and a streak.
LEMMA NudgeRemembers ==
    ASSUME Inv, Memory, pc = "replied", snapshot' = snapshot, NEW kind \in {"length", "no_action"}, Nudged(kind)
    PROVE  Memory'
<1> DEFINE e == Event("nudge", loop.calls, kind)
           streak == [loop EXCEPT !.noAction = IF kind = "no_action" THEN @ + 1 ELSE 0,
                                  !.lengths = IF kind = "length" THEN @ + 1 ELSE 0]
<1>1. IsLog(log) /\ Recalls(loop, log) /\ loop.eligible = Eligible(log) /\ DOMAIN loop = LoopFields /\ Shows
  BY DEF Inv, Memory, Shows, Remembering
<1>2. CASE pc' = "closing"
  <2>1. loop' = loop
    BY <1>2 DEF Nudged, Goto
  <2> QED
    BY <1>1, <1>2, <2>1, Forgets DEF Remembering
<1>3. CASE pc' # "closing"
  <2>1. /\ log' = Append(log, e) /\ pc' = "turn"
        /\ loop' = [streak EXCEPT !.messages = loop.messages \o MessageOf(e)]
    BY <1>3 DEF Nudged, NudgeSaved, Record, Finish, Goto, Said
  <2>2. e.type = "nudge" /\ e.value = kind
    BY DEF Event
  <2>3. /\ DOMAIN streak = LoopFields
        /\ streak.noAction = (IF kind = "no_action" THEN loop.noAction + 1 ELSE 0)
        /\ streak.lengths = (IF kind = "length" THEN loop.lengths + 1 ELSE 0)
        /\ \A f \in LoopFields \ {"noAction", "lengths"} : streak[f] = loop[f]
    BY <1>1 DEF LoopFields
  <2> HIDE DEF e, streak
  <2>4. /\ DOMAIN loop' = LoopFields /\ loop'.messages = loop.messages \o MessageOf(e)
        /\ \A f \in LoopFields \ {"messages"} : loop'[f] = streak[f]
    BY <2>1, <2>3 DEF LoopFields
  <2>5. /\ Replay(log') = Replay(log) \o MessageOf(e) /\ InvalidStreak(log') = InvalidStreak(log)
        /\ Eligible(log') = Eligible(log)
        /\ Streaks(log').no_action = (IF e.value = "no_action" THEN Streaks(log).no_action + 1 ELSE 0)
        /\ Streaks(log').length = (IF e.value = "length" THEN Streaks(log).length + 1 ELSE 0)
        /\ Count("model_started", log') = Count("model_started", log)
        /\ Count("tool_started", log') = Count("tool_started", log)
    BY <1>1, <2>1, <2>2, MessageAfter
  <2>6. Recalls(loop', log') /\ loop'.eligible = Eligible(log')
    BY <1>1, <2>2, <2>3, <2>4, <2>5 DEF Recalls, LoopFields
  <2>7. Shows'
    BY <1>1, <2>1, <2>2, ShowsAfter
  <2> QED
    BY <2>1, <2>4, <2>6, <2>7 DEF Memory, Shows, Remembering
<1> QED
  BY <1>2, <1>3

\* A tool begins: one more, and the end of the streaks.
LEMMA BeginRemembers ==
    ASSUME NEW s, IsLog(s), Recalls(loop, s), DOMAIN loop = LoopFields, BeginTool(s)
    PROVE  /\ DOMAIN loop' = LoopFields /\ Recalls(loop', log') /\ pc' = "tool"
           /\ \E e : e.type = "tool_started" /\ log' = Append(s, e)
<1> DEFINE e == Event("tool_started", loop.calls, None)
<1>1. /\ log' = Append(s, e) /\ e.type = "tool_started" /\ pc' = "tool"
      /\ loop' = [loop EXCEPT !.tools = @ + 1, !.eligible = FALSE, !.noAction = 0, !.lengths = 0]
  BY DEF BeginTool, Event, Goto
<1> HIDE DEF e
<1>2. /\ DOMAIN loop' = LoopFields /\ loop'.tools = loop.tools + 1 /\ loop'.noAction = 0 /\ loop'.lengths = 0
      /\ loop'.messages = loop.messages /\ loop'.calls = loop.calls /\ loop'.invalid = loop.invalid
  BY <1>1 DEF LoopFields
<1>3. /\ Replay(Append(s, e)) = Replay(s) /\ InvalidStreak(Append(s, e)) = InvalidStreak(s)
      /\ Streaks(Append(s, e)) = [no_action |-> 0, length |-> 0]
      /\ Count("model_started", Append(s, e)) = Count("model_started", s)
      /\ Count("tool_started", Append(s, e)) = Count("tool_started", s) + 1
  BY <1>1, StartAfter
<1>4. Recalls(loop', log')
  BY <1>1, <1>2, <1>3 DEF Recalls
<1> QED
  BY <1>1, <1>2, <1>4

\* The reply is acted on, or nudged, or the run gives up.
LEMMA ActRemembers ==
    ASSUME Inv, Memory, Act
    PROVE  Memory'
<1>1. pc = "replied" /\ snapshot' = snapshot
  BY DEF Act
<1>2. IsLog(log) /\ Recalls(loop, log) /\ loop.eligible = Eligible(log) /\ DOMAIN loop = LoopFields /\ Shows
  BY <1>1 DEF Inv, Memory, Shows, Remembering
<1>3. CASE pc' = "closing" /\ loop' = loop
  BY <1>2, <1>3, Forgets DEF Remembering
<1>4. CASE BeginTool(log)
  <2>1. /\ DOMAIN loop' = LoopFields /\ Recalls(loop', log') /\ pc' = "tool"
        /\ \E e : e.type = "tool_started" /\ log' = Append(log, e)
    BY <1>2, <1>4, BeginRemembers
  <2>2. Shows'
    BY <1>1, <1>2, <2>1, ShowsAfter
  <2> QED
    BY <2>1, <2>2 DEF Memory, Shows, Remembering
<1>5. CASE pc' = "recheck" /\ UNCHANGED <<log, loop>>
  BY <1>1, <1>5, Remembers DEF Remembering
<1>6. CASE \E kind \in {"length", "no_action"} : Nudged(kind)
  BY <1>1, <1>6, NudgeRemembers
<1>7. Act => \/ pc' = "closing" /\ loop' = loop
             \/ BeginTool(log)
             \/ pc' = "recheck" /\ UNCHANGED <<log, loop>>
             \/ \E kind \in {"length", "no_action"} : Nudged(kind)
  BY DEF Act, Acted, Finish, Goto
<1> QED
  BY <1>3, <1>4, <1>5, <1>6, <1>7

\* A repeated action begins on a workspace that has changed, which is saved.
LEMMA RecheckRemembers ==
    ASSUME Inv, Memory, NEW content \in Contents, Recheck(content)
    PROVE  Memory'
<1> DEFINE a == Event("checkpoint", loop.calls, content)
<1>1. pc = "recheck" /\ snapshot' = content /\ a.type = "checkpoint" /\ a.value = content
  BY DEF Recheck, Event
<1>2. IsLog(log) /\ Recalls(loop, log) /\ DOMAIN loop = LoopFields
  BY <1>1 DEF Inv, Memory, Remembering, Shows
<1>3. CASE pc' = "closing" /\ loop' = loop
  BY <1>2, <1>3, Forgets DEF Remembering
<1>4. CASE BeginTool(Append(log, a))
  <2> HIDE DEF a
  <2>1. IsLog(Append(log, a)) /\ Recalls(loop, Append(log, a))
    BY <1>1, <1>2, OneMore, QuietAfter
  <2>2. /\ DOMAIN loop' = LoopFields /\ Recalls(loop', log') /\ pc' = "tool"
        /\ \E e : e.type = "tool_started" /\ log' = Append(Append(log, a), e)
    BY <1>2, <1>4, <2>1, BeginRemembers
  <2>3. PICK e : e.type = "tool_started" /\ log' = Append(Append(log, a), e)
    BY <2>2
  <2>4. log' = log \o <<a, e>>
    BY <1>2, <2>3, AtTheEnd
  <2>5. Holds(log', snapshot')
    BY <1>1, <1>2, <2>3, <2>4, RecordedTwo
  <2> QED
    BY <2>2, <2>5 DEF Memory, Remembering, Shows
<1>5. Recheck(content) => (pc' = "closing" /\ loop' = loop) \/ BeginTool(Append(log, a))
  BY DEF Recheck, Finish, Goto
<1> QED
  BY <1>3, <1>4, <1>5

\* The receipt of a tool: a message, the invalid streak and the eligibility, and what it saved.
LEMMA ReceiptRemembers ==
    ASSUME Inv, Memory, pc = "tool", NEW content, NEW how, Receipt(content, how), pc' # "tool"
    PROVE  Memory'
<1> DEFINE a == Event("checkpoint", loop.calls, content)
           e == Event("tool_finished", loop.calls, how)
<1>1. /\ a.type = "checkpoint" /\ a.value = content /\ e.type = "tool_finished" /\ e.value = how
      /\ snapshot' = content /\ log' = log \o <<a, e>>
      /\ loop' = [loop EXCEPT !.messages = loop.messages \o MessageOf(e), !.eligible = (how = "done"),
                              !.invalid = IF how = "invalid" THEN @ + 1 ELSE 0]
  BY DEF Receipt, Event, Said
<1> HIDE DEF a, e
<1>2. IsLog(log) /\ Recalls(loop, log) /\ DOMAIN loop = LoopFields
  BY DEF Inv, Memory, Remembering, Shows
<1> DEFINE s == Append(log, a)
<1>3. IsLog(s) /\ Recalls(loop, s)
  BY <1>1, <1>2, OneMore, QuietAfter
<1>4. log' = Append(s, e)
  BY <1>1, <1>2, AtTheEnd
<1>5. Holds(log', snapshot')
  BY <1>1, <1>2, RecordedTwo
<1> HIDE DEF s
<1>6. /\ DOMAIN loop' = LoopFields /\ loop'.messages = loop.messages \o MessageOf(e)
      /\ loop'.eligible = (how = "done")
      /\ loop'.invalid = (IF how = "invalid" THEN loop.invalid + 1 ELSE 0)
      /\ loop'.calls = loop.calls /\ loop'.tools = loop.tools
      /\ loop'.noAction = loop.noAction /\ loop'.lengths = loop.lengths
  BY <1>1, <1>2 DEF LoopFields
<1>7. /\ Replay(log') = Replay(s) \o MessageOf(e) /\ Streaks(log') = Streaks(s)
      /\ InvalidStreak(log') = (IF e.value = "invalid" THEN InvalidStreak(s) + 1 ELSE 0)
      /\ Eligible(log') = (e.value = "done")
      /\ Count("model_started", log') = Count("model_started", s)
      /\ Count("tool_started", log') = Count("tool_started", s)
  <2>1. e.type = "tool_finished" /\ IsLog(s)
    BY <1>1, <1>3
  <2>2. /\ Replay(Append(s, e)) = Replay(s) \o MessageOf(e) /\ Streaks(Append(s, e)) = Streaks(s)
        /\ InvalidStreak(Append(s, e)) = (IF e.value = "invalid" THEN InvalidStreak(s) + 1 ELSE 0)
        /\ Eligible(Append(s, e)) = (e.value = "done")
        /\ Count("model_started", Append(s, e)) = Count("model_started", s)
        /\ Count("tool_started", Append(s, e)) = Count("tool_started", s)
    BY <2>1, MessageAfter
  <2> QED
    BY <1>4, <2>2
<1>8. Recalls(loop', log') /\ loop'.eligible = Eligible(log')
  BY <1>1, <1>3, <1>6, <1>7 DEF Recalls
<1> QED
  BY <1>5, <1>6, <1>8 DEF Memory, Remembering, Shows

\* What a run knows stays what a restart would rebuild.
LEMMA MemoryIsKept ==
    ASSUME Inv, Memory, [Next]_vars
    PROVE  Memory'
<1>1. DOMAIN loop = LoopFields
  BY DEF Memory, Remembering, Shows
<1>2. CASE UNCHANGED vars \/ Pause \/ Cancel \/ AbortSignal \/ DeadlinePasses
  BY <1>2, Remembers DEF vars, Pause, Cancel, AbortSignal, DeadlinePasses
<1>3. CASE \/ Start \/ EndpointFails \/ Throws \/ EndThrows \/ Crash \/ Steer
           \/ TurnStops \/ ModelFails \/ ToolLost \/ LoopExhausted \/ End \/ Return
           \/ \E ok \in BOOLEAN : OrphansEnd(ok) \/ ValidationEnds(ok) \/ CleanupEnds(ok)
           \/ \E content \in Contents : ValidationCaptured(content)
  <2>1. DOMAIN NoLoop = LoopFields
    BY DEF NoLoop, LoopFields
  <2>2. (loop' = loop \/ loop' = NoLoop) /\ pc' \notin Remembering
    <3>1. CASE Start \/ EndpointFails \/ Throws \/ EndThrows \/ Crash \/ Steer
      BY <3>1 DEF Start, EndpointFails, Throws, EndThrows, Crash, Steer, Forgotten, Finish, Goto, Remembering
    <3>2. CASE TurnStops \/ ModelFails \/ ToolLost \/ LoopExhausted \/ End \/ Return
      BY <3>2 DEF TurnStops, ModelFails, ToolLost, LoopExhausted, End, Return, Forgotten, Finish, Goto, Remembering
    <3>3. CASE \/ \E ok \in BOOLEAN : OrphansEnd(ok) \/ ValidationEnds(ok) \/ CleanupEnds(ok)
               \/ \E content \in Contents : ValidationCaptured(content)
      BY <3>3 DEF OrphansEnd, ValidationEnds, CleanupEnds, ValidationCaptured, Forgotten, Finish, Goto, Remembering
    <3> QED
      BY <1>3, <3>1, <3>2, <3>3
  <2> QED
    BY <1>1, <2>1, <2>2, Forgets
<1>4. CASE \E ok \in BOOLEAN : Create(ok)
  <2>1. /\ pc = "create" /\ pc' \in {"turn", "closing"} /\ UNCHANGED <<log, loop, snapshot>>
    BY <1>4 DEF Create, Finish, Goto
  <2> QED
    BY <2>1, Remembers DEF Remembering
<1>5. CASE \E kind \in Replies : Reply(kind)
  BY <1>5, ReplyRemembers
<1>6. CASE \E content \in Contents : Recheck(content)
  BY <1>6, RecheckRemembers
<1>7. CASE \E content \in Contents : \/ \E how \in ToolOutcomes : ToolEnds(content, how)
                                     \/ \E passed \in BOOLEAN : FinishTool(content, passed)
  <2>1. PICK content \in Contents : \/ \E how \in ToolOutcomes : ToolEnds(content, how)
                                    \/ \E passed \in BOOLEAN : FinishTool(content, passed)
    BY <1>7
  <2>2. pc = "tool" /\ pc' # "tool" /\ \E how : Receipt(content, how)
    BY <2>1 DEF ToolEnds, FinishTool, Saved, Finish, Goto
  <2> QED
    BY <2>2, ReceiptRemembers
<1> QED
  BY <1>2, <1>3, <1>4, <1>5, <1>6, <1>7, HistoryRemembers, FirstRemembers, AskRemembers, ActRemembers
     DEF Next, RunStep

-----------------------------------------------------------------------------
(* The theorems. *)

(***************************************************************************)
(* "unresolved_operation_no_replay" (runner.ts:350-357): with an operation *)
(* of unknown outcome in the log, nothing is asked, executed, validated or *)
(* completed, in this run or any later one.                                *)
(***************************************************************************)
THEOREM UnknownStaysLast == Spec => UnknownIsLast
<1>1. Inv /\ [Next]_vars =>
        [\A e \in Appended : e.type \in Starts =>
          ~\E i \in 1 .. Len(log) : OpenModel(log[i]) \/ OpenTool(log[i]) \/ OpenValidation(log[i])]_vars
  BY StartsOnly DEF AllEnded, Models, Tools, Validations
<1> QED
  BY <1>1, InitKeeps, Inductive, PTL DEF Spec, UnknownIsLast

(***************************************************************************)
(* "A delayed timer must not admit a late action" (runner.ts:499-507):     *)
(* after the deadline or a cancellation nothing starts.                    *)
(***************************************************************************)
THEOREM LateStartsNothing == Spec => NothingStartsLate
<1>1. Inv /\ [Next]_vars => [(cancelled \/ late) => \A e \in Appended : e.type \notin Starts]_vars
  BY StartsOnly DEF Stopping
<1> QED
  BY <1>1, InitKeeps, Inductive, PTL DEF Spec, NothingStartsLate

(***************************************************************************)
(* "Completion uses exactly these immutable bytes" (runner.ts:619-639):    *)
(* what a context completes with passed every check and is its last        *)
(* checkpoint.                                                             *)
(***************************************************************************)
THEOREM CompletionVerified == Spec => CompletedAsVerified
<1>1. Inv /\ [Next]_vars =>
        [\A e \in Appended : e.type = "completed" => e.value = checked /\ e.value = LastValue("checkpoint")]_vars
  <2> SUFFICES ASSUME Inv, [Next]_vars, NEW e \in Appended, e.type = "completed"
               PROVE  e.value = checked /\ e.value = LastValue("checkpoint")
    OBVIOUS
  <2>1. pc = "ending" /\ pending /\ e.value = snapshot
    BY StartsOnly DEF Starts
  <2>2. checked = snapshot /\ Holds(log, snapshot) /\ IsLog(log)
    BY <2>1 DEF Inv, AboutToComplete
  <2> QED
    BY <2>1, <2>2, HoldsLast
<1> QED
  BY <1>1, InitKeeps, Inductive, PTL DEF Spec, CompletedAsVerified

(***************************************************************************)
(* The counters and streaks of a run begin from the history                *)
(* (runner.ts:356-410): over all the runs of a context, a run that asks    *)
(* the model knows what a restart would rebuild from the log.              *)
(***************************************************************************)
THEOREM MemoryKept == Spec => []MemoryIsDurable
<1>1. Init => Memory
  <2> SUFFICES ASSUME Init PROVE Memory
    OBVIOUS
  <2>1. pc = "stopped" /\ DOMAIN loop = LoopFields
    BY DEF Init, NoLoop, LoopFields
  <2> QED
    BY <2>1 DEF Memory, Remembering, Shows
<1>2. Inv /\ Memory => MemoryIsDurable
  <2> SUFFICES ASSUME Inv, Memory, pc = "turn"
               PROVE  /\ Recalls(loop, log) /\ loop.eligible = Eligible(log)
                      /\ HasAny("checkpoint") => snapshot = LastValue("checkpoint")
    BY DEF MemoryIsDurable, Recalls
  <2>1. Recalls(loop, log) /\ loop.eligible = Eligible(log) /\ (HasAny("checkpoint") => Holds(log, snapshot))
    BY DEF Memory, Remembering, Shows
  <2>2. IsLog(log)
    BY DEF Inv
  <2> QED
    BY <2>1, <2>2, HoldsLast
<1> QED
  BY <1>1, <1>2, InitKeeps, Inductive, MemoryIsKept, PTL DEF Spec

=============================================================================
