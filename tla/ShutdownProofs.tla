--------------------------- MODULE ShutdownProofs ---------------------------
(***************************************************************************)
(* The telemetry writer inside the process that is being shut down, for    *)
(* every set of records and stream clients and every batch size: its       *)
(* invariants, what a regular exit guarantees, and its refinement of the   *)
(* first-in first-out log.                                                 *)
(***************************************************************************)
EXTENDS Shutdown, SequenceTheorems, TLAPS

(* ------------------------------ Sequences -------------------------------- *)

(* Nothing is a member of the empty sequence.                               *)
LEMMA MembersEmpty == Members(<< >>) = {}
  BY DEF Members

(* Appending adds one member.                                               *)
LEMMA MembersAppend ==
  ASSUME NEW S, NEW s \in Seq(S), NEW e \in S
  PROVE  Members(Append(s, e)) = Members(s) \union {e}
  <1>1. /\ DOMAIN s = 1 .. Len(s) /\ Len(s) \in Nat
        /\ DOMAIN Append(s, e) = 1 .. Len(s) + 1
    BY AppendProperties, LenProperties
  <1>2. /\ \A i \in 1 .. Len(s) : Append(s, e)[i] = s[i]
        /\ Append(s, e)[Len(s) + 1] = e
    BY AppendProperties
  <1>3. ASSUME NEW x
        PROVE  x \in Members(Append(s, e)) <=> x \in Members(s) \/ x = e
    BY <1>1, <1>2 DEF Members
  <1>4. QED
    BY <1>3

(* The members of a concatenation are those of its parts.                   *)
LEMMA MembersConcat ==
  ASSUME NEW S, NEW s \in Seq(S), NEW t \in Seq(S)
  PROVE  Members(s \o t) = Members(s) \union Members(t)
  <1>1. /\ DOMAIN s = 1 .. Len(s) /\ Len(s) \in Nat
        /\ DOMAIN t = 1 .. Len(t) /\ Len(t) \in Nat
        /\ DOMAIN (s \o t) = 1 .. Len(s) + Len(t)
    BY ConcatProperties, LenProperties
  <1>2. \A i \in 1 .. Len(s) + Len(t) :
          (s \o t)[i] = IF i <= Len(s) THEN s[i] ELSE t[i - Len(s)]
    BY ConcatProperties
  <1>3. ASSUME NEW x, x \in Members(s)
        PROVE  x \in Members(s \o t)
    <2>1. PICK i \in 1 .. Len(s) : x = s[i]
      BY <1>1, <1>3 DEF Members
    <2>2. i \in 1 .. Len(s) + Len(t) /\ (s \o t)[i] = x
      BY <1>1, <1>2, <2>1
    <2>3. QED
      BY <1>1, <2>2 DEF Members
  <1>4. ASSUME NEW x, x \in Members(t)
        PROVE  x \in Members(s \o t)
    <2>1. PICK i \in 1 .. Len(t) : x = t[i]
      BY <1>1, <1>4 DEF Members
    <2>2. /\ i + Len(s) \in 1 .. Len(s) + Len(t)
          /\ ~(i + Len(s) <= Len(s)) /\ (i + Len(s)) - Len(s) = i
      BY <1>1
    <2>3. (s \o t)[i + Len(s)] = x
      BY <1>2, <2>1, <2>2
    <2>4. QED
      BY <1>1, <2>2, <2>3 DEF Members
  <1>5. ASSUME NEW x, x \in Members(s \o t)
        PROVE  x \in Members(s) \union Members(t)
    <2>1. PICK i \in 1 .. Len(s) + Len(t) : x = (s \o t)[i]
      BY <1>1, <1>5 DEF Members
    <2>2. CASE i <= Len(s)
      BY <1>1, <1>2, <2>1, <2>2 DEF Members
    <2>3. CASE ~(i <= Len(s))
      <3>1. i - Len(s) \in 1 .. Len(t)
        BY <1>1, <2>3
      <3>2. QED
        BY <1>1, <1>2, <2>1, <2>3, <3>1 DEF Members
    <2>4. QED
      BY <2>2, <2>3
  <1>6. QED
    BY <1>3, <1>4, <1>5

(* The first of a non-empty sequence and the rest of it.                    *)
LEMMA HeadTail ==
  ASSUME NEW S, NEW s \in Seq(S), s # << >>
  PROVE  /\ Head(s) \in S /\ Tail(s) \in Seq(S)
         /\ Head(s) \in Members(s) /\ Members(Tail(s)) \subseteq Members(s)
  <1>1. /\ Head(s) \in S /\ Tail(s) \in Seq(S) /\ Len(Tail(s)) = Len(s) - 1
        /\ \A i \in 1 .. Len(Tail(s)) : Tail(s)[i] = s[i + 1]
    BY HeadTailProperties
  <1>2. /\ Len(s) \in Nat \ {0} /\ DOMAIN s = 1 .. Len(s)
        /\ DOMAIN Tail(s) = 1 .. Len(Tail(s))
    BY <1>1, EmptySeq, LenProperties
  <1>3. Head(s) \in Members(s)
    <2>1. Head(s) = s[1]
      OBVIOUS
    <2>2. QED
      BY <1>2, <2>1 DEF Members
  <1>4. ASSUME NEW x \in Members(Tail(s))
        PROVE  x \in Members(s)
    <2>1. PICK i \in 1 .. Len(Tail(s)) : x = Tail(s)[i]
      BY <1>2 DEF Members
    <2>2. i + 1 \in DOMAIN s /\ x = s[i + 1]
      BY <1>1, <1>2, <2>1
    <2>3. QED
      BY <2>2 DEF Members
  <1>5. QED
    BY <1>1, <1>3, <1>4

(* Dropping the first part of a concatenation leaves the second, taking it  *)
(* leaves the first.                                                        *)
LEMMA SplitConcat ==
  ASSUME NEW S, NEW s \in Seq(S), NEW t \in Seq(S)
  PROVE  /\ SubSeq(s \o t, 1, Len(s)) = s
         /\ SubSeq(s \o t, Len(s) + 1, Len(s \o t)) = t
  <1>1. /\ Len(s) \in Nat /\ Len(t) \in Nat
        /\ s \o t \in Seq(S) /\ Len(s \o t) = Len(s) + Len(t)
        /\ \A i \in 1 .. Len(s) + Len(t) :
             (s \o t)[i] = IF i <= Len(s) THEN s[i] ELSE t[i - Len(s)]
    BY ConcatProperties, LenProperties
  <1>2. SubSeq(s \o t, 1, Len(s)) = s
    <2>1. /\ SubSeq(s \o t, 1, Len(s)) \in Seq(S)
          /\ Len(SubSeq(s \o t, 1, Len(s))) = Len(s)
          /\ \A i \in 1 .. Len(s) : SubSeq(s \o t, 1, Len(s))[i] = (s \o t)[i]
      <3>1. \A i \in 1 .. Len(s) : (s \o t)[i] \in S
        BY <1>1, ElementOfSeq
      <3>2. QED
        BY <1>1, <3>1, SubSeqProperties
    <2>2. \A i \in 1 .. Len(s) : SubSeq(s \o t, 1, Len(s))[i] = s[i]
      BY <1>1, <2>1
    <2>3. QED
      BY <2>1, <2>2, SeqEqual
  <1>3. SubSeq(s \o t, Len(s) + 1, Len(s \o t)) = t
    <2> DEFINE rest == SubSeq(s \o t, Len(s) + 1, Len(s) + Len(t))
    <2>1. /\ rest \in Seq(S) /\ Len(rest) = Len(t)
          /\ \A i \in 1 .. Len(t) : rest[i] = (s \o t)[Len(s) + i]
      <3>1. \A i \in Len(s) + 1 .. Len(s) + Len(t) : (s \o t)[i] \in S
        BY <1>1, ElementOfSeq
      <3>2. /\ rest \in Seq(S)
            /\ Len(rest) = IF Len(s) + 1 <= Len(s) + Len(t)
                             THEN (Len(s) + Len(t)) - (Len(s) + 1) + 1 ELSE 0
            /\ \A i \in 1 .. (Len(s) + Len(t)) - (Len(s) + 1) + 1 :
                 rest[i] = (s \o t)[(Len(s) + 1) + i - 1]
        BY <1>1, <3>1, SubSeqProperties
      <3>3. /\ (Len(s) + Len(t)) - (Len(s) + 1) + 1 = Len(t)
            /\ Len(s) + 1 <= Len(s) + Len(t) <=> Len(t) # 0
            /\ \A i \in 1 .. Len(t) : (Len(s) + 1) + i - 1 = Len(s) + i
        BY <1>1
      <3>4. QED
        BY <3>2, <3>3
    <2>2. ASSUME NEW i \in 1 .. Len(t)
          PROVE  rest[i] = t[i]
      <3>1. /\ Len(s) + i \in 1 .. Len(s) + Len(t)
            /\ ~(Len(s) + i <= Len(s)) /\ (Len(s) + i) - Len(s) = i
        BY <1>1
      <3>2. QED
        BY <1>1, <2>1, <3>1
    <2>3. rest = t
      BY <2>1, <2>2, SeqEqual
    <2>4. QED
      BY <1>1, <2>3
  <1>4. QED
    BY <1>2, <1>3

(* ------------------------------ The writer ------------------------------- *)

(* The inductive invariant of the writer: its invariants, and that close()  *)
(* is called at most once and after the last record, so that the INSERT it  *)
(* started left nothing behind.                                             *)
WriterInv ==
  /\ TypeOK /\ FlushIsDue
  /\ closing = "resolved" => closed /\ buffer = << >>
  /\ owner = "close" => closed /\ buffer = << >>
  /\ "close" \in Members(waiters) => closed

(* What no step of the writer does: open it again, fill a drained buffer,   *)
(* or make up a record.                                                     *)
StaysDrained == closed => closed' /\ (buffer = << >> => buffer' = << >>)

(* An INSERT takes the rows out of the buffer, whoever starts it (write.ts  *)
(* 36-41).                                                                  *)
LEMMA InsertEffect ==
  ASSUME NEW caller \in Caller, NEW rows \in Seq(Events), rows # << >>,
         Insert(caller, rows)
  PROVE  /\ buffer' = << >> /\ batch' = rows /\ owner' = caller /\ timer' = FALSE
         /\ owner' # "none" /\ buffer' \in Seq(Events) /\ batch' \in Seq(Events)
         /\ batch' \o buffer' = rows
  <1>1. << >> \in Seq(Events) /\ rows \o << >> = rows
    BY EmptySeq, ConcatEmptySeq
  <1>2. QED
    BY <1>1 DEF Insert, Caller

(* flushNow() keeps the writer's state in order, and what it leaves in the  *)
(* buffer somebody is waiting to flush.                                     *)
LEMMA FlushNowEffect ==
  ASSUME WriterInv, NEW caller \in Caller, NEW rows \in Seq(Events),
         NEW armed \in BOOLEAN, FlushNow(caller, rows, armed)
  PROVE  /\ buffer' \in Seq(Events) /\ batch' \in Seq(Events)
         /\ timer' \in BOOLEAN /\ waiters' \in Seq(Caller)
         /\ owner' \in Caller \union {"none"}
         /\ closing' \in {"none", "pending", "resolved", "rejected"}
         /\ owner' = "none" <=> batch' = << >>
         /\ owner' = "none" => waiters' = << >>
         /\ batch' \o buffer' = batch \o rows
         /\ buffer' = << >> \/ (buffer' = rows /\ waiters' # << >>)
         /\ Members(waiters') \subseteq Members(waiters) \union {caller}
         /\ owner' = owner \/ (owner' = caller /\ buffer' = << >>)
         /\ \/ closing' = closing
            \/ caller = "close" /\ closing' = "pending"
            \/ caller = "close" /\ buffer' = << >>
  <1>1. TypeOK
    BY DEF WriterInv
  <1>2. CASE owner # "none"
    <2>1. /\ waiters' = Append(waiters, caller)
          /\ closing' = Resumed({caller}, "pending")
          /\ buffer' = rows /\ timer' = armed /\ UNCHANGED << batch, owner >>
      BY <1>2 DEF FlushNow
    <2>2. /\ waiters' \in Seq(Caller) /\ waiters' # << >>
          /\ Members(waiters') = Members(waiters) \union {caller}
      BY <1>1, <2>1, AppendProperties, MembersAppend DEF TypeOK
    <2>3. /\ closing' \in {"none", "pending", "resolved", "rejected"}
          /\ closing' = closing \/ (caller = "close" /\ closing' = "pending")
      BY <1>1, <2>1 DEF Resumed, TypeOK
    <2>4. QED
      BY <1>1, <1>2, <2>1, <2>2, <2>3 DEF TypeOK
  <1>3. CASE owner = "none" /\ rows = << >>
    <2>1. /\ closing' = Resumed({caller}, "resolved")
          /\ buffer' = rows /\ timer' = armed /\ UNCHANGED << batch, owner, waiters >>
      BY <1>3 DEF FlushNow
    <2>2. /\ closing' \in {"none", "pending", "resolved", "rejected"}
          /\ closing' = closing \/ caller = "close"
      BY <1>1, <2>1 DEF Resumed, TypeOK
    <2>3. QED
      BY <1>1, <1>3, <2>1, <2>2 DEF TypeOK
  <1>4. CASE owner = "none" /\ rows # << >>
    <2>1. /\ Insert(caller, rows) /\ closing' = Resumed({caller}, "pending")
          /\ UNCHANGED waiters
      BY <1>4 DEF FlushNow
    <2>2. /\ buffer' = << >> /\ batch' = rows /\ owner' = caller /\ timer' = FALSE
          /\ owner' # "none" /\ buffer' \in Seq(Events) /\ batch' \in Seq(Events)
          /\ batch' \o buffer' = rows
      BY <1>4, <2>1, InsertEffect
    <2>3. /\ closing' \in {"none", "pending", "resolved", "rejected"}
          /\ closing' = closing \/ (caller = "close" /\ closing' = "pending")
      BY <1>1, <2>1 DEF Resumed, TypeOK
    <2>4. batch \o rows = rows
      BY <1>1, <1>4, ConcatEmptySeq DEF TypeOK
    <2>5. QED
      BY <1>1, <1>4, <2>1, <2>2, <2>3, <2>4 DEF TypeOK
  <1>5. QED
    BY <1>2, <1>3, <1>4

(* write() puts its record at the end of the line (write.ts 81-91).         *)
LEMMA WriteEffect ==
  ASSUME WriterInv, NEW e \in Events, Write(e)
  PROVE  /\ WriterInv' /\ StaysDrained
         /\ batch' \o buffer' = Append(batch \o buffer, e)
         /\ UNCHANGED << stored, lost >>
  <1> DEFINE rows == Append(buffer, e)
  <1>1. TypeOK /\ ~closed /\ closing # "resolved" /\ owner # "close"
    BY DEF WriterInv, Write
  <1>2. /\ rows \in Seq(Events) /\ rows # << >>
        /\ batch \o rows = Append(batch \o buffer, e)
    <2>1. rows \in Seq(Events) /\ rows # << >> /\ rows = buffer \o << e >>
      BY <1>1, AppendProperties, AppendIsConcat DEF TypeOK
    <2>2. << e >> \in Seq(Events) /\ batch \o buffer \in Seq(Events)
      BY <1>1, ConcatProperties DEF TypeOK
    <2>3. /\ batch \o (buffer \o << e >>) = (batch \o buffer) \o << e >>
          /\ (batch \o buffer) \o << e >> = Append(batch \o buffer, e)
      BY <1>1, <2>2, ConcatAssociative, AppendIsConcat DEF TypeOK
    <2>4. QED
      BY <2>1, <2>3
  <1>3. CASE Len(rows) >= BatchSize /\ FlushNow("write", rows, timer)
    <2>1. "write" \in Caller /\ timer \in BOOLEAN
      BY <1>1 DEF Caller, TypeOK
    <2>2. /\ buffer' \in Seq(Events) /\ batch' \in Seq(Events)
          /\ timer' \in BOOLEAN /\ waiters' \in Seq(Caller)
          /\ owner' \in Caller \union {"none"}
          /\ closing' \in {"none", "pending", "resolved", "rejected"}
          /\ owner' = "none" <=> batch' = << >>
          /\ owner' = "none" => waiters' = << >>
          /\ batch' \o buffer' = batch \o rows
          /\ buffer' = << >> \/ waiters' # << >>
          /\ Members(waiters') \subseteq Members(waiters) \union {"write"}
          /\ owner' \in {owner, "write"} /\ closing' = closing
      BY <1>2, <1>3, <2>1, FlushNowEffect
    <2>3. UNCHANGED << closed, stored, lost >>
      BY DEF Write
    <2>4. WriterInv'
      BY <1>1, <2>2, <2>3 DEF WriterInv, TypeOK, FlushIsDue
    <2>5. QED
      BY <1>1, <1>2, <2>2, <2>3, <2>4 DEF StaysDrained
  <1>4. CASE /\ Len(rows) < BatchSize /\ buffer' = rows /\ timer' = TRUE
             /\ UNCHANGED << batch, owner, waiters, closing >>
    <2>1. UNCHANGED << closed, stored, lost >>
      BY DEF Write
    <2>2. WriterInv'
      BY <1>1, <1>2, <1>4, <2>1 DEF WriterInv, TypeOK, FlushIsDue, Members
    <2>3. QED
      BY <1>1, <1>2, <1>4, <2>1, <2>2 DEF StaysDrained
  <1>5. QED
    BY <1>3, <1>4 DEF Write

(* The timer's flush moves records along the line, or waits (write.ts       *)
(* 72-77).                                                                  *)
LEMMA TimerFiresEffect ==
  ASSUME WriterInv, TimerFires
  PROVE  /\ WriterInv' /\ StaysDrained
         /\ batch' \o buffer' = batch \o buffer
         /\ UNCHANGED << stored, lost >>
  <1>1. TypeOK /\ FlushNow("timer", buffer, FALSE)
    BY DEF WriterInv, TimerFires
  <1>2. "timer" \in Caller /\ FALSE \in BOOLEAN /\ buffer \in Seq(Events)
    BY <1>1 DEF Caller, TypeOK
  <1>3. /\ buffer' \in Seq(Events) /\ batch' \in Seq(Events)
        /\ timer' \in BOOLEAN /\ waiters' \in Seq(Caller)
        /\ owner' \in Caller \union {"none"}
        /\ closing' \in {"none", "pending", "resolved", "rejected"}
        /\ owner' = "none" <=> batch' = << >>
        /\ owner' = "none" => waiters' = << >>
        /\ batch' \o buffer' = batch \o buffer
        /\ buffer' = << >> \/ (buffer' = buffer /\ waiters' # << >>)
        /\ Members(waiters') \subseteq Members(waiters) \union {"timer"}
        /\ owner' \in {owner, "timer"} /\ closing' = closing
    BY <1>1, <1>2, FlushNowEffect
  <1>4. UNCHANGED << closed, stored, lost >>
    BY DEF TimerFires
  <1>5. WriterInv'
    BY <1>1, <1>3, <1>4 DEF WriterInv, TypeOK, FlushIsDue
  <1>6. QED
    BY <1>3, <1>4, <1>5 DEF StaysDrained

(* So does close(), after which nothing is accepted (write.ts 95-102).      *)
LEMMA CloseEffect ==
  ASSUME WriterInv, Close
  PROVE  /\ WriterInv' /\ StaysDrained
         /\ batch' \o buffer' = batch \o buffer
         /\ UNCHANGED << stored, lost >>
  <1>1. TypeOK /\ ~closed /\ closing # "resolved" /\ owner # "close"
    BY DEF WriterInv, Close
  <1>2. "close" \in Caller /\ FALSE \in BOOLEAN /\ buffer \in Seq(Events)
    BY <1>1 DEF Caller, TypeOK
  <1>3. FlushNow("close", buffer, FALSE)
    BY DEF Close
  <1>4. /\ buffer' \in Seq(Events) /\ batch' \in Seq(Events)
        /\ timer' \in BOOLEAN /\ waiters' \in Seq(Caller)
        /\ owner' \in Caller \union {"none"}
        /\ closing' \in {"none", "pending", "resolved", "rejected"}
        /\ owner' = "none" <=> batch' = << >>
        /\ owner' = "none" => waiters' = << >>
        /\ batch' \o buffer' = batch \o buffer
        /\ buffer' = << >> \/ waiters' # << >>
        /\ owner' = owner \/ buffer' = << >>
        /\ closing' = closing \/ closing' = "pending" \/ buffer' = << >>
    BY <1>2, <1>3, FlushNowEffect
  <1>5. closed' = TRUE /\ UNCHANGED << stored, lost >>
    BY DEF Close
  <1>6. WriterInv'
    BY <1>1, <1>4, <1>5 DEF WriterInv, TypeOK, FlushIsDue
  <1>7. QED
    BY <1>1, <1>4, <1>5, <1>6 DEF StaysDrained

(* The end of an INSERT takes its rows from the front of the line.          *)
LEMMA InsertSucceedsEffect ==
  ASSUME WriterInv, InsertSucceeds
  PROVE  /\ WriterInv' /\ StaysDrained
         /\ batch # << >> /\ batch' \o buffer' = buffer
         /\ stored' = stored \o batch /\ UNCHANGED lost
  <1>1. /\ TypeOK /\ owner # "none" /\ stored' = stored \o batch
        /\ waiters' = << >> /\ UNCHANGED << closed, lost >>
    BY DEF WriterInv, InsertSucceeds
  <1>2. /\ stored' \in Seq(Events) /\ batch # << >>
        /\ waiters' \in Seq(Caller) /\ Members(waiters') = {}
    BY <1>1, ConcatProperties, EmptySeq, MembersEmpty DEF TypeOK
  <1>3. CASE /\ waiters # << >> /\ buffer # << >>
             /\ Insert(Head(waiters), buffer)
             /\ closing' = Resumed({owner} \union Members(Tail(waiters)), "resolved")
    <2>1. /\ Head(waiters) \in Caller /\ Head(waiters) \in Members(waiters)
          /\ Members(Tail(waiters)) \subseteq Members(waiters)
      BY <1>1, <1>3, HeadTail DEF TypeOK
    <2>2. /\ buffer' = << >> /\ batch' = buffer /\ owner' = Head(waiters)
          /\ timer' = FALSE /\ owner' # "none"
          /\ buffer' \in Seq(Events) /\ batch' \in Seq(Events)
          /\ batch' \o buffer' = buffer
      BY <1>1, <1>3, <2>1, InsertEffect DEF TypeOK
    <2>3. /\ closing' \in {"none", "pending", "resolved", "rejected"}
          /\ closing' = "resolved" => closed
      BY <1>1, <1>3, <2>1 DEF Resumed, WriterInv, TypeOK
    <2>4. WriterInv'
      BY <1>1, <1>2, <1>3, <2>1, <2>2, <2>3 DEF WriterInv, TypeOK, FlushIsDue
    <2>5. QED
      BY <1>1, <1>2, <2>2, <2>4 DEF StaysDrained
  <1>4. CASE /\ waiters = << >> \/ buffer = << >>
             /\ batch' = << >> /\ owner' = "none"
             /\ closing' = Resumed({owner} \union Members(waiters), "resolved")
             /\ UNCHANGED << buffer, timer >>
    <2>1. batch' \in Seq(Events) /\ batch' \o buffer' = buffer
      BY <1>1, <1>4, EmptySeq, ConcatEmptySeq DEF TypeOK
    <2>2. /\ closing' \in {"none", "pending", "resolved", "rejected"}
          /\ closing' = "resolved" => closed /\ buffer = << >>
      BY <1>1, <1>4, MembersEmpty DEF Resumed, WriterInv, TypeOK
    <2>3. WriterInv'
      BY <1>1, <1>2, <1>4, <2>1, <2>2 DEF WriterInv, TypeOK, FlushIsDue
    <2>4. QED
      BY <1>1, <1>2, <1>4, <2>1, <2>3 DEF StaysDrained
  <1>5. QED
    BY <1>3, <1>4 DEF InsertSucceeds

(* A failing INSERT drops its rows, and nobody waits for it any more.       *)
LEMMA InsertFailsEffect ==
  ASSUME WriterInv, InsertFails
  PROVE  /\ WriterInv' /\ StaysDrained
         /\ batch # << >> /\ batch' \o buffer' = buffer
         /\ lost' = lost \union Members(batch) /\ UNCHANGED stored
  <1>1. /\ TypeOK /\ owner # "none" /\ lost' = lost \union Members(batch)
        /\ batch' = << >> /\ owner' = "none" /\ waiters' = << >>
        /\ closing' = Resumed({owner} \union Members(waiters), "rejected")
        /\ UNCHANGED << buffer, timer, closed, stored >>
    BY DEF WriterInv, InsertFails
  <1>2. batch # << >> /\ Members(batch) \subseteq Events /\ Members(batch) # {}
    <2>1. batch # << >> /\ batch \in Seq(Events)
      BY <1>1 DEF TypeOK
    <2>2. Head(batch) \in Members(batch)
      BY <2>1, HeadTail
    <2>3. \A i \in DOMAIN batch : batch[i] \in Events
      BY <2>1, ElementOfSeq, LenProperties
    <2>4. QED
      BY <2>1, <2>2, <2>3 DEF Members
  <1>3. /\ batch' \in Seq(Events) /\ waiters' \in Seq(Caller)
        /\ Members(waiters') = {} /\ batch' \o buffer' = buffer
    BY <1>1, EmptySeq, ConcatEmptySeq, MembersEmpty DEF TypeOK
  <1>4. /\ closing' \in {"none", "pending", "resolved", "rejected"}
        /\ closing' = "resolved" => closing = "resolved"
    BY <1>1 DEF Resumed, TypeOK
  <1>5. WriterInv'
    BY <1>1, <1>2, <1>3, <1>4 DEF WriterInv, TypeOK, FlushIsDue
  <1>6. QED
    BY <1>1, <1>2, <1>3, <1>5 DEF StaysDrained

(* ------------------------------ The process ------------------------------ *)

(* What the writer was given and has not dropped, by where it is in line.   *)
Known == Members(batch \o buffer) \union Members(stored) \union lost

(* The inductive invariant: the writer's; once the signal handler is past   *)
(* the writer nothing is buffered, and nothing is in flight at the exit; a  *)
(* record is new to the writer until its request is answered.               *)
IInv ==
  /\ WriterInv /\ ShutdownTypeOK
  /\ stage \in {"http", "database", "exited"} => closed /\ buffer = << >>
  /\ stage = "exited" => owner = "none"
  /\ \A e \in Events : request[e] # "answered" => e \notin Known

(* A step of the writer by itself settles the front of the line or leaves   *)
(* it alone.                                                                *)
LEMMA WriterStepEffect ==
  ASSUME IInv, WriterStep
  PROVE  /\ WriterInv' /\ StaysDrained
         /\ \/ UNCHANGED << batch \o buffer, stored, lost >>
            \/ /\ batch # << >> /\ batch' \o buffer' = buffer
               /\ \/ stored' = stored \o batch /\ UNCHANGED lost
                  \/ lost' = lost \union Members(batch) /\ UNCHANGED stored
  <1>1. WriterInv
    BY DEF IInv
  <1>2. CASE TimerFires
    BY <1>1, <1>2, TimerFiresEffect
  <1>3. CASE InsertSucceeds
    BY <1>1, <1>3, InsertSucceedsEffect
  <1>4. CASE InsertFails
    BY <1>1, <1>4, InsertFailsEffect
  <1>5. QED
    BY <1>2, <1>3, <1>4 DEF WriterStep

(* The writer by itself makes up no record.                                 *)
LEMMA WriterStepKnows ==
  ASSUME IInv, WriterStep
  PROVE  Known' \subseteq Known
  <1>1. buffer \in Seq(Events) /\ batch \in Seq(Events) /\ stored \in Seq(Events)
    BY DEF IInv, WriterInv, TypeOK
  <1>2. Members(batch \o buffer) = Members(batch) \union Members(buffer)
    BY <1>1, MembersConcat
  <1>3. CASE UNCHANGED << batch \o buffer, stored, lost >>
    BY <1>3 DEF Known, Members
  <1>4. CASE batch' \o buffer' = buffer /\ stored' = stored \o batch /\ UNCHANGED lost
    <2>1. Members(stored \o batch) = Members(stored) \union Members(batch)
      BY <1>1, MembersConcat
    <2>2. Known' = Members(buffer) \union Members(stored \o batch) \union lost
      BY <1>4 DEF Known, Members
    <2>3. QED
      BY <1>2, <2>1, <2>2 DEF Known
  <1>5. CASE /\ batch' \o buffer' = buffer
             /\ lost' = lost \union Members(batch) /\ UNCHANGED stored
    <2>1. Known' = Members(buffer) \union Members(stored) \union (lost \union Members(batch))
      BY <1>5 DEF Known, Members
    <2>2. QED
      BY <1>2, <2>1 DEF Known
  <1>6. QED
    BY <1>3, <1>4, <1>5, WriterStepEffect

(* write() adds the record it was given and nothing else.                   *)
LEMMA WriteKnows ==
  ASSUME WriterInv, NEW e \in Events, Write(e)
  PROVE  Known' = Known \union {e}
  <1>1. batch \o buffer \in Seq(Events)
    BY ConcatProperties DEF WriterInv, TypeOK
  <1>2. /\ batch' \o buffer' = Append(batch \o buffer, e)
        /\ UNCHANGED << stored, lost >>
    BY WriteEffect
  <1>3. Members(Append(batch \o buffer, e)) = Members(batch \o buffer) \union {e}
    <2>1. ASSUME NEW s \in Seq(Events)
          PROVE  Members(Append(s, e)) = Members(s) \union {e}
      BY MembersAppend
    <2>2. QED
      BY <1>1, <2>1
  <1>4. Known' = Members(Append(batch \o buffer, e)) \union Members(stored) \union lost
    BY <1>2 DEF Known, Members
  <1>5. QED
    BY <1>3, <1>4 DEF Known

(* The invariant holds when the process starts.                             *)
LEMMA InitIsSound == ShutdownInit => IInv
  <1> SUFFICES ASSUME ShutdownInit
               PROVE  IInv
    OBVIOUS
  <1>1. << >> \in Seq(Events) /\ << >> \in Seq(Caller) /\ << >> \o << >> = << >>
    BY EmptySeq, ConcatEmptySeq
  <1>2. WriterInv
    BY <1>1, MembersEmpty DEF ShutdownInit, Init, WriterInv, TypeOK, FlushIsDue
  <1>3. Known = {}
    BY <1>1, MembersEmpty DEF ShutdownInit, Init, Known
  <1>4. QED
    BY <1>2, <1>3 DEF ShutdownInit, IInv, WriterInv, ShutdownTypeOK, Stage

(* A step that leaves the writer alone.                                     *)
LEMMA WriterUnchanged ==
  ASSUME IInv, UNCHANGED writerVars
  PROVE  WriterInv' /\ StaysDrained /\ Known' = Known
  BY DEF IInv, writerVars, WriterInv, TypeOK, FlushIsDue, StaysDrained, Known, Members

(* Known only grows by the record that is handed over.                      *)
LEMMA HandOverEffect ==
  ASSUME IInv, NEW e \in Events, HandOver(e)
  PROVE  WriterInv' /\ StaysDrained /\ Known' \subseteq Known \union {e}
  <1>1. CASE Write(e)
    BY <1>1, WriteEffect, WriteKnows DEF IInv
  <1>2. CASE UNCHANGED writerVars
    BY <1>2, WriterUnchanged
  <1>3. QED
    BY <1>1, <1>2 DEF HandOver

(* Every step keeps it.                                                     *)
LEMMA StepIsSound == IInv /\ [ShutdownNext]_vars => IInv'
  <1> SUFFICES ASSUME IInv, [ShutdownNext]_vars
               PROVE  IInv'
    OBVIOUS
  <1>1. /\ WriterInv /\ ShutdownTypeOK /\ TypeOK
        /\ \A e \in Events : request[e] # "answered" => e \notin Known
    BY DEF IInv, WriterInv
  <1>2. ASSUME NEW e \in Events, Arrive(e)
        PROVE  IInv'
    <2>1. WriterInv' /\ StaysDrained /\ Known' = Known
      BY <1>2, WriterUnchanged DEF Arrive
    <2>2. request' = [request EXCEPT ![e] = "executing"] /\ request[e] = "absent"
      BY <1>2 DEF Arrive
    <2>3. UNCHANGED << stage, open, buffer, closed, owner >>
      BY <1>2 DEF Arrive, writerVars
    <2>4. ShutdownTypeOK'
      BY <1>1, <2>1, <2>2, <2>3 DEF ShutdownTypeOK, WriterInv
    <2>5. \A f \in Events : request'[f] # "answered" => f \notin Known'
      BY <1>1, <2>1, <2>2 DEF ShutdownTypeOK
    <2>6. QED
      BY <2>1, <2>3, <2>4, <2>5 DEF IInv
  <1>3. ASSUME NEW e \in Events, Answer(e)
        PROVE  IInv'
    <2>1. /\ WriterInv' /\ StaysDrained /\ Known' \subseteq Known \union {e}
      BY <1>3, HandOverEffect DEF Answer
    <2>2. /\ request' = [request EXCEPT ![e] = "answered"]
          /\ UNCHANGED << stage, open >> /\ stage # "exited"
      BY <1>3 DEF Answer, Dead
    <2>3. ShutdownTypeOK'
      BY <1>1, <2>1, <2>2 DEF ShutdownTypeOK, WriterInv
    <2>4. \A f \in Events : request'[f] # "answered" => f \notin Known'
      BY <1>1, <2>1, <2>2 DEF ShutdownTypeOK
    <2>5. QED
      BY <2>1, <2>2, <2>3, <2>4 DEF IInv, StaysDrained
  <1>4. ASSUME NEW s \in Streams, Subscribe(s) \/ Unsubscribe(s)
        PROVE  IInv'
    <2>1. /\ UNCHANGED << writerVars, stage, request >> /\ open' \subseteq Streams
      BY <1>1, <1>4 DEF Subscribe, Unsubscribe, ShutdownTypeOK
    <2>2. WriterInv' /\ Known' = Known /\ UNCHANGED << buffer, closed, owner >>
      BY <2>1, WriterUnchanged DEF writerVars
    <2>3. ShutdownTypeOK'
      BY <1>1, <2>1, <2>2 DEF ShutdownTypeOK, WriterInv
    <2>4. QED
      BY <1>1, <2>1, <2>2, <2>3 DEF IInv
  <1>5. CASE WriterStep
    <2>1. WriterInv' /\ StaysDrained /\ Known' \subseteq Known
      BY <1>5, WriterStepEffect, WriterStepKnows
    <2>2. UNCHANGED << stage, request, open >> /\ stage # "exited"
      BY <1>5 DEF WriterStep, Dead
    <2>3. ShutdownTypeOK'
      BY <1>1, <2>1, <2>2 DEF ShutdownTypeOK, WriterInv
    <2>4. QED
      BY <1>1, <2>1, <2>2, <2>3 DEF IInv, StaysDrained
  <1>6. CASE Signal
    <2>1. WriterInv' /\ batch' \o buffer' = batch \o buffer /\ UNCHANGED << stored, lost >>
      BY <1>1, <1>6, CloseEffect DEF Signal
    <2>2. Known' = Known
      BY <2>1 DEF Known, Members
    <2>3. stage' = "writer" /\ UNCHANGED << request, open >>
      BY <1>6 DEF Signal
    <2>4. ShutdownTypeOK'
      BY <1>1, <2>1, <2>3 DEF ShutdownTypeOK, WriterInv, Stage
    <2>5. QED
      BY <1>1, <2>1, <2>2, <2>3, <2>4 DEF IInv
  <1>7. CASE WriterClosed \/ CloseRejected \/ HttpClosed \/ DatabaseClosed
    <2>1. UNCHANGED << writerVars, request, open >>
      BY <1>7 DEF WriterClosed, CloseRejected, HttpClosed, DatabaseClosed, Await
    <2>2. WriterInv' /\ Known' = Known /\ UNCHANGED << buffer, closed, owner >>
      BY <2>1, WriterUnchanged DEF writerVars
    <2>3. /\ stage' \in Stage
          /\ stage' \in {"http", "database", "exited"} => closed /\ buffer = << >>
          /\ stage' = "exited" => owner = "none"
      BY <1>1, <1>7 DEF WriterClosed, CloseRejected, HttpClosed, DatabaseClosed, Await,
                        Stage, IInv, WriterInv
    <2>4. ShutdownTypeOK'
      BY <1>1, <2>1, <2>2, <2>3 DEF ShutdownTypeOK, WriterInv
    <2>5. QED
      BY <1>1, <2>1, <2>2, <2>3, <2>4 DEF IInv
  <1>8. CASE UNCHANGED vars
    <2>1. UNCHANGED << writerVars, stage, request, open >>
      BY <1>8 DEF vars
    <2>2. WriterInv' /\ Known' = Known /\ UNCHANGED << buffer, closed, owner >>
      BY <2>1, WriterUnchanged DEF writerVars
    <2>3. ShutdownTypeOK'
      BY <1>1, <2>1, <2>2 DEF ShutdownTypeOK, WriterInv
    <2>4. QED
      BY <1>1, <2>1, <2>2, <2>3 DEF IInv
  <1>9. QED
    BY <1>2, <1>3, <1>4, <1>5, <1>6, <1>7, <1>8 DEF ShutdownNext

(* The inductive invariant holds throughout.                                *)
THEOREM Invariance == ShutdownSpec => []IInv
  BY InitIsSound, StepIsSound, PTL DEF ShutdownSpec

(* The writer and the process around it stay well-typed: an INSERT has rows *)
(* and calls wait only for one in flight (write.ts 32-37, 66-68).           *)
THEOREM ShutdownTypeCorrect == ShutdownSpec => []ShutdownTypeOK
  <1>1. IInv => ShutdownTypeOK
    BY DEF IInv
  <1>2. QED
    BY <1>1, Invariance, PTL

(* When close() has settled well nothing waits in the buffer (write.ts      *)
(* 96-103), whatever flushes it waited for.                                 *)
THEOREM CloseFlushes == ShutdownSpec => []ClosedIsFlushed
  <1>1. IInv => ClosedIsFlushed
    BY DEF IInv, WriterInv, ClosedIsFlushed
  <1>2. QED
    BY <1>1, Invariance, PTL

(* Until an INSERT fails, buffered records have a flush coming to them      *)
(* (write.ts 70-78, 85-90).                                                 *)
THEOREM FlushComes == ShutdownSpec => []FlushIsDue
  <1>1. IInv => FlushIsDue
    BY DEF IInv, WriterInv
  <1>2. QED
    BY <1>1, Invariance, PTL

(* A regular exit abandons no record the writer accepted (index.ts 88-91).  *)
THEOREM ExitLeavesNothing == ShutdownSpec => []ExitAbandonsNothing
  <1>1. IInv => ExitAbandonsNothing
    BY DEF IInv, WriterInv, TypeOK, ExitAbandonsNothing
  <1>2. QED
    BY <1>1, Invariance, PTL

(* ------------------------------ Refinement ------------------------------- *)

(* Handing a record over is the log accepting it: its request was not       *)
(* answered before.                                                         *)
LEMMA LogAccepts ==
  ASSUME IInv, NEW e \in Events, Write(e), request[e] # "answered"
  PROVE  Log!Next
  <1>1. e \notin Known
    BY DEF IInv
  <1>2. /\ batch' \o buffer' = Append(batch \o buffer, e)
        /\ UNCHANGED << stored, lost >>
    BY WriteEffect DEF IInv
  <1>3. Log!Accept(e)
    BY <1>1, <1>2 DEF Known, Members, Log!Accept, Log!Members
  <1>4. QED
    BY <1>3 DEF Log!Next

(* The end of an INSERT is the log settling the front of its line.          *)
LEMMA LogSettles ==
  ASSUME IInv, WriterStep
  PROVE  [Log!Next]_Log!vars
  <1>1. buffer \in Seq(Events) /\ batch \in Seq(Events)
    BY DEF IInv, WriterInv, TypeOK
  <1>2. CASE UNCHANGED << batch \o buffer, stored, lost >>
    BY <1>2 DEF Log!vars
  <1>3. CASE /\ batch # << >> /\ batch' \o buffer' = buffer
             /\ \/ stored' = stored \o batch /\ UNCHANGED lost
                \/ lost' = lost \union Members(batch) /\ UNCHANGED stored
    <2>1. /\ SubSeq(batch \o buffer, 1, Len(batch)) = batch
          /\ SubSeq(batch \o buffer, Len(batch) + 1, Len(batch \o buffer)) = buffer
      BY <1>1, SplitConcat
    <2>2. Log!Settle(Len(batch))
      BY <1>3, <2>1 DEF Log!Settle, Log!Members, Members
    <2>3. Len(batch) \in 1 .. Len(batch \o buffer)
      <3>1. /\ Len(batch) \in Nat \ {0} /\ Len(buffer) \in Nat
            /\ Len(batch \o buffer) = Len(batch) + Len(buffer)
        BY <1>1, <1>3, EmptySeq, LenProperties, ConcatProperties
      <3>2. QED
        BY <3>1
    <2>4. QED
      BY <2>2, <2>3 DEF Log!Next
  <1>4. QED
    BY <1>2, <1>3, WriterStepEffect

(* Every step of the process is a step of the log or leaves it alone.       *)
LEMMA StepImplementsLog == IInv /\ [ShutdownNext]_vars => [Log!Next]_Log!vars
  <1> SUFFICES ASSUME IInv, [ShutdownNext]_vars
               PROVE  [Log!Next]_Log!vars
    OBVIOUS
  <1>1. ASSUME UNCHANGED writerVars
        PROVE  [Log!Next]_Log!vars
    BY <1>1 DEF writerVars, Log!vars
  <1>2. ASSUME NEW e \in Events, Answer(e)
        PROVE  [Log!Next]_Log!vars
    BY <1>1, <1>2, LogAccepts DEF Answer, HandOver
  <1>3. CASE WriterStep
    BY <1>3, LogSettles
  <1>4. CASE Signal
    BY <1>4, CloseEffect DEF Signal, IInv, Log!vars
  <1>5. CASE \/ \E e \in Events : Arrive(e)
             \/ \E s \in Streams : Subscribe(s) \/ Unsubscribe(s)
             \/ WriterClosed \/ CloseRejected \/ HttpClosed \/ DatabaseClosed
             \/ UNCHANGED vars
    <2>1. UNCHANGED writerVars
      BY <1>5 DEF Arrive, Subscribe, Unsubscribe, WriterClosed, CloseRejected,
                  HttpClosed, DatabaseClosed, Await, vars
    <2>2. QED
      BY <1>1, <2>1
  <1>6. QED
    BY <1>2, <1>3, <1>4, <1>5 DEF ShutdownNext

(* However requests, timer, INSERTs and the shutdown interleave, the writer *)
(* is a first-in first-out line whose front is stored or lost as a whole:   *)
(* nothing is stored twice, out of order, or forgotten (write.ts 31-67).    *)
THEOREM WriterIsLog == ShutdownSpec => ImplementsLog
  <1>1. ShutdownInit => Log!Init
    BY ConcatEmptySeq, EmptySeq DEF ShutdownInit, Init, Log!Init
  <1>2. QED
    BY <1>1, Invariance, StepImplementsLog, PTL
       DEF ShutdownSpec, ImplementsLog, Log!Spec
=============================================================================
