----------------------- MODULE HandoffJournalProofs -----------------------
(***************************************************************************)
(* Theorems about the node's evidence journal, which SecureTaskHandoff's   *)
(* workers append to without a lock.                                       *)
(*                                                                         *)
(* How far the journal verifies is followed from append to append          *)
(* (VerifiesTo): a line may extend what verifies, or end it for good, or   *)
(* take back the line before it that had lost its line feed.  Once it does *)
(* not verify to its end no worker starts to write, so what is written     *)
(* past the break is counted by the workers that have stopped writing.     *)
(*                                                                         *)
(* With one worker the number computed for a line is still right when the  *)
(* line is written; what it wrote whole is then evidence that stays.       *)
(***************************************************************************)
EXTENDS SecureTaskHandoffProofs

\* Journal j verifies up to line n and no further.
VerifiesTo(j, n) ==
  /\ n \in 0..Len(j)
  /\ \A i \in 1..n : ParsesAt(j, i) /\ j[i].sequence = i
  /\ n < Len(j) => ~ParsesAt(j, n + 1) \/ j[n + 1].sequence # n + 1

\* The file's lines past the part that verifies, and the workers that are not
\* about to add one.
Stray == {i \in (IntactLen + 1)..Len(journal) : ~SharesLine(i)}
Stopped == {w \in Workers : ~At(w, "writing")}

JInv ==
  /\ \E n \in Nat : VerifiesTo(journal, n)
  /\ ~Intact(journal) => Cardinality(Stray) <= Cardinality(Stopped)

\* A line that was written whole and verifies, or that shares its line of the
\* file, holds the request.
Evidenced(q) ==
  \E u \in Tasks : \E i \in Records(u) :
    /\ RequestOf[u] = q
    /\ (journal[i].form = "whole" /\ i <= IntactLen) \/ SharesLine(i)

EInv ==
  /\ \A w \in Workers : At(w, "writing") =>
       Intact(journal) /\ worker[w].sequence = Len(journal) + 1
  /\ \A w \in Workers : At(w, "executed") => Evidenced(Request(w))
  /\ \A w \in Workers : \A r \in replay[w] : Evidenced(r)
  /\ \A t \in Tasks : tasks[t].state = "ACKED" => Evidenced(RequestOf[t])

-----------------------------------------------------------------------------
(* What a step does to the journal *)

\* w leaves the journal alone; it turns to writing only on an intact journal,
\* and answers "executed" only what it remembers.
Resumes(w) ==
  /\ journal' = journal
  /\ replay'[w] \subseteq replay[w]
  /\ worker'[w].pc = "writing" =>
       Intact(journal) /\ worker'[w].sequence = Len(journal) + 1
  /\ worker'[w].pc = "executed" =>
       worker'[w].task = worker[w].task /\ Request(w) \in replay[w]

\* A write that is cut short.
Breaks(w) ==
  /\ At(w, "writing")
  /\ worker'[w].pc \in {"idle", "failed"}
  /\ replay'[w] \subseteq replay[w]
  /\ \E l \in Line : journal' = Append(journal, l)

Writes(w) ==
  /\ At(w, "writing")
  /\ worker'[w].pc = "executed" /\ worker'[w].task = worker[w].task
  /\ replay'[w] = replay[w] \cup {Request(w)}
  /\ LineOf(w) \in Line
  /\ journal' = Append(journal, LineOf(w))

Handles(w) == OthersKept(w) /\ (Resumes(w) \/ Breaks(w) \/ Writes(w))

LEMMA RemainsHandled ==
  ASSUME HInv, NEW w \in Workers, At(w, "writing"), journal' \in Remains(w),
         worker'[w].pc \in {"idle", "failed"}, replay'[w] \subseteq replay[w]
  PROVE  Resumes(w) \/ Breaks(w)
<1>1. HTypeOK /\ WorkerSound(w)
  BY DEF HInv, WorkersSound, At
<1>2. Torn \in Line
  BY DEF Torn, Line
<1>3. LineOf(w) \in Line /\ [LineOf(w) EXCEPT !.form = "unended"] \in Line
  BY <1>1, LineOfFacts
<1>4. CASE journal' = journal
  BY <1>4 DEF Resumes
<1>5. CASE \E l \in Line : journal' = Append(journal, l)
  BY <1>5 DEF Breaks
<1> QED BY <1>2, <1>3, <1>4, <1>5 DEF Remains

\* Where a step of w leads, w's own memory aside.
LEMMA RestHandled ==
  ASSUME HInv, NEW w \in Workers, worker' = [worker EXCEPT ![w] = Idle],
         replay' = replay \/ replay' = [replay EXCEPT ![w] = {}]
  PROVE  /\ OthersKept(w)
         /\ worker'[w].pc = "idle" /\ replay'[w] \subseteq replay[w]
<1>1. worker \in [Workers -> Worker] /\ replay \in [Workers -> SUBSET Requests]
  BY DEF HInv, HTypeOK
<1>2. Idle.pc = "idle"
  BY DEF Idle
<1> QED BY <1>1, <1>2 DEF OthersKept

LEMMA MoveHandled ==
  ASSUME HInv, NEW w \in Workers, NEW pc \in Pcs \ {"writing"}, ~At(w, "idle"),
         Goto(w, pc), UNCHANGED <<replay, journal>>,
         pc = "executed" => Request(w) \in replay[w]
  PROVE  Handles(w)
<1>1. /\ worker'[w].pc = pc /\ worker'[w].task = worker[w].task
      /\ \A v \in Workers \ {w} : worker'[v] = worker[v]
  BY GotoFacts DEF HInv
<1> QED BY <1>1 DEF Handles, OthersKept, Resumes

LEMMA ClaimHandled ==
  ASSUME HInv, NEW w \in Workers, Poller(w)
  PROVE  Handles(w)
<1>1. PICK s \in Stamps : Claim(w, s)
  BY DEF Poller
<1>2. At(w, "idle") /\ UNCHANGED <<replay, journal>>
  BY <1>1 DEF Claim
<1>3. CASE UNCHANGED worker
  BY <1>2, <1>3 DEF Handles, OthersKept, Resumes, At
<1>4. ASSUME NEW t \in Tasks, NEW d \in LeaseDurations, ClaimFor(w, t, s, d)
      PROVE  Handles(w)
  <2>1. PICK n : n.pc = "claimed" /\ worker' = [worker EXCEPT ![w] = n]
    BY <1>4 DEF ClaimFor, Idle
  <2>2. worker \in [Workers -> Worker]
    BY DEF HInv, HTypeOK
  <2>3. worker'[w].pc = "claimed" /\ \A v \in Workers \ {w} : worker'[v] = worker[v]
    BY <2>1, <2>2
  <2> QED BY <1>2, <2>3 DEF Handles, OthersKept, Resumes
<1> QED BY <1>1, <1>3, <1>4 DEF Claim

LEMMA LocalHandled ==
  ASSUME HInv, NEW w \in Workers, LoadGrant(w) \/ Deny(w) \/ Replay(w) \/ Verify(w)
  PROVE  Handles(w)
<1>1. ~At(w, "idle") /\ UNCHANGED <<replay, journal>>
  BY DEF LoadGrant, Deny, Replay, Verify, At
<1>2. ASSUME NEW pc \in {"granted", "verified", "refused", "failed"}, Goto(w, pc)
      PROVE  Handles(w)
  <2>1. pc \in Pcs \ {"writing"} /\ pc # "executed"
    BY DEF Pcs
  <2> QED BY <1>1, <1>2, <2>1, MoveHandled
<1>3. CASE Replay(w) /\ Request(w) \in replay[w]
  <2>1. Goto(w, "executed") /\ "executed" \in Pcs \ {"writing"}
    BY <1>3 DEF Replay, Pcs
  <2> QED BY <1>1, <1>3, <2>1, MoveHandled
<1>4. CASE Replay(w) /\ Request(w) \notin replay[w]
  BY <1>2, <1>4 DEF Replay
<1>5. CASE LoadGrant(w) \/ Deny(w)
  BY <1>2, <1>5 DEF LoadGrant, Deny
<1>6. CASE Verify(w)
  BY <1>2, <1>6 DEF Verify
<1> QED BY <1>3, <1>4, <1>5, <1>6

LEMMA AppendCheckHandled ==
  ASSUME HInv, NEW w \in Workers, AppendCheck(w)
  PROVE  Handles(w)
<1>1. worker \in [Workers -> Worker] /\ worker[w] \in Worker
  BY DEF HInv, HTypeOK
<1>2. UNCHANGED <<replay, journal>>
  BY DEF AppendCheck
<1>3. CASE Intact(journal)
  <2>1. worker' = [worker EXCEPT ![w] =
          [worker[w] EXCEPT !.pc = "writing", !.sequence = Len(journal) + 1]]
    BY <1>3 DEF AppendCheck
  <2>2. /\ worker'[w].pc = "writing" /\ worker'[w].sequence = Len(journal) + 1
        /\ \A v \in Workers \ {w} : worker'[v] = worker[v]
    BY <1>1, <2>1 DEF Worker
  <2> QED BY <1>2, <1>3, <2>2 DEF Handles, OthersKept, Resumes
<1>4. CASE ~Intact(journal)
  <2>1. worker' = [worker EXCEPT ![w] = [worker[w] EXCEPT !.pc = "failed"]]
    BY <1>4 DEF AppendCheck
  <2>2. /\ worker'[w].pc = "failed"
        /\ \A v \in Workers \ {w} : worker'[v] = worker[v]
    BY <1>1, <2>1 DEF Worker
  <2> QED BY <1>2, <2>2 DEF Handles, OthersKept, Resumes
<1> QED BY <1>3, <1>4

LEMMA AppendHandled ==
  ASSUME HInv, NEW w \in Workers, AppendWrite(w) \/ AppendFail(w)
  PROVE  Handles(w)
<1>0. /\ HTypeOK /\ replay \in [Workers -> SUBSET Requests]
      /\ At(w, "writing") /\ ~At(w, "idle")
  BY DEF HInv, HTypeOK, AppendWrite, AppendFail, At
<1>1. CASE AppendWrite(w)
  <2>1. Goto(w, "executed") /\ "executed" \in Pcs
    BY <1>1 DEF AppendWrite, Pcs
  <2>2. /\ worker'[w].pc = "executed" /\ worker'[w].task = worker[w].task
        /\ \A v \in Workers \ {w} : worker'[v] = worker[v]
    BY <1>0, <2>1, GotoFacts
  <2>3. WorkerSound(w)
    BY <1>0 DEF HInv, WorkersSound
  <2>4. LineOf(w) \in Line
    BY <1>0, <2>3, LineOfFacts
  <2>5. /\ replay'[w] = replay[w] \cup {Request(w)}
        /\ \A v \in Workers \ {w} : replay'[v] = replay[v]
        /\ journal' = Append(journal, LineOf(w))
    BY <1>0, <1>1 DEF AppendWrite
  <2> QED BY <1>0, <2>2, <2>4, <2>5 DEF Handles, OthersKept, Writes
<1>2. CASE AppendFail(w)
  <2>1. Goto(w, "failed") /\ "failed" \in Pcs
    BY <1>2 DEF AppendFail, Pcs
  <2>2. /\ worker'[w].pc = "failed"
        /\ \A v \in Workers \ {w} : worker'[v] = worker[v]
    BY <1>0, <2>1, GotoFacts
  <2>3. replay' = replay /\ journal' \in Remains(w)
    BY <1>2 DEF AppendFail
  <2>4. Resumes(w) \/ Breaks(w)
    BY <1>0, <2>2, <2>3, RemainsHandled
  <2> QED BY <2>2, <2>3, <2>4 DEF Handles, OthersKept
<1> QED BY <1>1, <1>2

LEMMA StopHandled ==
  ASSUME HInv, NEW w \in Workers,
         Abandon(w) \/ Crash(w) \/ \E s \in Stamps : Settle(w, s)
  PROVE  Handles(w)
<1>1. /\ worker' = [worker EXCEPT ![w] = Idle]
      /\ replay' = replay \/ replay' = [replay EXCEPT ![w] = {}]
  BY DEF Abandon, Crash, Settle
<1>2. /\ OthersKept(w)
      /\ worker'[w].pc = "idle" /\ replay'[w] \subseteq replay[w]
  BY <1>1, RestHandled
<1>3. CASE journal' = journal
  BY <1>2, <1>3 DEF Handles, Resumes
<1>4. CASE At(w, "writing") /\ journal' \in Remains(w)
  BY <1>2, <1>4, RemainsHandled DEF Handles
<1> QED BY <1>3, <1>4 DEF Abandon, Crash, Settle

LEMMA JournalSteps ==
  ASSUME HInv, [HNext]_hvars
  PROVE  Elsewhere \/ \E w \in Workers : Handles(w)
<1>1. CASE UNCHANGED hvars \/ HTick \/ HSubmit
  BY <1>1 DEF hvars, HTick, HSubmit, Elsewhere
<1>2. ASSUME NEW w \in Workers, Poller(w) \/ Execute(w) \/ Crash(w)
      PROVE  Handles(w)
  BY <1>2, ClaimHandled, LocalHandled, AppendCheckHandled, AppendHandled, StopHandled
     DEF Execute
<1> QED BY <1>1, <1>2 DEF HNext

-----------------------------------------------------------------------------
(* How far the journal verifies *)

LEMMA LongestIs ==
  ASSUME NEW j \in Seq(Line), NEW n \in Nat, VerifiesTo(j, n)
  PROVE  /\ n = CHOOSE m \in 0..Len(j) :
                  /\ \A i \in 1..m : ParsesAt(j, i) /\ j[i].sequence = i
                  /\ m < Len(j) => ~ParsesAt(j, m + 1) \/ j[m + 1].sequence # m + 1
         /\ Intact(j) <=> n = Len(j)
<1>1. ASSUME NEW m \in 0..Len(j),
             \A i \in 1..m : ParsesAt(j, i) /\ j[i].sequence = i,
             m < Len(j) => ~ParsesAt(j, m + 1) \/ j[m + 1].sequence # m + 1
      PROVE  m = n
  <2>1. n \in 0..Len(j) /\ Len(j) \in Nat /\ m \in Nat
    BY DEF VerifiesTo
  <2>2. CASE m < n
    <3>1. m + 1 \in 1..n /\ m < Len(j)
      BY <2>1, <2>2
    <3> QED BY <1>1, <3>1 DEF VerifiesTo
  <2>3. CASE n < m
    <3>1. n + 1 \in 1..m /\ n < Len(j)
      BY <2>1, <2>3
    <3> QED BY <1>1, <3>1 DEF VerifiesTo
  <2> QED BY <2>1, <2>2, <2>3
<1>2. n = Len(j) => Intact(j)
  BY DEF VerifiesTo, Intact
<1>3. Intact(j) => n = Len(j)
  <2> SUFFICES ASSUME Intact(j), n < Len(j) PROVE FALSE
    BY DEF VerifiesTo
  <2>1. n + 1 \in DOMAIN j
    OBVIOUS
  <2> QED BY <2>1 DEF Intact, VerifiesTo
<1> QED BY <1>1, <1>2, <1>3 DEF VerifiesTo

LEMMA IntactLenIs ==
  ASSUME NEW n \in Nat
  PROVE  /\ journal \in Seq(Line) /\ VerifiesTo(journal, n) => IntactLen = n
         /\ journal' \in Seq(Line) /\ VerifiesTo(journal', n) => IntactLen' = n
BY LongestIs DEF IntactLen

\* Another line follows: what lies before the last line is read as it was.
LEMMA AppendedLines ==
  ASSUME journal \in Seq(Line), NEW l \in Line, journal' = Append(journal, l)
  PROVE  /\ Len(journal) \in Nat /\ Len(journal') = Len(journal) + 1
         /\ \A i \in 1..Len(journal) : journal'[i] = journal[i]
         /\ \A i \in 1..Len(journal) :
              ParsesAt(journal', i) <=> journal[i].form = "whole"
         /\ \A i \in 1..Len(journal) :
              i < Len(journal) /\ ParsesAt(journal, i) => journal[i].form = "whole"
         /\ \A i \in 1..(Len(journal) + 1) : SharesLine(i)' <=> SharesLine(i)
BY DEF ParsesAt, SharesLine

\* A journal that is broken stays broken, in the same place.
LEMMA BrokenStays ==
  ASSUME journal \in Seq(Line), NEW l \in Line, journal' = Append(journal, l),
         NEW n \in Nat, VerifiesTo(journal, n), n < Len(journal)
  PROVE  VerifiesTo(journal', n)
<1>1. \A i \in 1..n : ParsesAt(journal', i) /\ journal'[i].sequence = i
  BY AppendedLines DEF VerifiesTo
<1>2. ~ParsesAt(journal', n + 1) \/ journal'[n + 1].sequence # n + 1
  <2>1. n + 1 \in 1..Len(journal)
    OBVIOUS
  <2>2. ParsesAt(journal', n + 1) => ParsesAt(journal, n + 1)
    BY <2>1, AppendedLines DEF ParsesAt
  <2> QED BY <2>1, <2>2, AppendedLines DEF VerifiesTo
<1> QED BY <1>1, <1>2, AppendedLines DEF VerifiesTo

\* An intact journal whose last line is whole, or that has none, verifies at
\* least as far as before.
LEMMA WholeStays ==
  ASSUME journal \in Seq(Line), NEW l \in Line, journal' = Append(journal, l),
         Intact(journal),
         Len(journal) > 0 => journal[Len(journal)].form = "whole"
  PROVE  /\ VerifiesTo(journal', Len(journal)) \/ VerifiesTo(journal', Len(journal) + 1)
         /\ l.form # "torn" /\ l.sequence = Len(journal) + 1
              => VerifiesTo(journal', Len(journal) + 1)
<1> DEFINE k == Len(journal)
<1>1. \A i \in 1..k : ParsesAt(journal', i) /\ journal'[i].sequence = i
  <2> SUFFICES ASSUME NEW i \in 1..k
               PROVE  ParsesAt(journal', i) /\ journal'[i].sequence = i
    OBVIOUS
  <2>1. ParsesAt(journal, i) /\ journal[i].sequence = i
    BY DEF Intact
  <2>2. journal[i].form = "whole"
    BY <2>1, AppendedLines
  <2> QED BY <2>1, <2>2, AppendedLines
<1>2. k \in Nat /\ Len(journal') = k + 1 /\ journal'[k + 1] = l
  BY AppendedLines
<1>3. ParsesAt(journal', k + 1) <=> l.form # "torn"
  BY <1>2 DEF ParsesAt, Line
<1>4. CASE l.form # "torn" /\ l.sequence = k + 1
  <2>1. \A i \in 1..(k + 1) : ParsesAt(journal', i) /\ journal'[i].sequence = i
    BY <1>1, <1>2, <1>3, <1>4
  <2>2. VerifiesTo(journal', k + 1)
    BY <1>2, <2>1 DEF VerifiesTo
  <2> QED BY <2>2
<1>5. CASE ~(l.form # "torn" /\ l.sequence = k + 1)
  <2>1. VerifiesTo(journal', k)
    BY <1>1, <1>2, <1>3, <1>5 DEF VerifiesTo
  <2> QED BY <1>5, <2>1
<1> QED BY <1>4, <1>5

\* A line that follows an unended one takes it out of what verifies.
LEMMA UnendedLost ==
  ASSUME journal \in Seq(Line), NEW l \in Line, journal' = Append(journal, l),
         Intact(journal), Len(journal) > 0, journal[Len(journal)].form # "whole"
  PROVE  VerifiesTo(journal', Len(journal) - 1)
<1> DEFINE k == Len(journal)
<1>0. k \in Nat /\ k - 1 \in Nat /\ Len(journal') = k + 1
  BY AppendedLines
<1>1. \A i \in 1..(k - 1) : ParsesAt(journal', i) /\ journal'[i].sequence = i
  <2> SUFFICES ASSUME NEW i \in 1..(k - 1)
               PROVE  ParsesAt(journal', i) /\ journal'[i].sequence = i
    OBVIOUS
  <2>1. i \in 1..k /\ i < k
    BY <1>0
  <2>2. ParsesAt(journal, i) /\ journal[i].sequence = i
    BY <2>1 DEF Intact
  <2> QED BY <2>1, <2>2, AppendedLines
<1>2. ~ParsesAt(journal', (k - 1) + 1)
  BY <1>0, AppendedLines
<1>3. k - 1 \in 0..Len(journal')
  BY <1>0
<1> QED BY <1>1, <1>2, <1>3 DEF VerifiesTo

-----------------------------------------------------------------------------
(* A broken journal stops the node *)

\* An append to a broken journal adds one line to those past the break.
LEMMA StrayGrows ==
  ASSUME journal \in Seq(Line), NEW l \in Line, journal' = Append(journal, l),
         NEW n \in Nat, VerifiesTo(journal, n), n < Len(journal)
  PROVE  Stray' \subseteq Stray \cup {Len(journal) + 1}
<1>1. VerifiesTo(journal', n) /\ journal' \in Seq(Line)
  BY BrokenStays
<1>2. IntactLen = n /\ IntactLen' = n
  BY <1>1, IntactLenIs
<1> SUFFICES ASSUME NEW i \in Stray'
             PROVE  i \in Stray \cup {Len(journal) + 1}
  OBVIOUS
<1>3. i \in (n + 1)..(Len(journal) + 1) /\ ~SharesLine(i)'
  BY <1>2, AppendedLines DEF Stray
<1>4. i \in 1..(Len(journal) + 1)
  BY <1>3
<1> QED BY <1>2, <1>3, <1>4, AppendedLines DEF Stray

\* An append that breaks an intact journal leaves one line past the break.
LEMMA StrayBegins ==
  ASSUME journal \in Seq(Line), NEW l \in Line, journal' = Append(journal, l),
         Intact(journal)
  PROVE  \E x \in Nat : Stray' \subseteq {x}
<1> DEFINE k == Len(journal)
<1>0. k \in Nat /\ Len(journal') = k + 1 /\ journal' \in Seq(Line)
  BY AppendedLines
<1>1. CASE k > 0 => journal[k].form = "whole"
  <2>1. PICK n \in {k, k + 1} : VerifiesTo(journal', n)
    BY <1>1, WholeStays
  <2>2. IntactLen' = n
    BY <1>0, <2>1, IntactLenIs
  <2>3. Stray' \subseteq {k + 1}
    <3>1. n \in Nat /\ k <= n
      BY <1>0
    <3>2. Stray' \subseteq (n + 1)..(k + 1)
      BY <1>0, <2>2 DEF Stray
    <3>3. \A i \in (n + 1)..(k + 1) : i = k + 1
      BY <1>0, <3>1
    <3> HIDE DEF k
    <3> QED BY <3>2, <3>3
  <2>4. k + 1 \in Nat
    BY <1>0
  <2> HIDE DEF k
  <2> QED BY <2>3, <2>4
<1>2. CASE k > 0 /\ journal[k].form # "whole"
  <2>1. VerifiesTo(journal', k - 1)
    BY <1>2, UnendedLost
  <2>2. IntactLen' = k - 1
    BY <1>0, <1>2, <2>1, IntactLenIs
  <2>3. \A i \in Nat : i = k + 1 => SharesLine(i)'
    BY <1>0, <1>2, AppendedLines DEF SharesLine
  <2>4. Stray' \subseteq {k}
    BY <1>0, <1>2, <2>2, <2>3 DEF Stray
  <2> QED BY <1>0, <2>4
<1> QED BY <1>1, <1>2

\* Whoever is handled and others kept: who turns to writing found the journal
\* intact, and who has just written does not write.
LEMMA StoppedMoves ==
  ASSUME HInv, NEW w \in Workers, Handles(w)
  PROVE  /\ Resumes(w) /\ ~Intact(journal) => Stopped \subseteq Stopped'
         /\ Breaks(w) \/ Writes(w) => Stopped' = Stopped \cup {w} /\ w \notin Stopped
<1>1. \A v \in Workers \ {w} : worker'[v] = worker[v]
  BY DEF Handles, OthersKept
<1>2. Resumes(w) /\ ~Intact(journal) => worker'[w].pc # "writing"
  BY DEF Resumes
<1>3. Breaks(w) \/ Writes(w) => worker[w].pc = "writing" /\ worker'[w].pc # "writing"
  BY DEF Breaks, Writes, At
<1> QED BY <1>1, <1>2, <1>3 DEF Stopped, At

LEMMA StrayIsFinite ==
  ASSUME HTypeOK, NEW n \in Nat, VerifiesTo(journal, n)
  PROVE  IsFiniteSet(Stray)
<1>1. journal \in Seq(Line) /\ Len(journal) \in Nat
  BY DEF HTypeOK
<1>2. IntactLen = n
  BY <1>1, IntactLenIs
<1>3. IsFiniteSet((n + 1)..Len(journal))
  BY <1>1, FS_Interval
<1>4. Stray \subseteq (n + 1)..Len(journal)
  BY <1>2 DEF Stray
<1> QED BY <1>3, <1>4, FS_Subset

LEMMA StoppedIsFinite == IsFiniteSet(Stopped) /\ IsFiniteSet(Stopped')
<1>1. Stopped \subseteq Workers /\ Stopped' \subseteq Workers /\ IsFiniteSet(Workers)
  BY RequestsAssumption DEF Stopped
<1> QED BY <1>1, FS_Subset

\* A line is appended, and its writer counts as stopped from then on.
LEMMA AppendCounted ==
  ASSUME HInv, JInv, NEW w \in Workers, Handles(w), NEW l \in Line,
         journal' = Append(journal, l), Breaks(w) \/ Writes(w)
  PROVE  JInv'
<1>0. HTypeOK /\ journal \in Seq(Line) /\ journal' \in Seq(Line)
  BY DEF HInv, HTypeOK
<1>1. Stopped' = Stopped \cup {w} /\ w \notin Stopped
  BY StoppedMoves
<1>2. /\ IsFiniteSet(Stopped) /\ Cardinality(Stopped) \in Nat
      /\ Cardinality(Stopped') = Cardinality(Stopped) + 1
  BY <1>1, StoppedIsFinite, FS_AddElement, FS_CardinalityType
<1>3. PICK n \in Nat : VerifiesTo(journal, n)
  BY DEF JInv
<1>4. Intact(journal) <=> n = Len(journal)
  BY <1>0, <1>3, LongestIs
<1>5. CASE Intact(journal)
  <2>1. \E m \in Nat : VerifiesTo(journal', m)
    <3>1. CASE Len(journal) > 0 => journal[Len(journal)].form = "whole"
      <4>1. Len(journal) \in Nat /\ Len(journal) + 1 \in Nat
        BY <1>0
      <4> QED BY <1>0, <1>5, <3>1, <4>1, WholeStays
    <3>2. CASE Len(journal) > 0 /\ journal[Len(journal)].form # "whole"
      <4>1. Len(journal) - 1 \in Nat
        BY <1>0, <3>2
      <4> QED BY <1>0, <1>5, <3>2, <4>1, UnendedLost
    <3> QED BY <3>1, <3>2
  <2>2. PICK x \in Nat : Stray' \subseteq {x}
    BY <1>0, <1>5, StrayBegins
  <2>3. Cardinality({x}) = 1 /\ IsFiniteSet({x})
    BY FS_Singleton
  <2>4. Cardinality(Stray') <= 1 /\ IsFiniteSet(Stray')
    BY <2>2, <2>3, FS_Subset
  <2>5. Cardinality(Stray') \in Nat
    BY <2>4, FS_CardinalityType
  <2>6. Cardinality(Stray') <= Cardinality(Stopped')
    BY <1>2, <2>4, <2>5
  <2> QED BY <2>1, <2>6 DEF JInv
<1>6. CASE ~Intact(journal)
  <2>1. n < Len(journal)
    BY <1>0, <1>3, <1>4, <1>6 DEF VerifiesTo
  <2>2. VerifiesTo(journal', n)
    BY <1>0, <1>3, <2>1, BrokenStays
  <2>3. PICK x : x = Len(journal) + 1
    OBVIOUS
  <2>4. Stray' \subseteq Stray \cup {x}
    BY <1>0, <1>3, <2>1, <2>3, StrayGrows
  <2>5. IsFiniteSet(Stray) /\ Cardinality(Stray) \in Nat
    BY <1>0, <1>3, StrayIsFinite, FS_CardinalityType
  <2>6. /\ IsFiniteSet(Stray \cup {x})
        /\ Cardinality(Stray \cup {x}) <= Cardinality(Stray) + 1
        /\ Cardinality(Stray \cup {x}) \in Nat
    <3>1. /\ IsFiniteSet(Stray \cup {x})
          /\ \/ Cardinality(Stray \cup {x}) = Cardinality(Stray)
             \/ Cardinality(Stray \cup {x}) = Cardinality(Stray) + 1
      BY <2>5, FS_AddElement
    <3> QED BY <2>5, <3>1
  <2>7. /\ Cardinality(Stray') <= Cardinality(Stray \cup {x})
        /\ Cardinality(Stray') \in Nat
    BY <2>4, <2>6, FS_Subset, FS_CardinalityType
  <2>8. Cardinality(Stray) <= Cardinality(Stopped)
    BY <1>6 DEF JInv
  <2>9. Cardinality(Stray') <= Cardinality(Stopped')
    BY <1>2, <2>5, <2>6, <2>7, <2>8
  <2> QED BY <2>2, <2>9 DEF JInv
<1> QED BY <1>5, <1>6

LEMMA JInvInductive ==
  ASSUME HInv, JInv, [HNext]_hvars
  PROVE  JInv'
<1>1. CASE Elsewhere
  BY <1>1 DEF Elsewhere, JInv, Stray, Stopped, IntactLen, SharesLine, At
<1>2. ASSUME NEW w \in Workers, Handles(w), Resumes(w)
      PROVE  JInv'
  <2>1. Stray' = Stray /\ journal' = journal
    BY <1>2 DEF Resumes, Stray, IntactLen, SharesLine
  <2>2. ~Intact(journal) => Cardinality(Stopped) <= Cardinality(Stopped')
    BY <1>2, StoppedMoves, StoppedIsFinite, FS_Subset
  <2>3. Cardinality(Stray) \in Nat
    BY StrayIsFinite, FS_CardinalityType DEF HInv, JInv
  <2>4. Cardinality(Stopped) \in Nat /\ Cardinality(Stopped') \in Nat
    BY StoppedIsFinite, FS_CardinalityType
  <2> QED BY <2>1, <2>2, <2>3, <2>4 DEF JInv
<1>3. ASSUME NEW w \in Workers, Handles(w), Breaks(w) \/ Writes(w)
      PROVE  JInv'
  <2>1. PICK l \in Line : journal' = Append(journal, l)
    BY <1>3 DEF Breaks, Writes
  <2> QED BY <1>3, <2>1, AppendCounted
<1> QED BY <1>1, <1>2, <1>3, JournalSteps DEF Handles

LEMMA JInvInitially == HInit => JInv
<1> SUFFICES ASSUME HInit PROVE JInv
  OBVIOUS
<1>1. journal = <<>>
  BY DEF HInit
<1> QED BY <1>1 DEF JInv, VerifiesTo, Intact

LEMMA JInvAlways == HSpec => []JInv
<1>1. HInv /\ JInv /\ [HNext]_hvars => JInv'
  BY JInvInductive
<1> QED BY <1>1, JInvInitially, HInvAlways, PTL DEF HSpec

\* A broken journal stops the node: of every worker that was already writing
\* when it broke one line may still follow, and no other.
THEOREM BrokenJournalsStop == HSpec => []BrokenJournalStops
<1>1. HInv /\ JInv => BrokenJournalStops
  <2> SUFFICES ASSUME HInv, JInv
               PROVE  Cardinality(Stray) <= Cardinality(Workers)
    BY DEF BrokenJournalStops, Stray
  <2>1. PICK n \in Nat : VerifiesTo(journal, n)
    BY DEF JInv
  <2>2. IsFiniteSet(Stray) /\ Cardinality(Stray) \in Nat
    BY <2>1, StrayIsFinite, FS_CardinalityType DEF HInv
  <2>3. IsFiniteSet(Workers) /\ Cardinality(Workers) \in Nat
    BY RequestsAssumption, FS_CardinalityType
  <2>4. /\ Cardinality(Stopped) <= Cardinality(Workers)
        /\ Cardinality(Stopped) \in Nat
    <3>1. Stopped \subseteq Workers
      BY DEF Stopped
    <3> QED BY <2>3, <3>1, StoppedIsFinite, FS_Subset, FS_CardinalityType
  <2>5. CASE Intact(journal)
    <3>1. journal \in Seq(Line) /\ Len(journal) \in Nat
      BY DEF HInv, HTypeOK
    <3>2. IntactLen = Len(journal)
      BY <2>1, <2>5, <3>1, LongestIs, IntactLenIs
    <3>3. Stray = {}
      BY <3>1, <3>2 DEF Stray
    <3> QED BY <2>3, <3>3, FS_EmptySet
  <2>6. CASE ~Intact(journal)
    BY <2>2, <2>3, <2>4, <2>6 DEF JInv
  <2> QED BY <2>5, <2>6
<1> QED BY <1>1, HInvAlways, JInvAlways, PTL

-----------------------------------------------------------------------------
(* With one worker, what is acknowledged is evidenced *)

\* The file as a step leaves it.
JournalMoved == journal' = journal \/ \E l \in Line : journal' = Append(journal, l)

\* Evidence is never lost: an append takes no whole line out of what verifies.
LEMMA EvidencedStays ==
  ASSUME HTypeOK, JInv, JournalMoved, NEW q, Evidenced(q)
  PROVE  Evidenced(q)'
<1>0. journal \in Seq(Line) /\ Len(journal) \in Nat
  BY DEF HTypeOK
<1> PICK u \in Tasks : \E i \in Records(u) :
        /\ RequestOf[u] = q
        /\ (journal[i].form = "whole" /\ i <= IntactLen) \/ SharesLine(i)
  BY DEF Evidenced
<1>1. PICK i \in Records(u) :
        /\ RequestOf[u] = q
        /\ (journal[i].form = "whole" /\ i <= IntactLen) \/ SharesLine(i)
  OBVIOUS
<1>2. CASE journal' = journal
  BY <1>1, <1>2 DEF Evidenced, Records, IntactLen, SharesLine
<1>3. ASSUME NEW l \in Line, journal' = Append(journal, l)
      PROVE  Evidenced(q)'
  <2>0. journal' \in Seq(Line) /\ i \in 1..Len(journal)
    BY <1>0, <1>3 DEF Records
  <2>1. i \in Records(u)'
    BY <1>0, <1>3, <2>0, AppendedLines DEF Records
  <2>2. SharesLine(i) => SharesLine(i)'
    BY <1>0, <1>3, <2>0, AppendedLines
  <2>3. ASSUME journal[i].form = "whole", i <= IntactLen
        PROVE  journal'[i].form = "whole" /\ i <= IntactLen'
    <3>1. journal'[i].form = "whole"
      BY <1>0, <1>3, <2>0, <2>3, AppendedLines
    <3>2. PICK n \in Nat : VerifiesTo(journal, n)
      BY DEF JInv
    <3>3. IntactLen = n /\ (Intact(journal) <=> n = Len(journal))
      BY <1>0, <3>2, IntactLenIs, LongestIs
    <3>4. CASE n < Len(journal)
      <4>1. IntactLen' = n
        BY <1>0, <1>3, <2>0, <3>2, <3>4, BrokenStays, IntactLenIs
      <4> QED BY <2>3, <3>1, <3>3, <4>1
    <3>5. CASE n = Len(journal) /\ (Len(journal) > 0 => journal[Len(journal)].form = "whole")
      <4>1. PICK m \in {Len(journal), Len(journal) + 1} : VerifiesTo(journal', m)
        BY <1>0, <1>3, <3>3, <3>5, WholeStays
      <4>2. m \in Nat /\ Len(journal) <= m
        BY <1>0
      <4>3. IntactLen' = m
        BY <2>0, <4>1, <4>2, IntactLenIs
      <4> QED BY <1>0, <2>0, <3>1, <4>2, <4>3
    <3>6. CASE n = Len(journal) /\ Len(journal) > 0 /\ journal[Len(journal)].form # "whole"
      <4>1. VerifiesTo(journal', Len(journal) - 1) /\ Len(journal) - 1 \in Nat
        BY <1>0, <1>3, <3>3, <3>6, UnendedLost
      <4>2. IntactLen' = Len(journal) - 1
        BY <2>0, <4>1, IntactLenIs
      <4>3. i # Len(journal)
        BY <2>3, <3>6
      <4> QED BY <1>0, <2>0, <3>1, <4>2, <4>3
    <3>7. n <= Len(journal)
      BY <1>0, <3>2 DEF VerifiesTo
    <3> QED BY <1>0, <3>4, <3>5, <3>6, <3>7
  <2> QED BY <1>1, <2>1, <2>2, <2>3 DEF Evidenced
<1> QED BY <1>2, <1>3 DEF JournalMoved

\* A line written whole, under the number the journal expects, is evidence.
LEMMA WrittenIsEvidenced ==
  ASSUME HInv, NEW w \in Workers, Writes(w), Intact(journal),
         worker[w].sequence = Len(journal) + 1
  PROVE  Evidenced(Request(w))'
<1>0. journal \in Seq(Line) /\ Len(journal) \in Nat
  BY DEF HInv, HTypeOK
<1>1. WorkerSound(w)
  BY DEF HInv, WorkersSound, Writes, At
<1>2. PICK u \in Tasks : u = worker[w].task
  BY <1>1 DEF WorkerSound
<1> DEFINE l == LineOf(w)
<1>3. /\ l \in Line /\ l.form = "whole" /\ l.sequence = Len(journal) + 1
      /\ l.task = u
  BY <1>2 DEF Writes, LineOf
<1> HIDE DEF l
<1>4. journal' = Append(journal, l) /\ worker'[w].task = u
  BY <1>2 DEF Writes, l
<1>5. PICK i \in Nat : i = Len(journal) + 1
  BY <1>0
<1>6. journal' \in Seq(Line) /\ Len(journal') = i /\ journal'[i] = l
  BY <1>0, <1>3, <1>4, <1>5, AppendedLines
<1>7. i \in Records(u)'
  BY <1>3, <1>5, <1>6 DEF Records
<1>8. i <= IntactLen' \/ SharesLine(i)'
  <2>1. CASE Len(journal) > 0 => journal[Len(journal)].form = "whole"
    <3>1. VerifiesTo(journal', i)
      BY <1>0, <1>3, <1>4, <1>5, <2>1, WholeStays
    <3>2. IntactLen' = i
      BY <1>6, <3>1, IntactLenIs
    <3> QED BY <3>2
  <2>2. CASE Len(journal) > 0 /\ journal[Len(journal)].form # "whole"
    <3>1. i > 1 /\ i - 1 = Len(journal) /\ journal'[i - 1].form # "whole"
      BY <1>0, <1>3, <1>4, <1>5, <2>2, AppendedLines
    <3> QED BY <3>1 DEF SharesLine
  <2> QED BY <2>1, <2>2
<1>9. RequestOf[u] = Request(w)'
  BY <1>4 DEF Request
<1> QED BY <1>3, <1>6, <1>7, <1>8, <1>9 DEF Evidenced

\* Only a worker that answers "executed" acknowledges, and only its own task.
LEMMA AcksAnswer ==
  ASSUME HInv, [HNext]_hvars, NEW t \in Tasks, tasks'[t].state = "ACKED"
  PROVE  \/ tasks[t].state = "ACKED"
         \/ \E w \in Workers : At(w, "executed") /\ worker[w].task = t
<1>0. HTypeOK /\ TypeOK
  BY DEF HInv, HTypeOK
<1>1. CASE UNCHANGED vars \/ Tick
  BY <1>1 DEF vars, Tick
<1>2. CASE HSubmit
  <2>1. PICK u \in Tasks, s \in Stamps : \E e \in (s + 1)..(s + MaxTtl) : Submit(u, s, e)
    BY <1>2 DEF HSubmit
  <2>2. PICK e \in (s + 1)..(s + MaxTtl) : Submit(u, s, e)
    BY <2>1
  <2>3. s \in Nat /\ e \in Nat
    <3>1. s \in Nat /\ MaxTtl \in Nat
      BY <1>0, StampType, BoundsAssumption
    <3> QED BY <3>1
  <2>4. tasks'[u].state = "PENDING"
    BY <1>0, <2>2, <2>3, AcceptedRowType DEF Submit, TypeOK
  <2>5. t # u => tasks'[t] = tasks[t]
    BY <1>0, <2>2 DEF Submit, TypeOK
  <2> QED BY <2>4, <2>5
<1>3. ASSUME NEW w \in Workers, Poller(w)
      PROVE  tasks[t].state = "ACKED"
  <2>1. PICK s \in Stamps : Claim(w, s)
    BY <1>3 DEF Poller
  <2>2. CASE ClaimNothing(s)
    BY <1>0, <2>2, ClaimNothingFacts
  <2>3. CASE \E u \in Tasks, d \in LeaseDurations : ClaimFor(w, u, s, d)
    BY <1>0, <2>3, ClaimNextFacts DEF ClaimFor
  <2> QED BY <2>1, <2>2, <2>3 DEF Claim
<1>4. ASSUME NEW w \in Workers, NEW s \in Stamps, Settle(w, s)
      PROVE  tasks[t].state = "ACKED" \/ (At(w, "executed") /\ worker[w].task = t)
  <2>1. WorkerSound(w)
    BY <1>4 DEF Settle, HInv, WorkersSound, At
  <2> DEFINE u == worker[w].task
             k == worker[w].token
             pc == worker[w].pc
  <2>2. u \in Tasks /\ k \in IssuedTokens(u) /\ SettleQueue(pc, u, k, s)
    BY <1>4, <2>1 DEF Settle, WorkerSound
  <2>3. pc = "executed" /\ u = t => At(w, "executed") /\ worker[w].task = t
    BY DEF At
  <2> HIDE DEF u, k, pc
  <2> QED BY <1>0, <2>2, <2>3, SettleFacts
<1>5. ASSUME NEW w \in Workers, Execute(w) \/ Crash(w)
      PROVE  UNCHANGED vars \/ \E s \in Stamps : Settle(w, s)
  BY <1>5 DEF Execute, Crash, LoadGrant, Deny, Replay, Verify, AppendCheck, AppendWrite,
              AppendFail, Abandon
<1> QED BY <1>1, <1>2, <1>3, <1>4, <1>5 DEF HNext, HTick, hvars

LEMMA EInvInductive ==
  ASSUME \A v, w \in Workers : v = w, HInv, JInv, EInv, [HNext]_hvars
  PROVE  EInv'
<1>0. HTypeOK
  BY DEF HInv
<1>1. JournalMoved
  BY JournalSteps DEF JournalMoved, Elsewhere, Handles, Resumes, Breaks, Writes
<1>2. \A t \in Tasks : tasks'[t].state = "ACKED" => Evidenced(RequestOf[t])'
  <2> SUFFICES ASSUME NEW t \in Tasks, tasks'[t].state = "ACKED"
               PROVE  Evidenced(RequestOf[t])'
    OBVIOUS
  <2>1. Evidenced(RequestOf[t])
    BY AcksAnswer DEF EInv, Request
  <2> QED BY <1>0, <1>1, <2>1, EvidencedStays
<1>3. CASE Elsewhere
  BY <1>2, <1>3 DEF EInv, Elsewhere, Evidenced, Records, IntactLen, SharesLine, At, Request
<1>4. ASSUME NEW w \in Workers, Handles(w)
      PROVE  EInv'
  <2>0. \A v \in Workers : v = w
    OBVIOUS
  <2>1. ASSUME Resumes(w) \/ Breaks(w)
        PROVE  /\ worker'[w].pc = "writing" =>
                    Intact(journal') /\ worker'[w].sequence = Len(journal') + 1
               /\ worker'[w].pc = "executed" => Evidenced(Request(w))'
               /\ \A r \in replay'[w] : Evidenced(r)'
    <3>1. \A r \in replay[w] : Evidenced(r)'
      BY <1>0, <1>1, EvidencedStays DEF EInv
    <3>2. Resumes(w) /\ worker'[w].pc = "executed" =>
            Request(w)' = Request(w) /\ Request(w) \in replay[w]
      BY DEF Resumes, Request
    <3> QED BY <2>1, <3>1, <3>2 DEF Resumes, Breaks
  <2>2. ASSUME Writes(w)
        PROVE  /\ worker'[w].pc # "writing"
               /\ Evidenced(Request(w))'
               /\ \A r \in replay'[w] : Evidenced(r)'
    <3>1. Intact(journal) /\ worker[w].sequence = Len(journal) + 1
      BY <2>2 DEF Writes, EInv
    <3>2. Evidenced(Request(w))' /\ Request(w)' = Request(w)
      BY <2>2, <3>1, WrittenIsEvidenced DEF Writes, Request
    <3>3. \A r \in replay[w] : Evidenced(r)'
      BY <1>0, <1>1, EvidencedStays DEF EInv
    <3> QED BY <2>2, <3>2, <3>3 DEF Writes
  <2> QED BY <1>2, <1>4, <2>0, <2>1, <2>2 DEF Handles, EInv, At
<1> QED BY <1>3, <1>4, JournalSteps

LEMMA EInvInitially == HInit => EInv
<1> SUFFICES ASSUME HInit PROVE EInv
  OBVIOUS
<1>1. \A w \in Workers : worker[w].pc = "idle" /\ replay[w] = {}
  BY DEF HInit, Idle
<1>2. \A t \in Tasks : tasks[t].state # "ACKED"
  BY DEF HInit, Init, NoRow
<1> QED BY <1>1, <1>2 DEF EInv, At

\* With one worker on the node, the record of what was acknowledged is in the
\* part of the journal that verifies, or on the line of an earlier write that
\* lost its line feed; a worker that crashes and comes back changes nothing.
THEOREM AcksAreEvidenced ==
  (\A v, w \in Workers : v = w) => (HSpec => []AckedIsEvidenced)
<1> SUFFICES ASSUME \A v, w \in Workers : v = w
             PROVE  HSpec => []AckedIsEvidenced
  OBVIOUS
<1>1. HInv /\ JInv /\ EInv /\ [HNext]_hvars => EInv'
  BY EInvInductive
<1>2. EInv => AckedIsEvidenced
  BY DEF EInv, Evidenced, AckedIsEvidenced
<1> QED BY <1>1, <1>2, EInvInitially, HInvAlways, JInvAlways, PTL DEF HSpec

-----------------------------------------------------------------------------
(* How often a task can run *)

\* No task leaves more records than max_attempts, wherever its workers crash and
\* however late they come: the bound on leases is a bound on executions.
RunsBounded == \A t \in Tasks : Cardinality(Records(t)) <= MaxAttempts

THEOREM ExecutionsAreBounded == HSpec => []RunsBounded
<1>1. HInv /\ AttemptsBounded => RunsBounded
  <2> SUFFICES ASSUME HInv, AttemptsBounded, NEW t \in Tasks
               PROVE  Cardinality(Records(t)) <= MaxAttempts
    BY DEF RunsBounded
  <2>1. MaxAttempts \in Nat /\ tasks[t].attempt_count \in Nat
    BY BoundsAssumption DEF HInv, HTypeOK, TypeOK, Row
  <2>2. IssuedTokens(t) \subseteq 1..MaxAttempts
    BY <2>1 DEF IssuedTokens, AttemptsBounded
  <2> DEFINE f == [i \in Records(t) |-> journal[i].token]
  <2>3. f \in Injection(Records(t), 1..MaxAttempts)
    <3>1. \A i \in Records(t) : f[i] \in 1..MaxAttempts
      BY <2>2 DEF HInv, OneRunPerLease
    <3>2. \A i, j \in Records(t) : f[i] = f[j] => i = j
      BY DEF HInv, OneRunPerLease
    <3> QED BY <3>1, <3>2 DEF Injection, IsInjective
  <2>4. IsFiniteSet(1..MaxAttempts) /\ Cardinality(1..MaxAttempts) = MaxAttempts
    BY <2>1, FS_Interval
  <2> HIDE DEF f
  <2> QED BY <2>3, <2>4, FS_Injection
<1> QED BY <1>1, HInvAlways, WorkersUseTheQueue, AttemptsStayBounded, PTL

=============================================================================
