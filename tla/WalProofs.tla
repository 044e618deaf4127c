------------------------------ MODULE WalProofs ------------------------------
(***************************************************************************)
(* Properties of Wal.tla for any number of keys, values, records in        *)
(* flight, frames per segment and crashes.                                 *)
(***************************************************************************)
EXTENDS WalInvariant, RecordProofs

Frame == Record \cup {Torn}

------------------------------------------------------------------------------
(* What a replay and a crash make of a file.                                *)

\* replay_segment stops at the first frame that does not decode, and not before.
LEMMA IntactIs ==
    ASSUME NEW f \in Seq(Frame)
    PROVE  /\ Intact(f) \in Seq(Record)
           /\ Len(Intact(f)) \in 0 .. Len(f)
           /\ \A i \in 1 .. Len(Intact(f)) : Intact(f)[i] = f[i]
           /\ \A i \in 1 .. Len(f) : (\A j \in 1 .. i : f[j] # Torn) => i <= Len(Intact(f))
           /\ Torn \notin Range(f) => Intact(f) = f
<1> DEFINE torn == {i \in DOMAIN f : f[i] = Torn}
<1>1. /\ Len(f) \in Nat /\ DOMAIN f = 1 .. Len(f)
      /\ \A i \in 1 .. Len(f) : f[i] \in Frame
  OBVIOUS
<1>2. CASE torn = {}
  <2>1. Intact(f) = f
    BY <1>2 DEF Intact
  <2>2. \A i \in 1 .. Len(f) : f[i] \in Record
    BY <1>1, <1>2 DEF Frame
  <2>3. f \in Seq(Record)
    BY <1>1, <2>2
  <2> QED BY <1>1, <2>1, <2>3
<1>3. CASE torn # {}
  <2>1. torn \in SUBSET Nat
    BY <1>1
  <2>2. Min(torn) \in torn /\ \A x \in torn : Min(torn) <= x
    BY <1>3, <2>1, MinOfNaturals
  <2>3. PICK n : n = Min(torn) - 1
    OBVIOUS
  <2> HIDE DEF torn
  <2>4. Min(torn) \in 1 .. Len(f) /\ n \in 0 .. Len(f) /\ n + 1 = Min(torn) /\ f[n + 1] = Torn
    BY <1>1, <2>2, <2>3 DEF torn
  <2>5. Intact(f) = SubSeq(f, 1, n)
    BY <1>3, <2>3 DEF Intact, torn
  <2>6. /\ Intact(f) \in Seq(Frame)
        /\ Len(Intact(f)) = n
        /\ \A i \in 1 .. n : Intact(f)[i] = f[i]
    BY <2>4, <2>5, PrefixOfSeq
  <2>7. \A i \in 1 .. n : f[i] \in Record
    <3> SUFFICES ASSUME NEW i \in 1 .. n PROVE f[i] \in Record
      OBVIOUS
    <3>1. i \in 1 .. Len(f) /\ i < Min(torn)
      BY <2>4, <1>1
    <3>2. i \notin torn
      BY <2>2, <2>4, <3>1
    <3> QED BY <3>1, <3>2, <1>1 DEF torn, Frame
  <2>8. Intact(f) \in Seq(Record)
    BY <2>6, <2>7
  <2>9. ASSUME NEW i \in 1 .. Len(f), \A j \in 1 .. i : f[j] # Torn PROVE i <= n
    BY <1>1, <2>4, <2>9
  <2>10. Torn \in Range(f)
    BY <1>1, <2>4 DEF Range
  <2> QED BY <2>4, <2>6, <2>8, <2>9, <2>10
<1> QED
  BY <1>2, <1>3

\* The records a replay finds are records of the file; it finds them all unless a
\* frame is torn, and finds the same again once the file is cut.
LEMMA ReplaySegmentIs ==
    ASSUME NEW f \in Seq(Frame)
    PROVE  /\ ReplaySegment(f) \in SUBSET Record
           /\ ReplaySegment(f) \subseteq Range(f) \ {Torn}
           /\ Torn \notin Range(f) => ReplaySegment(f) = Range(f)
           /\ ReplaySegment(Intact(f)) = ReplaySegment(f)
           /\ Range(Intact(f)) = ReplaySegment(f)
<1>1. /\ Intact(f) \in Seq(Record)
      /\ Len(Intact(f)) \in 0 .. Len(f)
      /\ \A i \in 1 .. Len(Intact(f)) : Intact(f)[i] = f[i]
      /\ Torn \notin Range(f) => Intact(f) = f
  BY IntactIs
<1>2. Range(Intact(f)) \in SUBSET Record
  BY <1>1 DEF Range
<1>3. ReplaySegment(f) = Range(Intact(f))
  BY DEF ReplaySegment
<1>4. Range(Intact(f)) \subseteq Range(f)
  BY <1>1 DEF Range
<1>5. Torn \notin Record
  BY WalAssumption
<1>6. Intact(f) \in Seq(Frame) /\ Torn \notin Range(Intact(f))
  BY <1>1, <1>2, <1>5 DEF Frame
<1>7. Intact(Intact(f)) = Intact(f)
  BY <1>6, IntactIs
<1> QED
  BY <1>1, <1>2, <1>3, <1>4, <1>5, <1>7 DEF ReplaySegment

\* A crash leaves a prefix of the active file no shorter than what was synced, and
\* after it at most a torn frame.
LEMMA SurvivorIs ==
    ASSUME NEW f \in Seq(Frame), NEW n \in Nat, NEW g \in Survivors(f, n)
    PROVE  /\ g \in Seq(Frame)
           /\ Range(g) \subseteq Range(f) \cup {Torn}
           /\ \E i \in n .. Len(f) :
                /\ \A j \in 1 .. i : g[j] = f[j]
                /\ \/ Len(g) = i
                   \/ Len(g) = i + 1 /\ g[i + 1] = Torn
           /\ Torn \notin Range(f) => \A j \in DOMAIN g : g[j] = Torn => j = Len(g)
<1>1. Len(f) \in Nat /\ DOMAIN f = 1 .. Len(f) /\ Torn \in Frame
  BY DEF Frame
<1>2. PICK i \in n .. Len(f) :
          g = SubSeq(f, 1, i) \/ g = Append(SubSeq(f, 1, i), Torn)
  BY DEF Survivors
<1> DEFINE p == SubSeq(f, 1, i)
<1>3. i \in 0 .. Len(f)
  BY <1>1
<1>4. p \in Seq(Frame) /\ Len(p) = i /\ \A j \in 1 .. i : p[j] = f[j]
  BY <1>3, PrefixOfSeq
<1> HIDE DEF p
<1>5. Range(p) \subseteq Range(f)
  BY <1>1, <1>3, <1>4 DEF Range
<1>6. CASE g = p
  <2>1. Torn \notin Range(f) => \A j \in DOMAIN g : g[j] # Torn
    BY <1>5, <1>6 DEF Range
  <2> QED BY <1>3, <1>4, <1>5, <1>6, <2>1
<1>7. CASE g = Append(p, Torn)
  <2>1. Range(g) = Range(p) \cup {Torn}
    BY <1>1, <1>4, <1>7, RangeOfAppend
  <2>2. g \in Seq(Frame) /\ Len(g) = i + 1 /\ g[i + 1] = Torn /\ \A j \in 1 .. i : g[j] = p[j]
    BY <1>1, <1>3, <1>4, <1>7
  <2>3. DOMAIN g = 1 .. i + 1 /\ DOMAIN p = 1 .. i
    BY <1>4, <2>2
  <2>4. ASSUME Torn \notin Range(f), NEW j \in DOMAIN g, g[j] = Torn PROVE j = i + 1
    <3>1. \A m \in 1 .. i : p[m] # Torn
      BY <1>5, <2>3, <2>4 DEF Range
    <3>2. j \notin 1 .. i
      BY <2>2, <2>4, <3>1
    <3> QED BY <1>3, <2>3, <2>4, <3>2
  <2> QED BY <1>3, <1>4, <1>5, <2>1, <2>2, <2>4
<1> QED
  BY <1>2, <1>6, <1>7 DEF p

------------------------------------------------------------------------------
(* What each step makes of the directory.                                   *)

\* A record is written, or will be replayed, when it is in some file.
LEMMA InSomeFile ==
    \A r : /\ r \in Written <=> r # Torn /\ \E s \in DOMAIN dir : r \in Range(dir[s])
           /\ r \in Replayable <=> \E s \in DOMAIN dir : r \in ReplaySegment(dir[s])
<1>1. \A r : r \in Written <=> r # Torn /\ \E s \in DOMAIN dir : r \in Range(dir[s])
  BY Zenon DEF Written
<1>2. \A r : r \in Replayable <=> \E s \in DOMAIN dir : r \in ReplaySegment(dir[s])
  BY Zenon DEF Replayable
<1> QED
  BY <1>1, <1>2

\* What is in the files is records and torn frames.
LEMMA FilesHoldFrames ==
    ASSUME TypeOK
    PROVE  /\ \A s \in DOMAIN dir : dir[s] \in Seq(Frame)
           /\ \A s \in DOMAIN dir : Range(dir[s]) \in SUBSET Frame
           /\ Written \in SUBSET Record
           /\ Replayable \in SUBSET Record
           /\ Replayable \subseteq Written
<1>1. \A s \in DOMAIN dir : dir[s] \in Seq(Frame)
  BY DEF TypeOK, Frame
<1>2. \A s \in DOMAIN dir : Range(dir[s]) \in SUBSET Frame
  BY <1>1 DEF Range
<1>3. Written \in SUBSET Record
  BY <1>2, InSomeFile DEF Frame
<1>4. \A s \in DOMAIN dir : ReplaySegment(dir[s]) \subseteq Range(dir[s]) \ {Torn}
  BY <1>1, ReplaySegmentIs
<1>5. Replayable \subseteq Written
  BY <1>4, InSomeFile
<1> QED
  BY <1>1, <1>2, <1>3, <1>5

\* open cuts every file after its last intact frame, reuses the last one and sets
\* next_lsn above all that it found; it creates a file when there is none.
LEMMA OpenEffect ==
    ASSUME TypeOK, Open
    PROVE  /\ DOMAIN dir \subseteq DOMAIN dir'
           /\ \A s \in DOMAIN dir : dir'[s] = Intact(dir[s])
           /\ \A s \in DOMAIN dir' \ DOMAIN dir : s = 0 /\ dir'[s] = << >>
           /\ DOMAIN dir' \subseteq 0 .. MaxLsn
           /\ active'.start \in DOMAIN dir'
           /\ \A s \in DOMAIN dir' : dir'[s] \in Seq(Record) /\ s <= active'.start
           /\ active' = [start |-> active'.start, max |-> MaxLsnOf(Range(dir'[active'.start]))]
           /\ size' = Len(dir'[active'.start])
           /\ synced' = Len(dir'[active'.start])
           /\ sealed' = {[start |-> s, max |-> MaxLsnOf(Range(dir'[s]))] :
                              s \in DOMAIN dir' \ {active'.start}}
           /\ Replayable' = Replayable
           /\ Written' = Replayable
           /\ nextLsn' \in 1 .. MaxLsn + 1
           /\ nextLsn' > published
           /\ \A r \in Replayable : r.lsn < nextLsn'
           /\ nextLsn' = published + 1 \/ \E r \in Replayable : nextLsn' = r.lsn + 1
           /\ unlisted' \subseteq DOMAIN dir'
<1> DEFINE names == IF DOMAIN dir = {} THEN {0} ELSE DOMAIN dir
           last  == Max(names)
           clean == [s \in names |-> IF s \in DOMAIN dir THEN Repaired(dir[s]) ELSE << >>]
           seg(s) == ReplayedSegment(s, clean[s])
<1>1. /\ dir' = clean
      /\ unlisted' = unlisted \cup (names \ DOMAIN dir)
      /\ active' = seg(last)
      /\ size' = Len(clean[last])
      /\ synced' = Len(clean[last])
      /\ sealed' = {seg(s) : s \in names \ {last}}
      /\ nextLsn' = FirstLsn
      /\ published' = published
  BY DEF Open
<1>2. MaxLsn \in Nat /\ names \in SUBSET (0 .. MaxLsn) /\ names # {}
  <2>1. MaxLsn \in Nat /\ 0 \in 0 .. MaxLsn
    BY RecordAssumption
  <2>2. DOMAIN dir \in SUBSET (0 .. MaxLsn)
    BY DEF TypeOK
  <2> QED BY <2>1, <2>2
<1>3. last \in names /\ \A s \in names : s <= last
  BY <1>2, MaxOfBounded
<1>4. /\ DOMAIN dir' = names
      /\ \A s \in DOMAIN dir : dir'[s] = Intact(dir[s]) /\ s \in names
      /\ \A s \in names \ DOMAIN dir : s = 0 /\ dir'[s] = << >>
      /\ clean = dir'
  BY <1>1 DEF Repaired
<1> HIDE DEF names, last, clean
<1>5. /\ \A s \in DOMAIN dir : dir[s] \in Seq(Frame)
      /\ Replayable \in SUBSET Record
  BY FilesHoldFrames
<1>6. \A s \in DOMAIN dir :
          Intact(dir[s]) \in Seq(Record) /\ Range(Intact(dir[s])) = ReplaySegment(dir[s])
  BY <1>5, IntactIs, ReplaySegmentIs
<1>7. \A s \in names : dir'[s] \in Seq(Record) /\ dir'[s] \in Seq(Frame)
  <2>1. << >> \in Seq(Record)
    OBVIOUS
  <2>2. \A s \in names : dir'[s] \in Seq(Record)
    BY <1>4, <1>6, <2>1
  <2> QED BY <2>2 DEF Frame
<1>8. \A s \in names : Torn \notin Range(dir'[s])
  BY <1>7, WalAssumption DEF Range
<1>9. \A s \in names : ReplaySegment(dir'[s]) = Range(dir'[s])
  BY <1>7, <1>8, ReplaySegmentIs
<1>10. \A s \in names : seg(s) = [start |-> s, max |-> MaxLsnOf(Range(dir'[s]))]
  BY <1>4, <1>9 DEF ReplayedSegment
<1>11. active'.start = last /\ active' = [start |-> last, max |-> MaxLsnOf(Range(dir'[last]))]
  BY <1>1, <1>3, <1>10
<1>12. sealed' = {[start |-> s, max |-> MaxLsnOf(Range(dir'[s]))] : s \in names \ {last}}
  BY <1>1, <1>10
<1>13. /\ \A s \in DOMAIN dir : Range(dir'[s]) = ReplaySegment(dir[s])
       /\ \A s \in names \ DOMAIN dir : Range(dir'[s]) = {}
  <2>1. Range(<< >>) = {}
    BY DEF Range
  <2> QED BY <1>4, <1>6, <2>1
<1>14. \A r : r \in Replayable <=> \E s \in names : r \in Range(dir'[s])
  BY <1>4, <1>13, InSomeFile
<1>15. Replayable' = UNION {ReplaySegment(dir'[s]) : s \in names}
  BY <1>4 DEF Replayable
<1>16. Written' = (UNION {Range(dir'[s]) : s \in names}) \ {Torn}
  BY <1>4 DEF Written
<1>a. \A r : /\ r \in Replayable' <=> \E s \in names : r \in ReplaySegment(dir'[s])
             /\ r \in Written' <=> r # Torn /\ \E s \in names : r \in Range(dir'[s])
  BY <1>15, <1>16, Zenon
<1>b. Replayable' = Replayable /\ Written' = Replayable
  BY <1>8, <1>9, <1>14, <1>a
<1>17. /\ MaxLsnOf(Replayable) \in 0 .. MaxLsn
       /\ \A r \in Replayable : r.lsn <= MaxLsnOf(Replayable)
       /\ MaxLsnOf(Replayable) = 0 \/ \E r \in Replayable : r.lsn = MaxLsnOf(Replayable)
  BY <1>5, MaxLsnOfRecords
<1>18. published \in 0 .. MaxLsn
  BY DEF TypeOK
<1> DEFINE S == {MaxLsnOf(Replayable), published}
<1>19. S \in SUBSET (0 .. MaxLsn) /\ S # {}
  BY <1>17, <1>18
<1>20. Max(S) \in S /\ \A x \in S : x <= Max(S)
  BY <1>2, <1>19, MaxOfBounded
<1>21. nextLsn' = Max(S) + 1
  BY <1>1 DEF FirstLsn
<1>22. /\ nextLsn' \in 1 .. MaxLsn + 1
       /\ nextLsn' > published
       /\ \A r \in Replayable : r.lsn < nextLsn'
       /\ nextLsn' = published + 1 \/ \E r \in Replayable : nextLsn' = r.lsn + 1
  <2>1. \A r \in Replayable : r.lsn \in Nat
    BY <1>5, RecordAssumption DEF Record, Lsn
  <2> HIDE DEF S
  <2>2. MaxLsnOf(Replayable) <= Max(S) /\ published <= Max(S) /\ Max(S) \in 0 .. MaxLsn
        /\ (Max(S) = MaxLsnOf(Replayable) \/ Max(S) = published)
    BY <1>19, <1>20 DEF S
  <2> QED BY <1>2, <1>17, <1>18, <1>21, <2>1, <2>2
<1>23. unlisted' \subseteq DOMAIN dir'
  BY <1>1, <1>4 DEF TypeOK
<1>24. DOMAIN dir \subseteq names
  BY <1>4
<1>25. /\ active'.start \in DOMAIN dir'
       /\ \A s \in DOMAIN dir' : s <= active'.start
       /\ size' = Len(dir'[active'.start])
       /\ synced' = Len(dir'[active'.start])
  BY <1>1, <1>3, <1>4, <1>11
<1> QED
  BY <1>2, <1>4, <1>7, <1>11, <1>12, <1>b, <1>22, <1>23, <1>24, <1>25

\* rotate adds an empty file, unless the name is there already.
LEMMA RotateEffect ==
    ASSUME TypeOK, Rotate
    PROVE  \E r \in arg.record :
             /\ r \in Record
             /\ DOMAIN dir' = DOMAIN dir \cup {r.lsn}
             /\ \A s \in DOMAIN dir : dir'[s] = dir[s]
             /\ r.lsn \notin DOMAIN dir => dir'[r.lsn] = << >>
             /\ Range(dir'[r.lsn]) = IF r.lsn \in DOMAIN dir THEN Range(dir[r.lsn]) ELSE {}
             /\ unlisted' = unlisted \cup ({r.lsn} \ DOMAIN dir)
             /\ active' = [start |-> r.lsn, max |-> 0]
             /\ synced' = Len(dir'[r.lsn])
             /\ Written' = Written
<1>1. PICK r \in arg.record :
          /\ dir' = IF r.lsn \in DOMAIN dir THEN dir
                    ELSE [s \in DOMAIN dir \cup {r.lsn} |->
                            IF s = r.lsn THEN << >> ELSE dir[s]]
          /\ unlisted' = unlisted \cup ({r.lsn} \ DOMAIN dir)
          /\ active' = [start |-> r.lsn, max |-> 0]
          /\ synced' = Len(dir'[r.lsn])
  BY DEF Rotate
<1>2. r \in Record
  BY <1>1 DEF TypeOK
<1>3. /\ DOMAIN dir' = DOMAIN dir \cup {r.lsn}
      /\ \A s \in DOMAIN dir : dir'[s] = dir[s]
      /\ r.lsn \notin DOMAIN dir => dir'[r.lsn] = << >>
  BY <1>1
<1>4. Range(<< >>) = {}
  BY DEF Range
<1>5. \A q : (\E s \in DOMAIN dir' : q \in Range(dir'[s]))
               <=> \E s \in DOMAIN dir : q \in Range(dir[s])
  BY <1>3, <1>4
<1>6. \A q : q \in Written' <=> q # Torn /\ \E s \in DOMAIN dir' : q \in Range(dir'[s])
  BY Zenon DEF Written
<1>7. Written' = Written
  BY <1>5, <1>6, InSomeFile
<1> QED
  BY <1>1, <1>2, <1>3, <1>4, <1>7

\* A frame goes to the end of the active file, and to no other.
LEMMA AppendFrameIs ==
    ASSUME TypeOK, NEW x \in Frame, dir' = AppendFrame(dir, active.start, x)
    PROVE  /\ DOMAIN dir' = DOMAIN dir
           /\ \A s \in DOMAIN dir : dir'[s] \in Seq(Frame)
           /\ \A s \in DOMAIN dir : s # active.start => dir'[s] = dir[s]
           /\ active.start \in DOMAIN dir =>
                /\ dir'[active.start] = Append(dir[active.start], x)
                /\ Range(dir'[active.start]) = Range(dir[active.start]) \cup {x}
                /\ Len(dir'[active.start]) = Len(dir[active.start]) + 1
                /\ dir'[active.start][Len(dir[active.start]) + 1] = x
                /\ \A i \in 1 .. Len(dir[active.start]) :
                      dir'[active.start][i] = dir[active.start][i]
           /\ Written' \subseteq (Written \cup {x}) \ {Torn}
           /\ active.start \in DOMAIN dir => Written' = (Written \cup {x}) \ {Torn}
<1>1. \A s \in DOMAIN dir : dir[s] \in Seq(Frame)
  BY FilesHoldFrames
<1>2. /\ DOMAIN dir' = DOMAIN dir
      /\ \A s \in DOMAIN dir : s # active.start => dir'[s] = dir[s]
      /\ active.start \in DOMAIN dir => dir'[active.start] = Append(dir[active.start], x)
  BY DEF AppendFrame
<1>3. \A q : q \in Written' <=> q # Torn /\ \E s \in DOMAIN dir' : q \in Range(dir'[s])
  BY Zenon DEF Written
<1>4. CASE active.start \in DOMAIN dir
  <2> DEFINE f == dir[active.start]
  <2>1. f \in Seq(Frame) /\ dir'[active.start] = Append(f, x)
    BY <1>1, <1>2, <1>4
  <2> HIDE DEF f
  <2>2. /\ Append(f, x) \in Seq(Frame)
        /\ Len(Append(f, x)) = Len(f) + 1
        /\ \A i \in 1 .. Len(f) : Append(f, x)[i] = f[i]
        /\ Append(f, x)[Len(f) + 1] = x
    BY <2>1, AppendProperties
  <2>3. Range(Append(f, x)) = Range(f) \cup {x}
    BY <2>1, RangeOfAppend
  <2>4. Range(dir'[active.start]) = Range(dir[active.start]) \cup {x}
    BY <2>1, <2>3 DEF f
  <2>5. \A q : (\E s \in DOMAIN dir' : q \in Range(dir'[s]))
                 <=> q = x \/ \E s \in DOMAIN dir : q \in Range(dir[s])
    BY <1>2, <1>4, <2>4
  <2>6. Written' = (Written \cup {x}) \ {Torn}
    BY <1>3, <2>5, InSomeFile
  <2>7. \A s \in DOMAIN dir : dir'[s] \in Seq(Frame)
    BY <1>1, <1>2, <2>1, <2>2
  <2> QED BY <1>2, <2>1, <2>2, <2>4, <2>6, <2>7 DEF f
<1>5. CASE active.start \notin DOMAIN dir
  <2>1. \A s \in DOMAIN dir : dir'[s] = dir[s]
    BY <1>2, <1>5
  <2>2. Written' \subseteq Written
    BY <1>2, <1>3, <2>1, InSomeFile
  <2>3. Torn \notin Written
    BY InSomeFile
  <2> QED BY <1>1, <1>2, <1>5, <2>1, <2>2, <2>3
<1> QED
  BY <1>4, <1>5

\* remove_file takes one file away.
LEMMA RemoveEffect ==
    ASSUME NEW g, RemoveFile(g)
    PROVE  /\ DOMAIN dir' = DOMAIN dir \ {g.start}
           /\ \A t \in DOMAIN dir' : dir'[t] = dir[t]
           /\ Written' \subseteq Written
<1>1. /\ DOMAIN dir' = DOMAIN dir \ {g.start}
      /\ \A t \in DOMAIN dir' : dir'[t] = dir[t]
  BY DEF RemoveFile, Without
<1>2. \A q : q \in Written' <=> q # Torn /\ \E t \in DOMAIN dir' : q \in Range(dir'[t])
  BY Zenon DEF Written
<1> QED
  BY <1>1, <1>2, InSomeFile

\* A crash leaves the sealed files as they are, or a power failure takes a whole file;
\* the active one keeps a prefix, and may end torn.
LEMMA CrashEffect ==
    ASSUME TypeOK, Crash
    PROVE  /\ DOMAIN dir' \subseteq DOMAIN dir
           /\ "power_loss" \notin WalFaults => DOMAIN dir' = DOMAIN dir
           /\ unlisted' \subseteq DOMAIN dir'
           /\ \A s \in DOMAIN dir' : dir'[s] \in Seq(Frame)
           /\ \A s \in DOMAIN dir' : s # active.start => dir'[s] = dir[s]
           /\ active.start \in DOMAIN dir' =>
                 dir'[active.start] \in Survivors(dir[active.start], synced)
           /\ Written' \subseteq Written
<1>1. PICK lost \in SUBSET unlisted :
        /\ \/ lost = {} /\ UNCHANGED unlisted
           \/ "power_loss" \in WalFaults /\ unlisted' = {}
        /\ IF active.start \in DOMAIN dir \ lost
           THEN \E f \in Survivors(dir[active.start], synced) :
                   dir' = Without([dir EXCEPT ![active.start] = f], lost)
           ELSE dir' = Without(dir, lost)
  BY DEF Crash
<1>2. \A s \in DOMAIN dir : dir[s] \in Seq(Frame)
  BY FilesHoldFrames
<1>3. /\ DOMAIN dir' = DOMAIN dir \ lost
      /\ \A s \in DOMAIN dir' : s # active.start => dir'[s] = dir[s]
      /\ active.start \in DOMAIN dir' =>
            dir'[active.start] \in Survivors(dir[active.start], synced)
  <2>1. CASE active.start \in DOMAIN dir \ lost
    <3>1. PICK f \in Survivors(dir[active.start], synced) :
              dir' = Without([dir EXCEPT ![active.start] = f], lost)
      BY <1>1, <2>1
    <3>2. /\ DOMAIN dir' = DOMAIN dir \ lost
          /\ \A s \in DOMAIN dir \ lost :
                dir'[s] = IF s = active.start THEN f ELSE dir[s]
      BY <3>1 DEF Without
    <3> QED BY <3>1, <3>2
  <2>2. CASE active.start \notin DOMAIN dir \ lost
    BY <1>1, <2>2 DEF Without
  <2> QED BY <2>1, <2>2
<1>4. active.start \in DOMAIN dir' =>
        /\ dir'[active.start] \in Seq(Frame)
        /\ Range(dir'[active.start]) \subseteq Range(dir[active.start]) \cup {Torn}
  <2> HAVE active.start \in DOMAIN dir'
  <2>1. dir[active.start] \in Seq(Frame) /\ synced \in Nat
    BY <1>2, <1>3 DEF TypeOK
  <2>2. dir'[active.start] \in Survivors(dir[active.start], synced)
    BY <1>3
  <2> QED BY <2>1, <2>2, SurvivorIs
<1>5. \A s \in DOMAIN dir' : dir'[s] \in Seq(Frame)
  BY <1>2, <1>3, <1>4
<1>6. \A q : q \in Written' <=> q # Torn /\ \E s \in DOMAIN dir' : q \in Range(dir'[s])
  BY Zenon DEF Written
<1>7. \A q : q # Torn /\ (\E s \in DOMAIN dir' : q \in Range(dir'[s]))
               => \E s \in DOMAIN dir : q \in Range(dir[s])
  BY <1>3, <1>4
<1>8. Written' \subseteq Written
  BY <1>6, <1>7, InSomeFile
<1>9. unlisted' \subseteq DOMAIN dir'
  BY <1>1, <1>3 DEF TypeOK
<1>10. "power_loss" \notin WalFaults => lost = {}
  BY <1>1
<1> QED
  BY <1>3, <1>5, <1>8, <1>9, <1>10

------------------------------------------------------------------------------
(* Type correctness.                                                        *)

\* Every step keeps the types: the names, LSNs and watermarks stay within the bounds
\* and the files hold frames.
LEMMA TypeStep ==
    ASSUME TypeOK, [Next]_vars
    PROVE  TypeOK'
<1>0. /\ MaxLsn \in Nat
      /\ \A r \in Record : r.lsn \in 1 .. MaxLsn
      /\ \A s \in DOMAIN dir : dir[s] \in Seq(Frame)
      /\ Frame = Record \cup {Torn}
      /\ Idle \in [record : SUBSET Record, remove : SUBSET Segment]
  BY RecordAssumption, FilesHoldFrames DEF Record, Lsn, Frame, Idle
<1>1. CASE Open
  <2>1. /\ DOMAIN dir' \subseteq 0 .. MaxLsn
        /\ active'.start \in DOMAIN dir'
        /\ \A s \in DOMAIN dir' : dir'[s] \in Seq(Record)
        /\ active' = [start |-> active'.start, max |-> MaxLsnOf(Range(dir'[active'.start]))]
        /\ size' = Len(dir'[active'.start])
        /\ synced' = Len(dir'[active'.start])
        /\ sealed' = {[start |-> s, max |-> MaxLsnOf(Range(dir'[s]))] :
                           s \in DOMAIN dir' \ {active'.start}}
        /\ nextLsn' \in 1 .. MaxLsn + 1
        /\ unlisted' \subseteq DOMAIN dir'
    BY <1>1, OpenEffect
  <2>2. \A s \in DOMAIN dir' : Range(dir'[s]) \in SUBSET Record
    BY <2>1 DEF Range
  <2>3. \A s \in DOMAIN dir' : MaxLsnOf(Range(dir'[s])) \in 0 .. MaxLsn
    BY <2>2, MaxLsnOfRecords
  <2>4. active' \in Segment /\ sealed' \in SUBSET Segment
    BY <2>1, <2>3 DEF Segment
  <2>5. \A s \in DOMAIN dir' : dir'[s] \in Seq(Record \cup {Torn}) /\ Len(dir'[s]) \in Nat
    BY <2>1
  <2>6. size' \in Nat /\ synced' \in Nat
    BY <2>1, <2>5
  <2> QED BY <1>1, <2>1, <2>4, <2>5, <2>6 DEF Open, TypeOK
<1>2. ASSUME NEW k \in Keys, NEW v \in Values \cup {Tombstone}, TakeLsn(k, v)
      PROVE  TypeOK'
  <2>1. nextLsn \in 1 .. MaxLsn
    BY <1>0, <1>2 DEF TakeLsn, TypeOK
  <2>2. [key |-> k, lsn |-> nextLsn, val |-> v] \in Record
    BY <2>1 DEF Record, Lsn
  <2>3. inflight' \subseteq Record /\ nextLsn' \in 1 .. MaxLsn + 1
    BY <1>0, <1>2, <2>1, <2>2 DEF TakeLsn, TypeOK
  <2> QED BY <1>2, <2>3 DEF TakeLsn, TypeOK
<1>3. ASSUME NEW r \in inflight, AppendLock(r) PROVE TypeOK'
  <2>1. arg' \in [record : SUBSET Record, remove : SUBSET Segment]
    BY <1>0, <1>3 DEF AppendLock, Idle, TypeOK
  <2>2. at' \in {"rotate", "write"}
    BY <1>3 DEF AppendLock
  <2> QED BY <1>3, <2>1, <2>2 DEF AppendLock, TypeOK
<1>4. CASE Rotate
  <2>1. PICK r \in arg.record :
           /\ r \in Record
           /\ DOMAIN dir' = DOMAIN dir \cup {r.lsn}
           /\ \A s \in DOMAIN dir : dir'[s] = dir[s]
           /\ r.lsn \notin DOMAIN dir => dir'[r.lsn] = << >>
           /\ unlisted' = unlisted \cup ({r.lsn} \ DOMAIN dir)
           /\ active' = [start |-> r.lsn, max |-> 0]
           /\ synced' = Len(dir'[r.lsn])
    BY <1>4, RotateEffect
  <2>2. << >> \in Seq(Frame)
    OBVIOUS
  <2>3. \A s \in DOMAIN dir' : dir'[s] \in Seq(Frame)
    BY <1>0, <2>1, <2>2
  <2>4. synced' \in Nat
    BY <2>1, <2>3
  <2>5. r.lsn \in 0 .. MaxLsn /\ 0 \in 0 .. MaxLsn
    BY <1>0, <2>1
  <2>6. active' \in Segment /\ DOMAIN dir' \subseteq 0 .. MaxLsn /\ unlisted' \subseteq DOMAIN dir'
    BY <2>1, <2>5 DEF Segment, TypeOK
  <2>7. sealed' \subseteq Segment /\ size' = 0 /\ at' = "write"
    BY <1>4 DEF Rotate, TypeOK
  <2> QED BY <1>0, <1>4, <2>3, <2>4, <2>6, <2>7 DEF Rotate, TypeOK
<1>5. CASE WriteFrame
  <2>1. PICK r \in arg.record : dir' = AppendFrame(dir, active.start, r)
    BY <1>5 DEF WriteFrame
  <2>2. r \in Frame
    BY <1>0, <2>1 DEF TypeOK
  <2>3. DOMAIN dir' = DOMAIN dir /\ \A s \in DOMAIN dir : dir'[s] \in Seq(Frame)
    BY <2>1, <2>2, AppendFrameIs
  <2>4. doubtful' \subseteq Record
    BY <1>5 DEF WriteFrame, TypeOK
  <2> QED BY <1>0, <1>5, <2>3, <2>4 DEF WriteFrame, TypeOK
<1>6. CASE WriteFail
  <2>1. dir' = AppendFrame(dir, active.start, Torn) /\ Torn \in Frame
    BY <1>0, <1>6 DEF WriteFail
  <2>2. DOMAIN dir' = DOMAIN dir /\ \A s \in DOMAIN dir : dir'[s] \in Seq(Frame)
    BY <2>1, AppendFrameIs
  <2>3. doubtful' \subseteq Record /\ inflight' \subseteq Record
    BY <1>6 DEF WriteFail, TypeOK
  <2> QED BY <1>0, <1>6, <2>2, <2>3 DEF WriteFail, TypeOK
<1>7. CASE SyncFrame
  <2>1. arg.record \subseteq Record /\ active.max \in 0 .. MaxLsn /\ active.start \in 0 .. MaxLsn
        /\ active = [start |-> active.start, max |-> active.max]
    BY DEF TypeOK, Segment
  <2> DEFINE S == {active.max} \cup {r.lsn : r \in arg.record}
  <2>2. S \in SUBSET (0 .. MaxLsn) /\ S # {}
    BY <1>0, <2>1
  <2>3. Max(S) \in S
    BY <1>0, <2>2, MaxOfBounded
  <2>4. RaisedMax = Max(S)
    BY DEF RaisedMax
  <2> HIDE DEF S
  <2>5. RaisedMax \in 0 .. MaxLsn
    BY <2>2, <2>3, <2>4
  <2>6. active' \in Segment
    BY <1>7, <2>1, <2>5 DEF SyncFrame, Segment
  <2>7. synced' \in Nat /\ size' \in Nat
    BY <1>0, <1>7 DEF SyncFrame, TypeOK
  <2>8. doubtful' \subseteq Record /\ inflight' \subseteq Record
    BY <1>7 DEF SyncFrame, TypeOK
  <2> QED BY <1>0, <1>7, <2>6, <2>7, <2>8 DEF SyncFrame, TypeOK
<1>8. CASE AppendFail
  BY <1>0, <1>8 DEF AppendFail, TypeOK
<1>9. ASSUME NEW w \in Lsn, TruncateThrough(w) PROVE TypeOK'
  <2> DEFINE covered == CoveredBy(w)
  <2>1. /\ sealed' = sealed \ covered
        /\ arg' = [Idle EXCEPT !.remove = covered]
        /\ at' \in {"idle", "remove"}
        /\ published' = Max({published, w})
    BY <1>9 DEF TruncateThrough
  <2>2. covered \subseteq Segment /\ sealed' \subseteq Segment
    BY <2>1 DEF CoveredBy, TypeOK
  <2> HIDE DEF covered
  <2>4. arg' \in [record : SUBSET Record, remove : SUBSET Segment]
    BY <1>0, <2>1, <2>2 DEF Idle
  <2> DEFINE S == {published, w}
  <2>5. S \in SUBSET (0 .. MaxLsn) /\ S # {}
    BY <1>0 DEF TypeOK, Lsn
  <2>6. Max(S) \in S
    BY <1>0, <2>5, MaxOfBounded
  <2>7. published' \in 0 .. MaxLsn
    BY <2>1, <2>5, <2>6
  <2> QED BY <1>9, <2>1, <2>2, <2>4, <2>7 DEF TruncateThrough, TypeOK
<1>10. ASSUME NEW g \in arg.remove, RemoveFile(g) PROVE TypeOK'
  <2>1. DOMAIN dir' = DOMAIN dir \ {g.start} /\ \A t \in DOMAIN dir' : dir'[t] = dir[t]
    BY <1>10, RemoveEffect
  <2>2. arg' \in [record : SUBSET Record, remove : SUBSET Segment]
    BY <1>10 DEF RemoveFile, TypeOK
  <2>3. unlisted' \subseteq DOMAIN dir' /\ DOMAIN dir' \subseteq 0 .. MaxLsn
    BY <1>10, <2>1 DEF RemoveFile, TypeOK
  <2>4. at' \in {"idle", "remove"}
    BY <1>10 DEF RemoveFile
  <2> QED BY <1>10, <2>1, <2>2, <2>3, <2>4 DEF RemoveFile, TypeOK
<1>11. CASE RemoveFail
  BY <1>0, <1>11 DEF RemoveFail, TypeOK
<1>12. CASE Crash
  <2>1. /\ DOMAIN dir' \subseteq DOMAIN dir
        /\ unlisted' \subseteq DOMAIN dir'
        /\ \A s \in DOMAIN dir' : dir'[s] \in Seq(Frame)
    BY <1>12, CrashEffect
  <2>2. active' \in Segment /\ nextLsn' \in 1 .. MaxLsn + 1
    BY <1>0, <1>12 DEF Crash, Segment
  <2>3. crashes' \in 0 .. MaxCrashes
    BY <1>12, WalAssumption DEF Crash, TypeOK
  <2> QED BY <1>0, <1>12, <2>1, <2>2, <2>3 DEF Crash, TypeOK
<1>13. CASE UNCHANGED vars
  BY <1>13 DEF vars, TypeOK
<1> QED
  BY <1>1, <1>2, <1>3, <1>4, <1>5, <1>6, <1>7, <1>8, <1>9, <1>10, <1>11, <1>12, <1>13 DEF Next

\* The names, LSNs and watermarks of the log stay within their bounds and its files
\* hold frames, whatever fails and however many appends are in flight.
THEOREM WalTypeCorrect == Spec => []TypeOK
<1>1. Init => TypeOK
  BY RecordAssumption, WalAssumption DEF Init, TypeOK, Segment, Idle
<1> QED
  BY <1>1, TypeStep, PTL DEF Spec

------------------------------------------------------------------------------
(* An LSN names one record.                                                 *)

\* A step that writes nothing new and takes no LSN keeps LSNs unique.
LEMMA LsnsKept ==
    ASSUME LsnInv, Written' \cup inflight' \subseteq Written \cup inflight,
           at' # "closed" => at # "closed" /\ nextLsn' = nextLsn
    PROVE  /\ \A q, r \in Written' \cup inflight' : q.lsn = r.lsn => q = r
           /\ at' # "closed" => \A r \in Written' \cup inflight' : r.lsn < nextLsn'
  BY DEF LsnInv

\* Every step keeps an LSN to one record.  A crash forgets next_lsn, and open sets it
\* above all that a replay finds after it has cut away what no replay reaches.
LEMMA LsnStep ==
    ASSUME LsnInv, [Next]_vars
    PROVE  LsnInv'
<1>0. /\ TypeOK /\ TypeOK'
      /\ \A r \in Record : r.lsn \in Nat
      /\ Written \in SUBSET Record
      /\ Replayable \subseteq Written
      /\ Idle.record = {}
  BY TypeStep, FilesHoldFrames, RecordAssumption DEF LsnInv, Record, Lsn, Idle
<1>a. Appending = {"rotate", "write", "sync"}
  BY DEF Appending
<1>b. ASSUME dir' = dir PROVE Written' = Written
  BY <1>b DEF Written
<1>1. CASE Open
  <2>1. /\ Written' = Replayable
        /\ \A r \in Replayable : r.lsn < nextLsn'
    BY <1>0, <1>1, OpenEffect
  <2>2. /\ at = "closed" /\ at' = "idle" /\ arg' = arg
        /\ inflight' = inflight /\ doubtful' = doubtful
    BY <1>1 DEF Open
  <2>3. inflight = {} /\ arg = Idle
    BY <2>2 DEF LsnInv
  <2>4. \A q, r \in Written' \cup inflight' : q.lsn = r.lsn => q = r
    BY <1>0, <2>1, <2>2, <2>3 DEF LsnInv
  <2> QED BY <1>0, <1>a, <2>1, <2>2, <2>3, <2>4 DEF LsnInv
<1>2. ASSUME NEW k \in Keys, NEW v \in Values \cup {Tombstone}, TakeLsn(k, v)
      PROVE  LsnInv'
  <2> DEFINE n == [key |-> k, lsn |-> nextLsn, val |-> v]
  <2>1. /\ at # "closed" /\ at' = at /\ arg' = arg /\ doubtful' = doubtful
        /\ inflight' = inflight \cup {n} /\ nextLsn' = nextLsn + 1
        /\ Written' = Written
    BY <1>2, <1>b DEF TakeLsn
  <2>2. n.lsn = nextLsn /\ nextLsn \in Nat
    BY <1>0 DEF TypeOK
  <2> HIDE DEF n
  <2>3. /\ \A r \in Written \cup inflight : r.lsn < nextLsn /\ r.lsn \in Nat
        /\ \A q, r \in Written \cup inflight : q.lsn = r.lsn => q = r
    BY <1>0, <2>1 DEF LsnInv, TypeOK
  <2>4. /\ \A r \in Written' \cup inflight' : r.lsn < nextLsn'
        /\ \A q, r \in Written' \cup inflight' : q.lsn = r.lsn => q = r
    BY <2>1, <2>2, <2>3
  <2> QED BY <1>0, <2>1, <2>4 DEF LsnInv
<1>3. ASSUME NEW r \in inflight, AppendLock(r) PROVE LsnInv'
  <2>1. /\ at = "idle" /\ at' \in {"rotate", "write"} /\ arg'.record = {r}
        /\ inflight' = inflight /\ doubtful' = doubtful /\ nextLsn' = nextLsn
        /\ Written' = Written
    BY <1>3, <1>b DEF AppendLock, Idle
  <2>2. /\ \A q, p \in Written' \cup inflight' : q.lsn = p.lsn => q = p
        /\ \A p \in Written' \cup inflight' : p.lsn < nextLsn'
    BY <2>1, LsnsKept
  <2> QED BY <1>0, <1>3, <1>a, <2>1, <2>2 DEF LsnInv
<1>4. CASE Rotate
  <2>1. Written' = Written
    BY <1>0, <1>4, RotateEffect
  <2>2. /\ at = "rotate" /\ at' = "write" /\ arg' = arg
        /\ inflight' = inflight /\ doubtful' = doubtful /\ nextLsn' = nextLsn
    BY <1>4 DEF Rotate
  <2>3. /\ \A q, p \in Written' \cup inflight' : q.lsn = p.lsn => q = p
        /\ \A p \in Written' \cup inflight' : p.lsn < nextLsn'
    BY <2>1, <2>2, LsnsKept
  <2> QED BY <1>0, <1>a, <2>2, <2>3 DEF LsnInv
<1>5. CASE WriteFrame
  <2>1. PICK r \in arg.record : dir' = AppendFrame(dir, active.start, r)
    BY <1>5 DEF WriteFrame
  <2>2. /\ at = "write" /\ at' = "sync" /\ arg' = arg
        /\ inflight' = inflight /\ nextLsn' = nextLsn
    BY <1>5 DEF WriteFrame
  <2>3. r \in inflight /\ r \in Record
    BY <1>0, <1>a, <2>1, <2>2 DEF LsnInv, TypeOK
  <2>4. Written' \subseteq Written \cup {r}
    BY <1>0, <2>1, <2>3, AppendFrameIs DEF Frame
  <2>5. /\ \A q, p \in Written' \cup inflight' : q.lsn = p.lsn => q = p
        /\ \A p \in Written' \cup inflight' : p.lsn < nextLsn'
    BY <2>2, <2>3, <2>4, LsnsKept
  <2> QED BY <1>0, <1>a, <2>2, <2>5 DEF LsnInv
<1>6. CASE WriteFail
  <2>1. Written' \subseteq Written
    BY <1>0, <1>6, AppendFrameIs DEF WriteFail, Frame
  <2>2. /\ at = "write" /\ at' = "idle" /\ arg' = Idle
        /\ inflight' \subseteq inflight /\ nextLsn' = nextLsn
    BY <1>6 DEF WriteFail
  <2>3. /\ \A q, p \in Written' \cup inflight' : q.lsn = p.lsn => q = p
        /\ \A p \in Written' \cup inflight' : p.lsn < nextLsn'
    BY <2>1, <2>2, LsnsKept
  <2> QED BY <1>0, <1>a, <2>2, <2>3 DEF LsnInv
<1>7. CASE SyncFrame \/ AppendFail
  <2>1. /\ at \in {"rotate", "sync"} /\ at' = "idle" /\ arg' = Idle
        /\ inflight' \subseteq inflight /\ nextLsn' = nextLsn
        /\ Written' = Written
    BY <1>7, <1>b DEF SyncFrame, AppendFail
  <2>2. /\ \A q, p \in Written' \cup inflight' : q.lsn = p.lsn => q = p
        /\ \A p \in Written' \cup inflight' : p.lsn < nextLsn'
    BY <2>1, LsnsKept
  <2> QED BY <1>0, <1>a, <2>1, <2>2 DEF LsnInv
<1>8. ASSUME NEW w \in Lsn, TruncateThrough(w) PROVE LsnInv'
  <2>1. /\ at = "idle" /\ at' \in {"idle", "remove"} /\ arg'.record = {}
        /\ inflight' = inflight /\ nextLsn' = nextLsn
        /\ Written' = Written
    BY <1>8, <1>b DEF TruncateThrough, Idle
  <2>2. /\ \A q, p \in Written' \cup inflight' : q.lsn = p.lsn => q = p
        /\ \A p \in Written' \cup inflight' : p.lsn < nextLsn'
    BY <2>1, LsnsKept
  <2> QED BY <1>0, <1>a, <2>1, <2>2 DEF LsnInv
<1>9. ASSUME NEW g \in arg.remove, RemoveFile(g) PROVE LsnInv'
  <2>1. Written' \subseteq Written
    BY <1>9, RemoveEffect
  <2>2. /\ at = "remove" /\ at' \in {"idle", "remove"} /\ arg'.record = arg.record
        /\ inflight' = inflight /\ nextLsn' = nextLsn
    BY <1>0, <1>9 DEF RemoveFile, TypeOK
  <2>3. /\ \A q, p \in Written' \cup inflight' : q.lsn = p.lsn => q = p
        /\ \A p \in Written' \cup inflight' : p.lsn < nextLsn'
    BY <2>1, <2>2, LsnsKept
  <2>4. arg.record = {}
    BY <1>a, <2>2 DEF LsnInv
  <2> QED BY <1>0, <1>a, <2>2, <2>3, <2>4 DEF LsnInv
<1>10. CASE RemoveFail
  <2>1. /\ at = "remove" /\ at' = "idle" /\ arg' = Idle
        /\ inflight' = inflight /\ nextLsn' = nextLsn
        /\ Written' = Written
    BY <1>10, <1>b DEF RemoveFail
  <2>2. /\ \A q, p \in Written' \cup inflight' : q.lsn = p.lsn => q = p
        /\ \A p \in Written' \cup inflight' : p.lsn < nextLsn'
    BY <2>1, LsnsKept
  <2> QED BY <1>0, <1>a, <2>1, <2>2 DEF LsnInv
<1>11. CASE Crash
  <2>1. Written' \subseteq Written
    BY <1>0, <1>11, CrashEffect
  <2>2. at' = "closed" /\ arg' = Idle /\ inflight' = {} /\ doubtful' = {} /\ sealed' = {}
    BY <1>11 DEF Crash
  <2>3. \A q, p \in Written' \cup inflight' : q.lsn = p.lsn => q = p
    BY <2>1, <2>2, LsnsKept
  <2> QED BY <1>0, <1>a, <2>2, <2>3 DEF LsnInv
<1>12. CASE UNCHANGED vars
  <2>1. /\ at' = at /\ arg' = arg /\ inflight' = inflight /\ doubtful' = doubtful
        /\ nextLsn' = nextLsn /\ sealed' = sealed /\ Written' = Written
    BY <1>12, <1>b DEF vars
  <2> QED BY <1>0, <2>1 DEF LsnInv
<1> QED
  BY <1>1, <1>2, <1>3, <1>4, <1>5, <1>6, <1>7, <1>8, <1>9, <1>10, <1>11, <1>12 DEF Next

\* The log starts empty.
LEMMA LsnInit ==
    ASSUME Init
    PROVE  LsnInv
<1>1. TypeOK
  BY RecordAssumption, WalAssumption DEF Init, TypeOK, Segment, Idle
<1>2. DOMAIN dir = {} /\ at = "closed" /\ inflight = {} /\ doubtful = {} /\ sealed = {} /\ arg = Idle
  BY DEF Init
<1>3. Written = {}
  BY <1>2, InSomeFile
<1> QED
  BY <1>1, <1>2, <1>3 DEF LsnInv, Appending, Idle

\* The invariant behind the unambiguous replay.
THEOREM LsnInvariantHolds == Spec => []LsnInv
<1> QED
  BY LsnInit, LsnStep, PTL DEF Spec

\* A replay never returns two different records with one LSN: not after failed
\* appends, not after a power failure took segments out of the middle of the log, and
\* not when LSNs are handed out again after the restart.
THEOREM ReplayUnambiguous == Spec => []ReplayIsUnambiguous
<1>1. LsnInv => ReplayIsUnambiguous
  <2> SUFFICES ASSUME LsnInv PROVE ReplayIsUnambiguous
    OBVIOUS
  <2>1. Replayable \subseteq Written
    BY FilesHoldFrames DEF LsnInv
  <2> QED BY <2>1 DEF LsnInv, ReplayIsUnambiguous
<1> QED
  BY <1>1, LsnInvariantHolds, PTL

------------------------------------------------------------------------------
(* What was synced is replayed.                                             *)

\* With no torn frame but the last one of a file, a replay finds every record.
LEMMA TornIsLast ==
    ASSUME TypeOK, TornInv
    PROVE  /\ \A s \in DOMAIN dir : ReplaySegment(dir[s]) = Range(dir[s]) \ {Torn}
           /\ Replayable = Written
           /\ at # "closed" => \A s \in DOMAIN dir : Torn \notin Range(dir[s])
<1>1. \A s \in DOMAIN dir : dir[s] \in Seq(Frame)
  BY FilesHoldFrames
<1>2. ASSUME NEW s \in DOMAIN dir, NEW r \in Range(dir[s]) \ {Torn}
      PROVE  r \in ReplaySegment(dir[s])
  <2> DEFINE f == dir[s]
  <2>1. f \in Seq(Frame)
    BY <1>1
  <2>2. \A i \in DOMAIN f : f[i] = Torn => i = Len(f)
    BY DEF TornInv
  <2>3. PICK i \in DOMAIN f : f[i] = r
    BY DEF Range
  <2> HIDE DEF f
  <2>4. /\ Intact(f) \in Seq(Record)
        /\ \A j \in 1 .. Len(Intact(f)) : Intact(f)[j] = f[j]
        /\ \A k \in 1 .. Len(f) : (\A j \in 1 .. k : f[j] # Torn) => k <= Len(Intact(f))
    BY <2>1, IntactIs
  <2>5. i \in 1 .. Len(f) /\ r # Torn /\ Len(f) \in Nat /\ DOMAIN f = 1 .. Len(f)
    BY <2>1, <2>3
  <2>6. \A j \in 1 .. i : f[j] # Torn
    BY <2>2, <2>3, <2>5
  <2>7. i \in 1 .. Len(Intact(f)) /\ Len(Intact(f)) \in Nat
    BY <2>4, <2>5, <2>6
  <2>8. i \in DOMAIN Intact(f) /\ Intact(f)[i] = r
    BY <2>3, <2>4, <2>7
  <2> QED BY <2>8 DEF ReplaySegment, Range, f
<1>3. \A s \in DOMAIN dir : ReplaySegment(dir[s]) \subseteq Range(dir[s]) \ {Torn}
  BY <1>1, ReplaySegmentIs
<1>4. \A s \in DOMAIN dir : ReplaySegment(dir[s]) = Range(dir[s]) \ {Torn}
  BY <1>2, <1>3
<1>5. Replayable = Written
  BY <1>4, InSomeFile
<1>6. at # "closed" => \A s \in DOMAIN dir : Torn \notin Range(dir[s])
  BY DEF TornInv, Range
<1> QED
  BY <1>4, <1>5, <1>6

FindsAll == Replayable = Written

\* The same, in a form that carries over to the next state.
LEMMA TornFindsAll == TypeOK /\ TornInv => FindsAll
  BY TornIsLast DEF FindsAll

\* Without short writes every step keeps the torn frames where a replay may ignore
\* them.
LEMMA TornStep ==
    ASSUME TypeOK, TornInv, [Next]_vars, "short_write" \notin WalFaults
    PROVE  TornInv'
<1>0. /\ \A s \in DOMAIN dir : dir[s] \in Seq(Frame)
      /\ Torn \notin Record
  BY FilesHoldFrames, WalAssumption
<1>1. ASSUME \A s \in DOMAIN dir' : s \in DOMAIN dir /\ dir'[s] = dir[s],
             at' # "closed" => at # "closed"
      PROVE  TornInv'
  BY <1>1 DEF TornInv
<1>2. ASSUME \A s \in DOMAIN dir' : \A i \in DOMAIN dir'[s] : dir'[s][i] # Torn
      PROVE  TornInv'
  BY <1>2 DEF TornInv
<1>3. CASE Open
  <2>1. \A s \in DOMAIN dir' : dir'[s] \in Seq(Record)
    BY <1>3, OpenEffect
  <2>2. \A s \in DOMAIN dir' : \A i \in DOMAIN dir'[s] : dir'[s][i] \in Record
    BY <2>1
  <2> QED BY <1>0, <1>2, <2>2
<1>4. CASE Rotate
  <2>1. PICK r \in arg.record :
           /\ DOMAIN dir' = DOMAIN dir \cup {r.lsn}
           /\ \A s \in DOMAIN dir : dir'[s] = dir[s]
           /\ r.lsn \notin DOMAIN dir => dir'[r.lsn] = << >>
    BY <1>4, RotateEffect
  <2>2. at = "rotate"
    BY <1>4 DEF Rotate
  <2>3. \A s \in DOMAIN dir : \A i \in DOMAIN dir[s] : dir[s][i] # Torn
    BY <2>2 DEF TornInv
  <2>4. DOMAIN << >> = {}
    OBVIOUS
  <2>5. \A s \in DOMAIN dir' : \A i \in DOMAIN dir'[s] : dir'[s][i] # Torn
    BY <2>1, <2>3, <2>4
  <2> QED BY <1>2, <2>5
<1>5. CASE WriteFrame
  <2>1. PICK r \in arg.record : dir' = AppendFrame(dir, active.start, r)
    BY <1>5 DEF WriteFrame
  <2>2. r \in Record /\ r \in Frame
    BY <2>1 DEF TypeOK, Frame
  <2>3. at = "write"
    BY <1>5 DEF WriteFrame
  <2>4. \A s \in DOMAIN dir : Torn \notin Range(dir[s])
    BY <2>3, TornIsLast
  <2>5. /\ DOMAIN dir' = DOMAIN dir
        /\ \A s \in DOMAIN dir : s # active.start => dir'[s] = dir[s]
        /\ active.start \in DOMAIN dir =>
              Range(dir'[active.start]) = Range(dir[active.start]) \cup {r}
    BY <2>1, <2>2, AppendFrameIs
  <2>6. \A s \in DOMAIN dir' : Torn \notin Range(dir'[s])
    BY <1>0, <2>2, <2>4, <2>5
  <2>7. \A s \in DOMAIN dir' : \A i \in DOMAIN dir'[s] : dir'[s][i] # Torn
    BY <2>6 DEF Range
  <2> QED BY <1>2, <2>7
<1>6. CASE WriteFail
  BY <1>6 DEF WriteFail
<1>7. ASSUME NEW g \in arg.remove, RemoveFile(g) PROVE TornInv'
  <2>1. DOMAIN dir' = DOMAIN dir \ {g.start} /\ \A t \in DOMAIN dir' : dir'[t] = dir[t]
    BY <1>7, RemoveEffect
  <2>2. at # "closed"
    BY <1>7 DEF RemoveFile
  <2> QED BY <1>1, <2>1, <2>2
<1>8. CASE Crash
  <2>1. /\ DOMAIN dir' \subseteq DOMAIN dir
        /\ \A s \in DOMAIN dir' : dir'[s] \in Seq(Frame)
        /\ \A s \in DOMAIN dir' : s # active.start => dir'[s] = dir[s]
        /\ active.start \in DOMAIN dir' =>
              dir'[active.start] \in Survivors(dir[active.start], synced)
    BY <1>8, CrashEffect
  <2>2. at # "closed" /\ at' = "closed"
    BY <1>8 DEF Crash
  <2>3. \A s \in DOMAIN dir : \A i \in DOMAIN dir[s] : dir[s][i] # Torn
    BY <2>2 DEF TornInv
  <2>4. ASSUME active.start \in DOMAIN dir', NEW i \in DOMAIN dir'[active.start],
               dir'[active.start][i] = Torn
        PROVE  i = Len(dir'[active.start])
    <3>1. dir[active.start] \in Seq(Frame) /\ synced \in Nat
          /\ dir'[active.start] \in Survivors(dir[active.start], synced)
      BY <1>0, <2>1, <2>4 DEF TypeOK
    <3>2. Torn \notin Range(dir[active.start])
      BY <2>1, <2>3, <2>4 DEF Range
    <3> QED BY <2>4, <3>1, <3>2, SurvivorIs
  <2>5. \A s \in DOMAIN dir' : \A i \in DOMAIN dir'[s] :
            dir'[s][i] = Torn => i = Len(dir'[s])
    BY <2>1, <2>3, <2>4
  <2> QED BY <2>2, <2>5 DEF TornInv
<1>9. CASE \/ \E k \in Keys, v \in Values \cup {Tombstone} : TakeLsn(k, v)
           \/ \E r \in inflight : AppendLock(r)
           \/ SyncFrame
           \/ AppendFail
           \/ \E w \in Lsn : TruncateThrough(w)
           \/ RemoveFail
           \/ UNCHANGED vars
  <2>1. dir' = dir /\ (at' # "closed" => at # "closed")
    BY <1>9 DEF TakeLsn, AppendLock, SyncFrame, AppendFail, TruncateThrough, RemoveFail, vars
  <2> QED BY <1>1, <2>1
<1> QED
  BY <1>3, <1>4, <1>5, <1>6, <1>7, <1>8, <1>9 DEF Next

\* The log starts with no file.
LEMMA TornInit ==
    ASSUME Init
    PROVE  TornInv
  BY DEF Init, TornInv

\* As long as the file system does not leave half a frame behind a failed write, a
\* record whose append returned Ok is reached by the replay: after failed syncs and
\* failed rotations, after crashes that tear the last frame and after power failures.
THEOREM SyncedReplays ==
    ASSUME "short_write" \notin WalFaults
    PROVE  Spec => []SyncedIsReplayable
<1>1. Init => TypeOK /\ TornInv
  BY LsnInit, TornInit DEF LsnInv
<1>2. TypeOK /\ TornInv /\ [Next]_vars => (TypeOK /\ TornInv)'
  BY TypeStep, TornStep
<1>3. TypeOK /\ TornInv => SyncedIsReplayable
  <2> SUFFICES ASSUME TypeOK, TornInv PROVE SyncedIsReplayable
    OBVIOUS
  <2>1. \A s \in DOMAIN dir : ReplaySegment(dir[s]) = Range(dir[s]) \ {Torn}
    BY TornIsLast
  <2>2. \A s \in DOMAIN dir : \A i \in DOMAIN dir[s] : dir[s][i] \in Range(dir[s])
    BY DEF Range
  <2> QED BY <2>1, <2>2, WalAssumption DEF SyncedIsReplayable
<1> QED
  BY <1>1, <1>2, <1>3, PTL DEF Spec

------------------------------------------------------------------------------
(* Segments, when every rotation creates its file.                          *)

\* A log that has just been opened: one SegmentMeta per file, with its own maximum.
LEMMA SegmentsOpen ==
    ASSUME LsnInv, LsnInv', Open
    PROVE  SegmentsInv'
<1>1. TypeOK
  BY DEF LsnInv
<1>2. /\ active'.start \in DOMAIN dir'
      /\ \A s \in DOMAIN dir' : dir'[s] \in Seq(Record)
      /\ active' = [start |-> active'.start, max |-> MaxLsnOf(Range(dir'[active'.start]))]
      /\ synced' = Len(dir'[active'.start])
      /\ sealed' = {[start |-> s, max |-> MaxLsnOf(Range(dir'[s]))] :
                         s \in DOMAIN dir' \ {active'.start}}
  BY <1>1, OpenEffect
<1>3. at = "closed" /\ at' = "idle" /\ arg' = arg /\ inflight' = inflight
  BY DEF Open
<1>4. inflight' = {} /\ arg'.remove = {}
  BY <1>3 DEF LsnInv, Idle
<1>5. ActiveTail'
  <2>1. Len(dir'[active'.start]) \in Nat /\ DOMAIN dir'[active'.start] = 1 .. Len(dir'[active'.start])
    BY <1>2
  <2> QED BY <1>2, <2>1 DEF ActiveTail
<1>6. NamesApart'
  BY <1>2, <1>4 DEF NamesApart
<1>7. \A s \in DOMAIN dir' : Range(dir'[s]) \in SUBSET Record
  BY <1>2 DEF Range
<1>8. \A s \in DOMAIN dir' : \A r \in Range(dir'[s]) : r.lsn <= MaxLsnOf(Range(dir'[s]))
  BY <1>7, MaxLsnOfRecords
<1>9. \A g \in sealed' \cup {active'} : \A r \in Range(dir'[g.start]) : r.lsn <= g.max
  BY <1>2, <1>8
<1>10. MaxIsBound'
  BY <1>3, <1>4, <1>9 DEF MaxIsBound, Kept
<1>11. WrittenOnce'
  BY <1>3, <1>4 DEF WrittenOnce
<1> QED
  BY <1>5, <1>6, <1>10, <1>11 DEF SegmentsInv

\* Steps that touch no file and no SegmentMeta.
LEMMA SegmentsQuiet ==
    ASSUME SegmentsInv, at # "closed",
           UNCHANGED <<dir, active, sealed, synced, published>>,
           arg'.remove = {} \/ (arg'.remove = arg.remove /\ at' = at),
           at' = "remove" => at = "remove",
           doubtful' = doubtful \/ doubtful' = doubtful \cup arg.record,
           WrittenOnce'
    PROVE  SegmentsInv'
<1>1. ActiveTail /\ NamesApart /\ MaxIsBound
  BY DEF SegmentsInv
<1>2. ActiveTail'
  BY <1>1 DEF ActiveTail
<1>3. NamesApart'
  BY <1>1 DEF NamesApart
<1>4. \A s : Kept(s)' \subseteq Kept(s)
  BY DEF Kept
<1>5. MaxIsBound'
  BY <1>1, <1>4 DEF MaxIsBound
<1> QED
  BY <1>2, <1>3, <1>5 DEF SegmentsInv

\* rotate: the new file is empty and nobody knows it yet.
LEMMA SegmentsRotate ==
    ASSUME LsnInv, SegmentsInv, FreshNames, Rotate
    PROVE  SegmentsInv'
<1>0. TypeOK /\ at = "rotate" /\ at' = "write"
  BY DEF LsnInv, Rotate
<1>1. ActiveTail /\ NamesApart /\ MaxIsBound /\ WrittenOnce
  BY <1>0 DEF SegmentsInv
<1>2. PICK r \in arg.record :
         /\ DOMAIN dir' = DOMAIN dir \cup {r.lsn}
         /\ \A s \in DOMAIN dir : dir'[s] = dir[s]
         /\ r.lsn \notin DOMAIN dir => dir'[r.lsn] = << >>
         /\ Range(dir'[r.lsn]) = IF r.lsn \in DOMAIN dir THEN Range(dir[r.lsn]) ELSE {}
         /\ active' = [start |-> r.lsn, max |-> 0]
         /\ synced' = Len(dir'[r.lsn])
         /\ Written' = Written
  BY <1>0, RotateEffect
<1>3. r.lsn \notin DOMAIN dir
  BY <1>0 DEF FreshNames
<1>4. /\ sealed' = sealed \cup {active} /\ arg' = arg /\ inflight' = inflight
      /\ doubtful' = doubtful /\ published' = published
  BY DEF Rotate
<1>5. arg.remove = {}
  BY <1>0, <1>1 DEF NamesApart
<1>6. ActiveTail'
  BY <1>2, <1>3 DEF ActiveTail
<1>7. \A g \in sealed \cup {active} : g.start \in DOMAIN dir
  BY <1>1 DEF ActiveTail, NamesApart
<1>8. NamesApart'
  BY <1>1, <1>2, <1>3, <1>4, <1>5, <1>7 DEF NamesApart
<1>9. /\ \A s \in DOMAIN dir : Kept(s)' = Kept(s)
      /\ Kept(r.lsn)' = {}
  BY <1>2, <1>3, <1>4 DEF Kept
<1>10. MaxIsBound'
  <2>1. \A g \in sealed \cup {active} : \A q \in Kept(g.start)' : q.lsn <= g.max
    BY <1>1, <1>7, <1>9 DEF MaxIsBound
  <2>2. active'.start = r.lsn
    BY <1>2
  <2> QED BY <1>0, <1>4, <1>5, <1>9, <2>1, <2>2 DEF MaxIsBound, Kept
<1>11. WrittenOnce'
  BY <1>0, <1>1, <1>2, <1>4 DEF WrittenOnce
<1> QED
  BY <1>6, <1>8, <1>10, <1>11 DEF SegmentsInv

\* A frame is added to the active file: the record under way, or what a short write
\* leaves of it.
LEMMA SegmentsWrite ==
    ASSUME LsnInv, SegmentsInv, WriteFrame \/ WriteFail
    PROVE  SegmentsInv'
<1>0. /\ TypeOK /\ at = "write" /\ at' \in {"sync", "idle"}
      /\ at' = "sync" <=> WriteFrame
  BY DEF LsnInv, WriteFrame, WriteFail
<1>1. ActiveTail /\ NamesApart /\ MaxIsBound /\ WrittenOnce
  BY <1>0 DEF SegmentsInv
<1>2. PICK r \in inflight : arg.record = {r}
  BY <1>0 DEF LsnInv, Appending
<1>3. PICK x \in Frame :
         /\ dir' = AppendFrame(dir, active.start, x)
         /\ WriteFrame => x = r
         /\ x \in {r, Torn}
  <2>1. r \in Frame /\ Torn \in Frame
    BY <1>0, <1>2 DEF Frame, TypeOK
  <2>2. CASE WriteFrame
    BY <1>2, <2>1, <2>2 DEF WriteFrame
  <2>3. CASE WriteFail /\ ~WriteFrame
    BY <2>1, <2>3 DEF WriteFail
  <2> QED BY <2>2, <2>3
<1>4. /\ doubtful' = doubtful \cup {r}
      /\ WriteFrame => inflight' = inflight
      /\ inflight' \subseteq inflight
      /\ WriteFrame => arg' = arg
      /\ arg'.remove = {}
      /\ UNCHANGED <<active, sealed, synced, published>>
  BY <1>0, <1>1, <1>2 DEF WriteFrame, WriteFail, Idle, NamesApart
<1>5. active.start \in DOMAIN dir
  BY <1>1 DEF ActiveTail
<1>6. /\ DOMAIN dir' = DOMAIN dir
      /\ \A s \in DOMAIN dir : s # active.start => dir'[s] = dir[s]
      /\ Range(dir'[active.start]) = Range(dir[active.start]) \cup {x}
      /\ Len(dir'[active.start]) = Len(dir[active.start]) + 1
      /\ dir'[active.start][Len(dir[active.start]) + 1] = x
      /\ \A i \in 1 .. Len(dir[active.start]) :
            dir'[active.start][i] = dir[active.start][i]
      /\ Written' = (Written \cup {x}) \ {Torn}
      /\ dir'[active.start] \in Seq(Frame)
  BY <1>0, <1>3, <1>5, AppendFrameIs
<1>7. ActiveTail'
  <2>1. /\ dir[active.start] \in Seq(Frame) /\ synced \in Nat
    BY <1>0, <1>5, FilesHoldFrames DEF TypeOK
  <2>2. /\ Len(dir[active.start]) \in Nat /\ DOMAIN dir[active.start] = 1 .. Len(dir[active.start])
        /\ DOMAIN dir'[active.start] = 1 .. Len(dir[active.start]) + 1
    BY <1>6, <2>1
  <2>3. ASSUME NEW i \in DOMAIN dir'[active.start], i > synced
        PROVE  dir'[active.start][i] \in doubtful' \cup {Torn}
    <3>1. CASE i \in 1 .. Len(dir[active.start])
      BY <1>1, <1>4, <1>6, <2>2, <2>3, <3>1 DEF ActiveTail
    <3>2. CASE i = Len(dir[active.start]) + 1
      BY <1>3, <1>4, <1>6, <3>2
    <3> QED BY <2>2, <3>1, <3>2
  <2> QED BY <1>1, <1>4, <1>6, <2>1, <2>2, <2>3 DEF ActiveTail
<1>8. NamesApart'
  BY <1>1, <1>4, <1>6 DEF NamesApart
<1>9. \A s \in DOMAIN dir : Kept(s)' \subseteq Kept(s)
  BY <1>3, <1>4, <1>6 DEF Kept
<1>10. \A g \in sealed \cup {active} : g.start \in DOMAIN dir
  BY <1>1 DEF ActiveTail, NamesApart
<1>11. MaxIsBound'
  BY <1>0, <1>1, <1>4, <1>9, <1>10 DEF MaxIsBound
<1>12. WrittenOnce'
  <2>1. inflight \cap Written = {}
    BY <1>0, <1>1 DEF WrittenOnce
  <2>2. \A s \in DOMAIN dir : r \notin Range(dir[s])
    <3>1. r # Torn
      BY <1>0, <1>2, WalAssumption DEF TypeOK
    <3> QED BY <1>2, <2>1, <3>1, InSomeFile
  <2>3. CASE WriteFrame
    <3>1. x = r /\ arg' = arg /\ inflight' = inflight /\ at' = "sync"
      BY <1>0, <1>3, <1>4, <2>3
    <3> QED BY <1>2, <1>4, <1>6, <2>1, <2>2, <3>1 DEF WrittenOnce
  <2>4. CASE WriteFail /\ ~WriteFrame
    <3>1. Written' \subseteq Written
      BY <1>0, <2>4, AppendFrameIs DEF WriteFail, Frame
    <3> QED BY <1>0, <1>4, <2>1, <2>4, <3>1 DEF WrittenOnce
  <2> QED BY <2>3, <2>4
<1> QED
  BY <1>7, <1>8, <1>11, <1>12 DEF SegmentsInv

\* sync_data returned: the record counts, and max_lsn with it.
LEMMA SegmentsSync ==
    ASSUME LsnInv, SegmentsInv, SyncFrame
    PROVE  SegmentsInv'
<1>0. TypeOK /\ at = "sync" /\ at' = "idle"
  BY DEF LsnInv, SyncFrame
<1>1. ActiveTail /\ NamesApart /\ MaxIsBound /\ WrittenOnce
  BY <1>0 DEF SegmentsInv
<1>2. PICK r \in inflight : arg.record = {r}
  BY <1>0 DEF LsnInv, Appending
<1>3. /\ active.start \in DOMAIN dir
      /\ active = [start |-> active.start, max |-> active.max]
      /\ active.max \in 0 .. MaxLsn /\ r.lsn \in 0 .. MaxLsn /\ MaxLsn \in Nat
      /\ dir[active.start] \in Seq(Frame)
  BY <1>0, <1>1, <1>2, RecordAssumption, FilesHoldFrames
    DEF ActiveTail, TypeOK, Segment, Record, Lsn
<1> DEFINE S == {active.max} \cup {q.lsn : q \in arg.record}
<1>4. S \in SUBSET (0 .. MaxLsn) /\ S # {}
  BY <1>2, <1>3
<1>5. Max(S) \in S /\ \A x \in S : x <= Max(S)
  BY <1>3, <1>4, MaxOfBounded
<1>6. RaisedMax = Max(S)
  BY DEF RaisedMax
<1>7. RaisedMax \in 0 .. MaxLsn /\ active.max <= RaisedMax /\ r.lsn <= RaisedMax
  BY <1>2, <1>4, <1>5, <1>6
<1> HIDE DEF S
<1>8. /\ active' = [start |-> active.start, max |-> RaisedMax]
      /\ synced' = Len(dir[active.start])
      /\ doubtful' = doubtful \ {r} /\ inflight' = inflight \ {r}
      /\ arg'.remove = {}
      /\ UNCHANGED <<dir, sealed, published>>
  BY <1>2, <1>3 DEF SyncFrame, Idle
<1>9. ActiveTail'
  <2>1. Len(dir[active.start]) \in Nat /\ DOMAIN dir[active.start] = 1 .. Len(dir[active.start])
    BY <1>3
  <2> QED BY <1>3, <1>8, <2>1 DEF ActiveTail
<1>10. NamesApart'
  BY <1>1, <1>8 DEF NamesApart
<1>11. /\ Kept(active.start)' \subseteq Kept(active.start) \cup {r}
       /\ \A s \in DOMAIN dir \ {active.start} : Kept(s)' = Kept(s)
  BY <1>0, <1>1, <1>2, <1>8 DEF Kept, WrittenOnce
<1>12. \A q \in Kept(active.start) \cup {r} : q.lsn <= RaisedMax
  <2>1. \A q \in Kept(active.start) : q.lsn <= active.max /\ q.lsn \in Nat
    <3>1. Kept(active.start) \in SUBSET Record
      BY <1>0, <1>3, FilesHoldFrames DEF Kept, Frame
    <3>2. \A q \in Record : q.lsn \in Nat
      BY RecordAssumption DEF Record, Lsn
    <3> QED BY <1>1, <3>1, <3>2 DEF MaxIsBound
  <2> QED BY <1>3, <1>7, <2>1
<1>13. MaxIsBound'
  <2>1. \A g \in sealed : g.start \in DOMAIN dir \ {active.start}
    BY <1>1 DEF NamesApart
  <2>2. \A g \in sealed : \A q \in Kept(g.start)' : q.lsn <= g.max
    BY <1>1, <1>11, <2>1 DEF MaxIsBound
  <2>3. active'.start = active.start /\ active'.max = RaisedMax
    BY <1>8
  <2>4. \A q \in Kept(active.start)' : q.lsn <= active'.max
    BY <1>11, <1>12, <2>3
  <2> QED BY <1>0, <1>8, <2>2, <2>3, <2>4 DEF MaxIsBound, Kept
<1>14. WrittenOnce'
  <2>1. Written' = Written
    BY <1>8 DEF Written
  <2> QED BY <1>0, <1>1, <1>2, <1>8, <2>1 DEF WrittenOnce
<1> QED
  BY <1>9, <1>10, <1>13, <1>14 DEF SegmentsInv

\* truncate_through picks sealed segments that hold nothing above the watermark.
LEMMA SegmentsTruncate ==
    ASSUME LsnInv, SegmentsInv, NEW w \in Lsn, TruncateThrough(w)
    PROVE  /\ SegmentsInv'
           /\ published' = IF w > published THEN w ELSE published
<1>0. TypeOK /\ at = "idle" /\ MaxLsn \in Nat /\ w \in 1 .. MaxLsn /\ published \in 0 .. MaxLsn
  BY RecordAssumption DEF LsnInv, TruncateThrough, Lsn, TypeOK
<1>1. ActiveTail /\ NamesApart /\ MaxIsBound /\ WrittenOnce
  BY <1>0 DEF SegmentsInv
<1> DEFINE covered == CoveredBy(w)
<1>2. /\ sealed' = sealed \ covered
      /\ arg'.remove = covered
      /\ at' = IF covered = {} THEN "idle" ELSE "remove"
      /\ published' = Max({published, w})
      /\ UNCHANGED <<dir, active, synced, inflight, doubtful>>
  BY DEF TruncateThrough, Idle
<1>3. \A g \in covered : g \in sealed /\ g.max <= w
  BY DEF CoveredBy
<1> HIDE DEF covered
<1>4. published' = IF w > published THEN w ELSE published
  <2> DEFINE S == {published, w}
  <2>1. S \in SUBSET (0 .. MaxLsn) /\ S # {}
    BY <1>0
  <2>2. Max(S) \in S /\ \A x \in S : x <= Max(S)
    BY <1>0, <2>1, MaxOfBounded
  <2>3. published' = Max(S)
    BY <1>2
  <2> HIDE DEF S
  <2>4. published' \in {published, w} /\ published <= published' /\ w <= published'
    BY <2>2, <2>3 DEF S
  <2> QED BY <1>0, <2>4
<1>5. ActiveTail'
  BY <1>1, <1>2 DEF ActiveTail
<1>6. NamesApart'
  BY <1>1, <1>2, <1>3 DEF NamesApart
<1>7. \A s : Kept(s)' = Kept(s)
  BY <1>2 DEF Kept
<1>8. \A g \in sealed : g.start \in DOMAIN dir /\ g.max \in Nat
  BY <1>0, <1>1 DEF NamesApart, TypeOK, Segment
<1>9. \A s \in DOMAIN dir : \A r \in Kept(s) : r.lsn \in Nat
  <2>1. \A s \in DOMAIN dir : Kept(s) \in SUBSET Record
    BY <1>0, FilesHoldFrames DEF Kept, Frame
  <2>2. \A q \in Record : q.lsn \in Nat
    BY RecordAssumption DEF Record, Lsn
  <2> QED BY <2>1, <2>2
<1>10. \A g \in arg'.remove : \A r \in Kept(g.start) : r.lsn <= published'
  <2> SUFFICES ASSUME NEW g \in covered, NEW r \in Kept(g.start) PROVE r.lsn <= published'
    BY <1>2
  <2>1. r.lsn <= g.max /\ g.max <= w /\ r.lsn \in Nat /\ g.max \in Nat
    BY <1>1, <1>3, <1>8, <1>9 DEF MaxIsBound
  <2>2. w <= published'
    BY <1>0, <1>4
  <2> QED BY <1>0, <1>4, <2>1, <2>2
<1>11. MaxIsBound'
  <2>1. \A g \in sealed' \cup {active} : \A r \in Kept(g.start)' : r.lsn <= g.max
    BY <1>1, <1>2, <1>7 DEF MaxIsBound
  <2>2. published' > 0
    BY <1>0, <1>4
  <2>3. \A g \in arg'.remove : \A r \in Kept(g.start)' : r.lsn <= published'
    BY <1>7, <1>10
  <2> QED BY <1>2, <2>1, <2>2, <2>3 DEF MaxIsBound, Kept
<1>12. WrittenOnce'
  <2>1. Written' = Written /\ at' # "sync"
    BY <1>2 DEF Written
  <2> QED BY <1>0, <1>1, <1>2, <2>1 DEF WrittenOnce
<1> QED
  BY <1>4, <1>5, <1>6, <1>11, <1>12 DEF SegmentsInv

\* A file that is removed is neither active nor sealed.
LEMMA SegmentsRemove ==
    ASSUME LsnInv, SegmentsInv, NEW g, RemoveFile(g)
    PROVE  SegmentsInv'
<1>0. TypeOK /\ at = "remove" /\ g \in arg.remove
  BY DEF LsnInv, RemoveFile
<1>1. ActiveTail /\ NamesApart /\ MaxIsBound /\ WrittenOnce
  BY <1>0 DEF SegmentsInv
<1>2. /\ DOMAIN dir' = DOMAIN dir \ {g.start}
      /\ \A t \in DOMAIN dir' : dir'[t] = dir[t]
      /\ Written' \subseteq Written
  BY RemoveEffect
<1>3. /\ arg'.remove = arg.remove \ {g}
      /\ at' = IF arg.remove = {g} THEN "idle" ELSE "remove"
      /\ UNCHANGED <<active, sealed, synced, inflight, doubtful, published>>
  BY <1>0 DEF RemoveFile, TypeOK
<1>4. g.start # active.start /\ \A h \in sealed : h.start # g.start
  BY <1>0, <1>1 DEF NamesApart
<1>5. ActiveTail'
  BY <1>1, <1>2, <1>3, <1>4 DEF ActiveTail
<1>6. NamesApart'
  BY <1>1, <1>2, <1>3, <1>4 DEF NamesApart
<1>7. \A t \in DOMAIN dir' : Kept(t)' = Kept(t)
  BY <1>2, <1>3 DEF Kept
<1>8. \A h \in sealed \cup {active} : h.start \in DOMAIN dir'
  BY <1>1, <1>2, <1>4 DEF NamesApart, ActiveTail
<1>9. MaxIsBound'
  <2>1. \A h \in sealed \cup {active} : \A r \in Kept(h.start)' : r.lsn <= h.max
    BY <1>1, <1>7, <1>8 DEF MaxIsBound
  <2>2. \A h \in arg'.remove : h.start \in DOMAIN dir' => \A r \in Kept(h.start)' : r.lsn <= published
    BY <1>1, <1>2, <1>3, <1>7 DEF MaxIsBound
  <2>3. published > 0
    BY <1>0, <1>1 DEF MaxIsBound
  <2> QED BY <1>3, <2>1, <2>2, <2>3 DEF MaxIsBound, Kept
<1>10. WrittenOnce'
  BY <1>0, <1>1, <1>2, <1>3 DEF WrittenOnce
<1> QED
  BY <1>5, <1>6, <1>9, <1>10 DEF SegmentsInv

\* Every step of a log whose rotations create their files keeps its segments apart.
LEMMA SegmentsStep ==
    ASSUME LsnInv, SegmentsInv, FreshNames, [Next]_vars
    PROVE  SegmentsInv'
<1>0. LsnInv' /\ TypeOK
  BY LsnStep DEF LsnInv
<1>a. ASSUME dir' = dir PROVE Written' = Written
  BY <1>a DEF Written
<1>1. CASE Open
  BY <1>0, <1>1, SegmentsOpen
<1>2. ASSUME NEW k \in Keys, NEW v \in Values \cup {Tombstone}, TakeLsn(k, v)
      PROVE  SegmentsInv'
  <2> DEFINE n == [key |-> k, lsn |-> nextLsn, val |-> v]
  <2>1. /\ at # "closed" /\ at' = at /\ arg' = arg /\ inflight' = inflight \cup {n}
        /\ Written' = Written /\ doubtful' = doubtful
        /\ UNCHANGED <<dir, active, sealed, synced, published>>
    BY <1>2, <1>a DEF TakeLsn
  <2>2. n.lsn = nextLsn /\ nextLsn \in Nat
    BY <1>0 DEF TypeOK
  <2> HIDE DEF n
  <2>3. n \notin Written
    BY <2>1, <2>2 DEF LsnInv
  <2>4. WrittenOnce'
    BY <2>1, <2>3 DEF WrittenOnce, SegmentsInv
  <2> QED BY <2>1, <2>4, SegmentsQuiet
<1>3. ASSUME NEW r \in inflight, AppendLock(r) PROVE SegmentsInv'
  <2>1. /\ at = "idle" /\ at' \in {"rotate", "write"} /\ arg'.remove = {}
        /\ inflight' = inflight /\ Written' = Written /\ doubtful' = doubtful
        /\ UNCHANGED <<dir, active, sealed, synced, published>>
    BY <1>3, <1>a DEF AppendLock, Idle
  <2>2. WrittenOnce'
    BY <2>1 DEF WrittenOnce, SegmentsInv
  <2>3. /\ at # "closed"
        /\ arg'.remove = {} \/ (arg'.remove = arg.remove /\ at' = at)
        /\ at' = "remove" => at = "remove"
        /\ doubtful' = doubtful \/ doubtful' = doubtful \cup arg.record
    BY <2>1
  <2> QED BY <2>1, <2>2, <2>3, SegmentsQuiet
<1>4. CASE Rotate
  BY <1>4, SegmentsRotate
<1>5. CASE WriteFrame \/ WriteFail
  BY <1>5, SegmentsWrite
<1>6. CASE SyncFrame
  BY <1>6, SegmentsSync
<1>7. CASE AppendFail
  <2>1. /\ at \in {"rotate", "sync"} /\ at' = "idle" /\ arg'.remove = {}
        /\ inflight' = inflight \ arg.record /\ Written' = Written /\ doubtful' = doubtful
        /\ UNCHANGED <<dir, active, sealed, synced, published>>
    BY <1>7, <1>a DEF AppendFail, Idle
  <2>2. WrittenOnce'
    BY <2>1 DEF WrittenOnce, SegmentsInv
  <2>3. /\ at # "closed"
        /\ arg'.remove = {} \/ (arg'.remove = arg.remove /\ at' = at)
        /\ at' = "remove" => at = "remove"
        /\ doubtful' = doubtful \/ doubtful' = doubtful \cup arg.record
    BY <2>1
  <2> QED BY <2>1, <2>2, <2>3, SegmentsQuiet
<1>8. ASSUME NEW w \in Lsn, TruncateThrough(w) PROVE SegmentsInv'
  BY <1>8, SegmentsTruncate
<1>9. ASSUME NEW g \in arg.remove, RemoveFile(g) PROVE SegmentsInv'
  BY <1>9, SegmentsRemove
<1>10. CASE RemoveFail
  <2>1. /\ at = "remove" /\ at' = "idle" /\ arg'.remove = {}
        /\ inflight' = inflight /\ Written' = Written /\ doubtful' = doubtful
        /\ UNCHANGED <<dir, active, sealed, synced, published>>
    BY <1>10, <1>a DEF RemoveFail, Idle
  <2>2. WrittenOnce'
    BY <2>1 DEF WrittenOnce, SegmentsInv
  <2>3. /\ at # "closed"
        /\ arg'.remove = {} \/ (arg'.remove = arg.remove /\ at' = at)
        /\ at' = "remove" => at = "remove"
        /\ doubtful' = doubtful \/ doubtful' = doubtful \cup arg.record
    BY <2>1
  <2> QED BY <2>1, <2>2, <2>3, SegmentsQuiet
<1>11. CASE Crash
  BY <1>11 DEF Crash, SegmentsInv
<1>12. CASE UNCHANGED vars
  <2>1. /\ at' = at /\ arg' = arg /\ inflight' = inflight /\ doubtful' = doubtful
        /\ Written' = Written
        /\ UNCHANGED <<dir, active, sealed, synced, published>>
    BY <1>12, <1>a DEF vars
  <2>2. CASE at = "closed"
    BY <2>1, <2>2 DEF SegmentsInv
  <2>3. CASE at # "closed"
    <3>1. WrittenOnce'
      BY <2>1, <2>3 DEF WrittenOnce, SegmentsInv
    <3> QED BY <2>1, <2>3, <3>1, SegmentsQuiet
  <2> QED BY <2>2, <2>3
<1> QED
  BY <1>1, <1>2, <1>3, <1>4, <1>5, <1>6, <1>7, <1>8, <1>9, <1>10, <1>11, <1>12 DEF Next

\* The invariant of a log whose rotations create their files, whatever else fails.
THEOREM SegmentsInvariantHolds == Spec /\ []FreshNames => [](LsnInv /\ SegmentsInv)
<1>1. Init => LsnInv /\ SegmentsInv
  <2>1. Init => at = "closed"
    BY DEF Init
  <2> QED BY <2>1, LsnInit DEF SegmentsInv
<1>2. LsnInv /\ SegmentsInv /\ FreshNames /\ [Next]_vars => (LsnInv /\ SegmentsInv)'
  BY LsnStep, SegmentsStep
<1> QED
  BY <1>1, <1>2, PTL DEF Spec

\* If every rotation creates its file, max_lsn bounds what a sealed segment holds,
\* so truncate_through drops nothing above the watermark, and the file that is being
\* appended to is never deleted: short writes, failed syncs, failed removals and power
\* failures do no harm here.
THEOREM FreshNamesAreSafe ==
    Spec /\ []FreshNames => []SealedMaxIsBound /\ []ActiveNeverDeleted
<1>1. LsnInv /\ SegmentsInv => SealedMaxIsBound /\ ActiveNeverDeleted
  <2> SUFFICES ASSUME LsnInv, SegmentsInv PROVE SealedMaxIsBound /\ ActiveNeverDeleted
    OBVIOUS
  <2>1. ActiveNeverDeleted
    BY DEF SegmentsInv, ActiveTail, ActiveNeverDeleted
  <2>2. \A s \in DOMAIN dir : ReplaySegment(dir[s]) \ doubtful \subseteq Kept(s)
    <3>1. \A s \in DOMAIN dir : dir[s] \in Seq(Frame)
      BY FilesHoldFrames DEF LsnInv
    <3>2. \A s \in DOMAIN dir : ReplaySegment(dir[s]) \subseteq Range(dir[s]) \ {Torn}
      BY <3>1, ReplaySegmentIs
    <3> QED BY <3>2 DEF Kept
  <2>3. CASE at # "closed"
    BY <2>1, <2>2, <2>3 DEF SegmentsInv, MaxIsBound, SealedMaxIsBound
  <2>4. CASE at = "closed"
    BY <2>1, <2>4 DEF LsnInv, SealedMaxIsBound
  <2> QED BY <2>1, <2>3, <2>4
<1> QED
  BY <1>1, SegmentsInvariantHolds, PTL

------------------------------------------------------------------------------
(* The segments implement the log.                                          *)

\* A crash that takes no whole file keeps every record that was appended Ok.
LEMMA CrashKeepsLog ==
    ASSUME LsnInv, TornInv, SegmentsInv, Crash, "power_loss" \notin WalFaults
    PROVE  Written \ doubtful \subseteq Written'
<1>0. TypeOK /\ at # "closed"
  BY DEF LsnInv, Crash
<1>1. ActiveTail
  BY <1>0 DEF SegmentsInv
<1>2. /\ DOMAIN dir' = DOMAIN dir
      /\ \A s \in DOMAIN dir' : dir'[s] \in Seq(Frame)
      /\ \A s \in DOMAIN dir' : s # active.start => dir'[s] = dir[s]
      /\ active.start \in DOMAIN dir' =>
            dir'[active.start] \in Survivors(dir[active.start], synced)
  BY <1>0, CrashEffect
<1>3. \A q : q \in Written' <=> q # Torn /\ \E s \in DOMAIN dir' : q \in Range(dir'[s])
  BY Zenon DEF Written
<1> SUFFICES ASSUME NEW r \in Written \ doubtful PROVE r \in Written'
  OBVIOUS
<1>4. r # Torn /\ r \notin doubtful
  BY InSomeFile
<1>5. PICK s \in DOMAIN dir : r \in Range(dir[s])
  BY InSomeFile
<1>6. CASE s # active.start
  BY <1>2, <1>3, <1>4, <1>5, <1>6
<1>7. CASE s = active.start
  <2>1. PICK f, g : f = dir[active.start] /\ g = dir'[active.start]
    OBVIOUS
  <2>2. /\ f \in Seq(Frame) /\ g \in Seq(Frame) /\ synced \in Nat /\ g \in Survivors(f, synced)
        /\ \A i \in DOMAIN f : i > synced => f[i] \in doubtful \cup {Torn}
        /\ r \in Range(f)
    BY <1>0, <1>1, <1>2, <1>5, <1>7, <2>1, FilesHoldFrames DEF TypeOK, ActiveTail
  <2>3. PICK i \in DOMAIN f : f[i] = r
    BY <2>2 DEF Range
  <2>4. i \in Nat /\ i >= 1 /\ i <= synced
    BY <1>4, <2>2, <2>3
  <2>5. PICK n \in synced .. Len(f) :
           /\ \A j \in 1 .. n : g[j] = f[j]
           /\ \/ Len(g) = n
              \/ Len(g) = n + 1 /\ g[n + 1] = Torn
    BY <2>2, SurvivorIs
  <2>6. i \in 1 .. n /\ n <= Len(g) /\ Len(g) \in Nat /\ n \in Int
    BY <2>2, <2>4, <2>5
  <2>7. i \in DOMAIN g /\ g[i] = r
    BY <2>2, <2>3, <2>5, <2>6
  <2>8. r \in Range(g)
    BY <2>7 DEF Range
  <2> QED BY <1>2, <1>3, <1>4, <1>5, <1>7, <2>1, <2>8
<1> QED
  BY <1>6, <1>7

\* A step of the segmented log is a step of the log, or leaves it as it is.
LEMMA LogStep ==
    ASSUME LsnInv, TornInv, SegmentsInv, FreshNames, [Next]_vars,
           "short_write" \notin WalFaults, "power_loss" \notin WalFaults
    PROVE  [Log!LogNext]_(Log!logVars)
<1>0. /\ TypeOK /\ TypeOK' /\ TornInv'
      /\ Replayable = Written /\ Replayable' = Written'
      /\ Written \in SUBSET Record
      /\ \A r \in Record : r.lsn \in Nat
  <2>1. TypeOK /\ TypeOK' /\ TornInv'
    BY TypeStep, TornStep DEF LsnInv
  <2>2. FindsAll /\ FindsAll'
    BY <2>1, TornFindsAll, PTL
  <2> QED BY <2>1, <2>2, FilesHoldFrames, RecordAssumption DEF FindsAll, Record, Lsn
<1>a. ASSUME dir' = dir PROVE Written' = Written
  BY <1>a DEF Written
<1>b. ASSUME Replayable' \ doubtful' = Replayable \ doubtful, doubtful' = doubtful,
             published' = published
      PROVE  UNCHANGED Log!logVars
  BY <1>b DEF Log!logVars
<1>1. CASE Open
  <2>1. Replayable' = Replayable
    BY <1>0, <1>1, OpenEffect
  <2>2. doubtful' = doubtful /\ published' = published
    BY <1>1 DEF Open
  <2> QED BY <1>b, <2>1, <2>2
<1>2. CASE Rotate
  <2>1. Written' = Written
    BY <1>0, <1>2, RotateEffect
  <2>2. doubtful' = doubtful /\ published' = published
    BY <1>2 DEF Rotate
  <2> QED BY <1>0, <1>b, <2>1, <2>2
<1>3. CASE WriteFrame
  <2>1. at = "write"
    BY <1>3 DEF WriteFrame
  <2>2. PICK r \in inflight : arg.record = {r}
    BY <2>1 DEF LsnInv, Appending
  <2>3. /\ dir' = AppendFrame(dir, active.start, r) /\ doubtful' = doubtful \cup {r}
        /\ published' = published
    BY <1>3, <2>2 DEF WriteFrame
  <2>4. r \in Record /\ r # Torn /\ r \in Frame
    BY <1>0, WalAssumption DEF TypeOK, Frame
  <2>5. active.start \in DOMAIN dir /\ r \notin Written
    BY <2>1 DEF SegmentsInv, ActiveTail, WrittenOnce
  <2>6. Written' = (Written \cup {r}) \ {Torn}
    BY <1>0, <2>3, <2>4, <2>5, AppendFrameIs
  <2>7. Torn \notin Written
    BY InSomeFile
  <2>8. Replayable' \ doubtful' = Replayable \ doubtful
    BY <1>0, <2>3, <2>5, <2>6, <2>7
  <2>9. Log!LogAppendFail(r)
    BY <2>3, <2>8 DEF Log!LogAppendFail
  <2> QED BY <2>4, <2>9 DEF Log!LogNext, Log!Record, Record, Log!Lsn, Lsn
<1>4. CASE SyncFrame
  <2>1. at = "sync"
    BY <1>4 DEF SyncFrame
  <2>2. PICK r \in inflight : arg.record = {r}
    BY <2>1 DEF LsnInv, Appending
  <2>3. dir' = dir /\ doubtful' = doubtful \ {r} /\ published' = published
    BY <1>4, <2>2 DEF SyncFrame
  <2>4. r \in Record /\ r # Torn
    BY <1>0, WalAssumption DEF TypeOK
  <2>5. r \in Written
    <3>1. active.start \in DOMAIN dir /\ r \in Range(dir[active.start])
      BY <2>1, <2>2 DEF SegmentsInv, ActiveTail, WrittenOnce
    <3> QED BY <2>4, <3>1, InSomeFile
  <2>6. Written' = Written
    BY <1>a, <2>3
  <2>7. Replayable' \ doubtful' = (Replayable \ doubtful) \cup {r}
    BY <1>0, <2>3, <2>5, <2>6
  <2>8. Log!LogAppend(r)
    BY <2>3, <2>7 DEF Log!LogAppend
  <2> QED BY <2>4, <2>8 DEF Log!LogNext, Log!Record, Record, Log!Lsn, Lsn
<1>5. ASSUME NEW w \in Lsn, TruncateThrough(w) PROVE Log!LogNext
  <2>1. published' = IF w > published THEN w ELSE published
    BY <1>5, SegmentsTruncate
  <2>2. Written' = Written /\ doubtful' = doubtful
    BY <1>5, <1>a DEF TruncateThrough
  <2>3. Replayable' \ doubtful' = (Replayable \ doubtful) \ {}
    BY <1>0, <2>2
  <2>4. Log!LogTruncate(w)
    BY <2>1, <2>2, <2>3 DEF Log!LogTruncate
  <2> QED BY <1>5, <2>4 DEF Log!LogNext, Log!Lsn, Lsn
<1>6. ASSUME NEW g \in arg.remove, RemoveFile(g) PROVE Log!LogNext
  <2>1. at = "remove" /\ g \in arg.remove /\ doubtful' = doubtful /\ published' = published
    BY <1>6 DEF RemoveFile
  <2>2. MaxIsBound
    BY <2>1 DEF SegmentsInv
  <2>3. published \in Lsn
    BY <1>0, <2>1, <2>2, RecordAssumption DEF MaxIsBound, TypeOK, Lsn
  <2>4. /\ DOMAIN dir' = DOMAIN dir \ {g.start}
        /\ \A t \in DOMAIN dir' : dir'[t] = dir[t]
        /\ Written' \subseteq Written
    BY <1>6, RemoveEffect
  <2>5. \A q : q \in Written' <=> q # Torn /\ \E t \in DOMAIN dir' : q \in Range(dir'[t])
    BY Zenon DEF Written
  <2> DEFINE gone == (Replayable \ doubtful) \ (Replayable' \ doubtful')
  <2>6. ASSUME NEW r \in gone PROVE r.lsn <= published
    <3>1. r \in Written /\ r \notin doubtful /\ r \notin Written' /\ r # Torn
      BY <1>0, <2>1, InSomeFile
    <3>2. PICK t \in DOMAIN dir : r \in Range(dir[t])
      BY <3>1, InSomeFile
    <3>3. t = g.start
      BY <2>4, <2>5, <3>1, <3>2
    <3>4. r \in Kept(g.start)
      BY <3>1, <3>2, <3>3 DEF Kept
    <3> QED BY <2>1, <2>2, <3>2, <3>3, <3>4 DEF MaxIsBound
  <2>7. gone \in SUBSET {r \in Replayable \ doubtful : r.lsn <= published}
    BY <2>6
  <2>8. Replayable' \ doubtful' = (Replayable \ doubtful) \ gone
    BY <1>0, <2>1, <2>4
  <2> HIDE DEF gone
  <2>9. published' = IF published > published THEN published ELSE published
    BY <2>1
  <2>10. Log!LogTruncate(published)
    BY <2>1, <2>7, <2>8, <2>9 DEF Log!LogTruncate
  <2> QED BY <2>3, <2>10 DEF Log!LogNext, Log!Lsn, Lsn
<1>7. CASE Crash
  <2>1. doubtful' = {} /\ published' = published
    BY <1>7 DEF Crash
  <2>2. Written' \subseteq Written
    BY <1>0, <1>7, CrashEffect
  <2>3. Written \ doubtful \subseteq Written'
    BY <1>7, CrashKeepsLog
  <2> DEFINE late == Written' \cap doubtful
  <2>4. Replayable' \ doubtful' = (Replayable \ doubtful) \cup late
    BY <1>0, <2>1, <2>2, <2>3
  <2>5. late \in SUBSET doubtful
    OBVIOUS
  <2> HIDE DEF late
  <2>6. Log!LogCrash
    BY <2>1, <2>4, <2>5 DEF Log!LogCrash
  <2> QED BY <2>6 DEF Log!LogNext
<1>8. CASE \/ \E k \in Keys, v \in Values \cup {Tombstone} : TakeLsn(k, v)
           \/ \E r \in inflight : AppendLock(r)
           \/ AppendFail
           \/ RemoveFail
           \/ UNCHANGED vars
  <2>1. dir' = dir /\ doubtful' = doubtful /\ published' = published
    BY <1>8 DEF TakeLsn, AppendLock, AppendFail, RemoveFail, vars
  <2> QED BY <1>0, <1>a, <1>b, <2>1
<1>9. CASE WriteFail
  BY <1>9 DEF WriteFail
<1> QED
  BY <1>1, <1>2, <1>3, <1>4, <1>5, <1>6, <1>7, <1>8, <1>9 DEF Next

\* If every rotation creates its file, no short write leaves half a frame and no power
\* failure takes a file, the segments keep the promise the engine relies on: an append
\* that returned Ok is replayed after any crash until a truncation at or above its LSN,
\* and failed rotations, syncs and removals change nothing about that.
THEOREM FreshNamesImplementLog ==
    ASSUME "short_write" \notin WalFaults, "power_loss" \notin WalFaults
    PROVE  Spec /\ []FreshNames => ImplementsDurableLog
<1> DEFINE Inv == LsnInv /\ TornInv /\ SegmentsInv
<1>1. Init => Inv
  <2>1. Init => at = "closed"
    BY DEF Init
  <2> QED BY <2>1, LsnInit, TornInit DEF SegmentsInv
<1>2. Inv /\ FreshNames /\ [Next]_vars => Inv'
  BY LsnStep, TornStep, SegmentsStep DEF LsnInv
<1>3. Inv /\ FreshNames /\ [Next]_vars => [Log!LogNext]_(Log!logVars)
  BY LogStep
<1>4. Init => Log!LogInit
  <2> SUFFICES ASSUME Init PROVE Log!LogInit
    OBVIOUS
  <2>1. DOMAIN dir = {} /\ doubtful = {} /\ published = 0
    BY DEF Init
  <2>2. Replayable = {}
    BY <2>1, InSomeFile
  <2> QED BY <2>1, <2>2 DEF Log!LogInit
<1> HIDE DEF Inv
<1> QED
  BY <1>1, <1>2, <1>3, <1>4, PTL DEF Spec, ImplementsDurableLog, Log!LogSpec

------------------------------------------------------------------------------
(* The last file, when names ascend.                                        *)

\* Names that ascend are fresh.
LEMMA AscendingIsFresh ==
    ASSUME TypeOK, AscendingNames
    PROVE  FreshNames
<1>1. \A s \in DOMAIN dir : s \in Nat
  BY RecordAssumption DEF TypeOK
<1> QED
  BY <1>1 DEF AscendingNames, FreshNames

\* Every step of a log whose names ascend keeps the active file the last one, and so
\* the one that a crash may tear.
LEMMA LastStep ==
    ASSUME TypeOK, TornInv, LastInv, AscendingNames, [Next]_vars,
           "short_write" \notin WalFaults
    PROVE  LastInv'
<1>0. /\ \A s \in DOMAIN dir : s \in Nat
      /\ \A r \in Record : r.lsn \in Nat
  BY RecordAssumption DEF TypeOK, Record, Lsn
<1>1. CASE Open
  <2>1. \A s \in DOMAIN dir' : s <= active'.start
    BY <1>1, OpenEffect
  <2>2. at' = "idle"
    BY <1>1 DEF Open
  <2> QED BY <2>1, <2>2 DEF LastInv
<1>2. CASE Rotate
  <2>1. PICK r \in arg.record :
           /\ r \in Record
           /\ DOMAIN dir' = DOMAIN dir \cup {r.lsn}
           /\ active' = [start |-> r.lsn, max |-> 0]
    BY <1>2, RotateEffect
  <2>2. at = "rotate" /\ at' = "write"
    BY <1>2 DEF Rotate
  <2>3. \A s \in DOMAIN dir : s < r.lsn
    BY <2>1, <2>2 DEF AscendingNames
  <2>4. \A s \in DOMAIN dir' : s <= active'.start
    BY <1>0, <2>1, <2>3
  <2> QED BY <2>2, <2>4 DEF LastInv
<1>3. CASE Crash
  <2>1. /\ DOMAIN dir' \subseteq DOMAIN dir
        /\ \A s \in DOMAIN dir' : s # active.start => dir'[s] = dir[s]
    BY <1>3, CrashEffect
  <2>2. at # "closed" /\ at' = "closed"
    BY <1>3 DEF Crash
  <2>3. \A s \in DOMAIN dir : Torn \notin Range(dir[s])
    BY <2>2, TornIsLast
  <2>4. \A s \in DOMAIN dir' : Torn \in Range(dir'[s]) => s = active.start
    BY <2>1, <2>3
  <2>5. \A s \in DOMAIN dir' : s <= active.start
    BY <2>1, <2>2 DEF LastInv
  <2> QED BY <2>2, <2>4, <2>5 DEF LastInv
<1>4. CASE WriteFrame
  <2>1. at = "write" /\ at' = "sync" /\ active' = active
    BY <1>4 DEF WriteFrame
  <2>2. DOMAIN dir' = DOMAIN dir
    BY <1>4 DEF WriteFrame, AppendFrame
  <2> QED BY <2>1, <2>2 DEF LastInv
<1>5. ASSUME NEW g \in arg.remove, RemoveFile(g) PROVE LastInv'
  <2>1. at = "remove" /\ at' \in {"idle", "remove"} /\ active' = active
    BY <1>5 DEF RemoveFile
  <2>2. DOMAIN dir' = DOMAIN dir \ {g.start}
    BY <1>5, RemoveEffect
  <2> QED BY <2>1, <2>2 DEF LastInv
<1>6. CASE \/ \E k \in Keys, v \in Values \cup {Tombstone} : TakeLsn(k, v)
           \/ \E r \in inflight : AppendLock(r)
           \/ SyncFrame
           \/ AppendFail
           \/ \E w \in Lsn : TruncateThrough(w)
           \/ RemoveFail
  <2>1. dir' = dir /\ at # "closed" /\ at' # "closed" /\ active'.start = active.start
    BY <1>6 DEF TakeLsn, AppendLock, SyncFrame, AppendFail, TruncateThrough, RemoveFail,
                TypeOK, Segment
  <2> QED BY <2>1 DEF LastInv
<1>7. CASE UNCHANGED vars
  BY <1>7 DEF vars, LastInv
<1>8. CASE WriteFail
  BY <1>8 DEF WriteFail
<1> QED
  BY <1>1, <1>2, <1>3, <1>4, <1>5, <1>6, <1>7, <1>8 DEF Next

\* What the invariants say of a closed log is what the property says.
LEMMA LastIsLast == TypeOK /\ LastInv => TornOnlyInLast
<1> SUFFICES ASSUME TypeOK, LastInv, at = "closed",
                    NEW s \in DOMAIN dir, Torn \in Range(dir[s])
             PROVE  s = Max(DOMAIN dir)
  BY DEF TornOnlyInLast
<1>1. MaxLsn \in Nat /\ DOMAIN dir \in SUBSET (0 .. MaxLsn) /\ DOMAIN dir # {}
  BY RecordAssumption DEF TypeOK
<1>2. Max(DOMAIN dir) \in DOMAIN dir /\ \A t \in DOMAIN dir : t <= Max(DOMAIN dir)
  BY <1>1, MaxOfBounded
<1>3. \A t \in DOMAIN dir : t <= s
  BY DEF LastInv
<1>4. s <= Max(DOMAIN dir) /\ Max(DOMAIN dir) <= s
  BY <1>2, <1>3
<1> QED
  BY <1>1, <1>2, <1>4

\* If every rotation names its file above the others and no short write leaves half a
\* frame, a restart finds a torn frame in the last segment only, as Wal::open assumes
\* when it goes on appending there; a power failure may take any files.
THEOREM AscendingTearsLast ==
    ASSUME "short_write" \notin WalFaults
    PROVE  Spec /\ []AscendingNames => []TornOnlyInLast
<1>1. Init => TypeOK /\ TornInv /\ LastInv
  BY LsnInit, TornInit DEF LsnInv, Init, LastInv
<1>2. TypeOK /\ TornInv /\ LastInv /\ AscendingNames /\ [Next]_vars
        => (TypeOK /\ TornInv /\ LastInv)'
  BY TypeStep, TornStep, LastStep
<1> QED
  BY <1>1, <1>2, LastIsLast, PTL DEF Spec

------------------------------------------------------------------------------
(* One appender.                                                            *)

\* What is settled stays settled: a step of the log adds records, raises the watermark
\* or drops what the watermark covers.
LEMMA SettledIsStable ==
    ASSUME [Log!LogNext]_(Log!logVars), TypeOK, TypeOK', NEW n \in Nat, Settled(n)
    PROVE  Settled(n)'
<1>0. /\ published \in Nat /\ published' \in Nat
      /\ Replayable \in SUBSET Record
      /\ \A r \in Record : r.lsn \in Nat
  BY FilesHoldFrames, RecordAssumption DEF TypeOK, Record, Lsn
<1>1. /\ published <= published'
      /\ \A r \in Replayable \ doubtful : r \in Replayable' \ doubtful' \/ r.lsn <= published'
  <2>1. ASSUME NEW w \in Lsn, Log!LogTruncate(w)
        PROVE  /\ published <= published'
               /\ \A r \in Replayable \ doubtful :
                     r \in Replayable' \ doubtful' \/ r.lsn <= published'
    <3>1. PICK gone \in SUBSET {r \in Replayable \ doubtful : r.lsn <= w} :
              Replayable' \ doubtful' = (Replayable \ doubtful) \ gone
      BY <2>1 DEF Log!LogTruncate
    <3>2. published' = IF w > published THEN w ELSE published
      BY <2>1 DEF Log!LogTruncate
    <3>3. w \in Nat /\ published <= published' /\ w <= published'
      BY <1>0, <3>2, RecordAssumption DEF Lsn
    <3>4. \A r \in gone : r.lsn <= w /\ r.lsn \in Nat
      BY <1>0, <3>1
    <3> QED BY <1>0, <3>1, <3>3, <3>4
  <2>2. ASSUME NEW r \in Record, Log!LogAppend(r) \/ Log!LogAppendFail(r)
        PROVE  published' = published /\ Replayable \ doubtful \subseteq Replayable' \ doubtful'
    BY <2>2 DEF Log!LogAppend, Log!LogAppendFail
  <2>3. CASE Log!LogCrash
    BY <1>0, <2>3 DEF Log!LogCrash
  <2>4. CASE UNCHANGED Log!logVars
    BY <1>0, <2>4 DEF Log!logVars
  <2>5. CASE Log!LogNext
    BY <1>0, <2>1, <2>2, <2>3, <2>5 DEF Log!LogNext, Log!Record, Record, Log!Lsn, Lsn
  <2> QED BY <2>4, <2>5
<1>2. CASE n <= published
  BY <1>0, <1>1, <1>2 DEF Settled
<1>3. ASSUME NEW r \in Replayable \ doubtful, n <= r.lsn PROVE Settled(n)'
  <2>1. r.lsn \in Nat
    BY <1>0
  <2>2. CASE r \in Replayable' \ doubtful'
    BY <1>3, <2>2 DEF Settled
  <2>3. CASE r.lsn <= published'
    BY <1>0, <1>3, <2>1, <2>3 DEF Settled
  <2> QED BY <1>1, <2>2, <2>3
<1> QED
  BY <1>2, <1>3 DEF Settled

\* With one appender a rotation follows an append to the active file, whose LSN is not
\* below the file's name and is below that of the record under way.
LEMMA OrderIsAscending ==
    ASSUME LsnInv, TornInv, SegmentsInv, LastInv, OrderInv
    PROVE  AscendingNames
<1> SUFFICES ASSUME at = "rotate", NEW r \in arg.record, NEW s \in DOMAIN dir
             PROVE  s < r.lsn
  BY DEF AscendingNames
<1>1. TypeOK /\ r \in inflight /\ r \in Record
  BY DEF LsnInv, Appending, TypeOK
<1>2. active.start \in DOMAIN dir
  BY DEF SegmentsInv, ActiveTail
<1>3. PICK q \in Range(dir[active.start]) : q \notin inflight
  BY DEF OrderInv
<1>4. q # Torn
  BY <1>1, <1>2, TornIsLast
<1>5. q \in Written
  BY <1>2, <1>3, <1>4, InSomeFile
<1>6. /\ q \in Record
      /\ \A x \in Record : x.lsn \in Nat
      /\ \A t \in DOMAIN dir : t \in Nat
      /\ nextLsn \in Nat
  BY <1>1, <1>5, FilesHoldFrames, RecordAssumption DEF TypeOK, Record, Lsn
<1>7. active.start <= q.lsn /\ r.lsn = nextLsn - 1 /\ s <= active.start
  BY <1>1, <1>2, <1>3, <1>4 DEF OrderInv, LastInv
<1>8. q.lsn < nextLsn /\ q.lsn # r.lsn
  BY <1>1, <1>3, <1>5 DEF LsnInv
<1> QED
  BY <1>1, <1>2, <1>6, <1>7, <1>8

\* Every step of a log with one appender keeps it in order.
LEMMA OrderStep ==
    ASSUME LsnInv, TornInv, SegmentsInv, LastInv, OrderInv, OneAppender, [Next]_vars
    PROVE  OrderInv'
<1>0. /\ TypeOK /\ TypeOK' /\ LsnInv'
      /\ "short_write" \notin WalFaults /\ "power_loss" \notin WalFaults
      /\ "io_error" \notin WalFaults
  BY LsnStep DEF LsnInv, OneAppender
<1>1. /\ \A x \in Record : x.lsn \in Nat /\ x.lsn - 1 \in Nat /\ x # Torn
      /\ \A t \in DOMAIN dir : t \in Nat
      /\ nextLsn \in Nat /\ nextLsn - 1 \in Nat /\ published \in Nat
      /\ active.start \in Nat
      /\ inflight \in SUBSET Record
      /\ size \in Nat
  BY <1>0, RecordAssumption, WalAssumption DEF TypeOK, Record, Lsn, Segment
<1>2. AscendingNames /\ FreshNames
  BY <1>0, OrderIsAscending, AscendingIsFresh
<1>3. \A n \in Nat : Settled(n) => Settled(n)'
  <2>1. [Log!LogNext]_(Log!logVars)
    BY <1>0, <1>2, LogStep
  <2> QED BY <1>0, <2>1, SettledIsStable
<1> DEFINE FilesInOrder ==
             \A s \in DOMAIN dir :
               /\ s > 0 => Settled(s - 1)
               /\ \A r \in Range(dir[s]) \ {Torn} : s <= r.lsn
<1>4. FilesInOrder
  BY DEF OrderInv
<1>5. ASSUME DOMAIN dir' \subseteq DOMAIN dir,
             \A s \in DOMAIN dir' : Range(dir'[s]) \ {Torn} \subseteq Range(dir[s])
      PROVE  FilesInOrder'
  <2>1. \A s \in DOMAIN dir' : s > 0 => Settled(s - 1)'
    BY <1>1, <1>3, <1>4, <1>5
  <2>2. \A s \in DOMAIN dir' : \A r \in Range(dir'[s]) \ {Torn} : s <= r.lsn
    BY <1>4, <1>5
  <2> QED BY <2>1, <2>2 DEF Settled
<1>6. CASE Open
  <2>1. /\ DOMAIN dir \subseteq DOMAIN dir'
        /\ \A s \in DOMAIN dir : dir'[s] = Intact(dir[s])
        /\ \A s \in DOMAIN dir' \ DOMAIN dir : s = 0 /\ dir'[s] = << >>
        /\ active'.start \in DOMAIN dir'
        /\ dir'[active'.start] \in Seq(Record)
        /\ size' = Len(dir'[active'.start])
        /\ Replayable' = Replayable
        /\ Written' = Replayable
        /\ nextLsn' \in 1 .. MaxLsn + 1
        /\ nextLsn' > published
        /\ \A r \in Replayable : r.lsn < nextLsn'
        /\ nextLsn' = published + 1 \/ \E r \in Replayable : nextLsn' = r.lsn + 1
    BY <1>0, <1>6, OpenEffect
  <2>2. /\ at = "closed" /\ at' = "idle" /\ inflight' = {} /\ doubtful = {} /\ doubtful' = {}
        /\ published' = published
    BY <1>6 DEF Open, LsnInv
  <2>3. \A s \in DOMAIN dir : dir[s] \in Seq(Frame)
    BY <1>0, FilesHoldFrames
  <2>4. \A s \in DOMAIN dir : Range(dir'[s]) \subseteq Range(dir[s])
    <3>1. \A s \in DOMAIN dir : Range(Intact(dir[s])) = ReplaySegment(dir[s])
                                /\ ReplaySegment(dir[s]) \subseteq Range(dir[s])
      BY <2>3, ReplaySegmentIs
    <3> QED BY <2>1, <3>1
  <2>5. Range(<< >>) = {}
    BY DEF Range
  <2>6. FilesInOrder'
    <3>1. \A s \in DOMAIN dir' : s > 0 => Settled(s - 1)'
      BY <1>1, <1>3, <1>4, <2>1
    <3>2. \A s \in DOMAIN dir' : \A r \in Range(dir'[s]) \ {Torn} : s <= r.lsn
      BY <1>4, <2>1, <2>4, <2>5
    <3> QED BY <3>1, <3>2 DEF Settled
  <2>7. \A r \in Replayable : r.lsn \in Nat
    BY <1>0, <1>1, FilesHoldFrames
  <2>8. nextLsn' \in Nat /\ nextLsn' - 1 \in Nat
    <3>1. PICK m : m = nextLsn'
      OBVIOUS
    <3>2. m \in 1 .. MaxLsn + 1 /\ MaxLsn \in Nat
      BY <2>1, <3>1, RecordAssumption
    <3>3. m \in Nat /\ m - 1 \in Nat
      BY <3>2
    <3> QED BY <3>1, <3>3
  <2>9. nextLsn' - 1 <= published' \/ \E r \in Replayable' \ doubtful' : nextLsn' - 1 <= r.lsn
    <3>1. CASE nextLsn' = published + 1
      BY <1>1, <2>2, <3>1
    <3>2. ASSUME NEW r \in Replayable, nextLsn' = r.lsn + 1
          PROVE  \E q \in Replayable' \ doubtful' : nextLsn' - 1 <= q.lsn
      <4>1. r \in Replayable' \ doubtful'
        BY <2>1, <2>2
      <4>2. nextLsn' - 1 <= r.lsn
        BY <2>7, <3>2
      <4> QED BY <4>1, <4>2
    <3> QED BY <2>1, <3>1, <3>2
  <2>10. active'.start <= nextLsn'
    <3>1. CASE active'.start \notin DOMAIN dir \/ active'.start = 0
      BY <2>1, <2>8, <3>1
    <3>2. CASE active'.start \in DOMAIN dir /\ active'.start # 0
      <4>1. Settled(active'.start - 1) /\ active'.start \in Nat
        BY <1>1, <1>4, <3>2
      <4>2. active'.start - 1 <= published \/ \E r \in Replayable : active'.start - 1 <= r.lsn
        BY <4>1 DEF Settled
      <4> QED BY <1>1, <2>1, <2>7, <2>8, <4>1, <4>2
    <3> QED BY <3>1, <3>2
  <2>11. size' > 0 => \E q \in Range(dir'[active'.start]) : q \notin inflight'
    <3> HAVE size' > 0
    <3>1. 1 \in DOMAIN dir'[active'.start]
      BY <2>1
    <3> QED BY <2>2, <3>1 DEF Range
  <2> QED BY <2>2, <2>6, <2>9, <2>10, <2>11 DEF OrderInv, Settled
<1>7. ASSUME NEW k \in Keys, NEW v \in Values \cup {Tombstone}, TakeLsn(k, v)
      PROVE  OrderInv'
  <2>a. PICK n : n = [key |-> k, lsn |-> nextLsn, val |-> v]
    OBVIOUS
  <2>1. /\ at # "closed" /\ at' = at /\ inflight' = inflight \cup {n} /\ nextLsn' = nextLsn + 1
        /\ Cardinality(inflight) < 1
        /\ UNCHANGED <<dir, active, size>>
    BY <1>7, <2>a DEF TakeLsn, OneAppender
  <2>2. n.lsn = nextLsn /\ n \in inflight'
    BY <2>1, <2>a
  <2>3. inflight = {}
    <3> SUFFICES ASSUME NEW r \in inflight PROVE FALSE
      OBVIOUS
    <3>1. inflight = {r}
      BY <2>1 DEF OrderInv
    <3>2. Cardinality({r}) = 1
      BY FS_Singleton
    <3> QED BY <2>1, <3>1, <3>2
  <2>4. Settled(n.lsn - 1)' /\ active.start <= nextLsn
    <3>1. Settled(n.lsn - 1) /\ n.lsn - 1 \in Nat /\ active.start <= nextLsn
      BY <1>1, <2>1, <2>2, <2>3 DEF OrderInv
    <3> QED BY <1>3, <3>1
  <2>5. n \in Record /\ n \notin Written /\ n # Torn
    BY <1>0, <1>1, <2>1, <2>2 DEF LsnInv, TypeOK
  <2>6. size > 0 => \E q \in Range(dir[active.start]) : q # n
    <3>1. active.start \in DOMAIN dir
      BY <2>1 DEF SegmentsInv, ActiveTail
    <3>2. n \notin Range(dir[active.start])
      BY <2>5, <3>1, InSomeFile
    <3> QED BY <2>1, <3>2 DEF OrderInv
  <2>7. FilesInOrder'
    BY <1>5, <2>1
  <2>8. inflight' = {n} /\ n.lsn = nextLsn' - 1
    BY <1>1, <2>1, <2>2, <2>3
  <2>9. at' = "rotate" => size' > 0
    BY <2>1 DEF OrderInv
  <2>10. active'.start <= n.lsn
    BY <2>1, <2>2, <2>4
  <2>11. size' > 0 => \E q \in Range(dir'[active'.start]) : q \notin inflight'
    BY <2>1, <2>6, <2>8
  <2> QED BY <2>1, <2>4, <2>7, <2>8, <2>9, <2>10, <2>11 DEF OrderInv, Settled
<1>8. ASSUME NEW r \in inflight, AppendLock(r) PROVE OrderInv'
  <2>1. /\ at = "idle" /\ at' = (IF size >= SegmentBytes THEN "rotate" ELSE "write")
        /\ UNCHANGED <<dir, active, size, nextLsn, inflight, doubtful, published>>
    BY <1>8 DEF AppendLock
  <2>2. at' = "rotate" => size' > 0
    BY <1>1, <2>1, WalAssumption
  <2>3. FilesInOrder'
    BY <1>5, <2>1
  <2>4. Replayable' = Replayable
    BY <2>1 DEF Replayable
  <2> QED BY <2>1, <2>2, <2>3, <2>4 DEF OrderInv, Settled
<1>9. CASE Rotate
  <2>1. PICK r \in arg.record :
           /\ r \in Record
           /\ DOMAIN dir' = DOMAIN dir \cup {r.lsn}
           /\ \A s \in DOMAIN dir : dir'[s] = dir[s]
           /\ Range(dir'[r.lsn]) = IF r.lsn \in DOMAIN dir THEN Range(dir[r.lsn]) ELSE {}
           /\ active' = [start |-> r.lsn, max |-> 0]
    BY <1>0, <1>9, RotateEffect
  <2>2. at = "rotate" /\ at' = "write" /\ size' = 0 /\ inflight' = inflight /\ nextLsn' = nextLsn
    BY <1>9 DEF Rotate
  <2>3. r \in inflight /\ inflight = {r} /\ r.lsn = nextLsn - 1 /\ Settled(r.lsn - 1)
    BY <2>1, <2>2 DEF LsnInv, Appending, OrderInv
  <2>4. r.lsn \notin DOMAIN dir
    BY <1>2, <2>1, <2>2 DEF FreshNames
  <2>5. Settled(r.lsn - 1)'
    BY <1>1, <1>3, <2>1, <2>3
  <2>6. FilesInOrder'
    <3>1. \A s \in DOMAIN dir' : s > 0 => Settled(s - 1)'
      BY <1>1, <1>3, <1>4, <2>1, <2>5
    <3>2. \A s \in DOMAIN dir' : \A q \in Range(dir'[s]) \ {Torn} : s <= q.lsn
      BY <1>4, <2>1, <2>4
    <3> QED BY <3>1, <3>2 DEF Settled
  <2>7. active'.start = r.lsn /\ r.lsn <= r.lsn
    BY <1>1, <2>1
  <2> QED BY <2>2, <2>3, <2>5, <2>6, <2>7 DEF OrderInv, Settled
<1>10. CASE WriteFrame
  <2>1. /\ at = "write" /\ at' = "sync" /\ UNCHANGED <<active, size, nextLsn, inflight>>
    BY <1>10 DEF WriteFrame
  <2>2. PICK r \in arg.record : dir' = AppendFrame(dir, active.start, r)
    BY <1>10 DEF WriteFrame
  <2>3. r \in inflight /\ r \in Record /\ r \in Frame
    BY <1>1, <2>1, <2>2 DEF LsnInv, Appending, Frame
  <2>4. active.start \in DOMAIN dir
    BY <2>1 DEF SegmentsInv, ActiveTail
  <2>5. /\ DOMAIN dir' = DOMAIN dir
        /\ \A s \in DOMAIN dir : s # active.start => dir'[s] = dir[s]
        /\ Range(dir'[active.start]) = Range(dir[active.start]) \cup {r}
    BY <1>0, <2>2, <2>3, <2>4, AppendFrameIs
  <2>6. inflight = {r} /\ r.lsn = nextLsn - 1 /\ Settled(r.lsn - 1) /\ active.start <= r.lsn
    BY <2>1, <2>3 DEF OrderInv
  <2>7. FilesInOrder'
    <3>1. \A s \in DOMAIN dir' : s > 0 => Settled(s - 1)'
      BY <1>1, <1>3, <1>4, <2>5
    <3>2. \A s \in DOMAIN dir' : \A q \in Range(dir'[s]) \ {Torn} : s <= q.lsn
      BY <1>4, <2>5, <2>6
    <3> QED BY <3>1, <3>2 DEF Settled
  <2>8. Settled(r.lsn - 1)'
    BY <1>1, <1>3, <2>3, <2>6
  <2>9. size > 0 => \E q \in Range(dir'[active.start]) : q \notin inflight
    BY <2>1, <2>5 DEF OrderInv
  <2> QED BY <2>1, <2>6, <2>7, <2>8, <2>9 DEF OrderInv, Settled
<1>11. CASE SyncFrame
  <2>1. at = "sync" /\ at' = "idle" /\ dir' = dir /\ nextLsn' = nextLsn
        /\ active'.start = active.start
    BY <1>0, <1>11 DEF SyncFrame, TypeOK, Segment
  <2>2. PICK r \in inflight : arg.record = {r}
    BY <2>1 DEF LsnInv, Appending
  <2>3. inflight = {r} /\ r.lsn = nextLsn - 1 /\ active.start <= r.lsn /\ r \in Record
    BY <1>1, <2>1, <2>2 DEF OrderInv
  <2>4. inflight' = {} /\ doubtful' = doubtful \ {r}
    BY <1>11, <2>2, <2>3 DEF SyncFrame
  <2>5. active.start \in DOMAIN dir /\ r \in Range(dir[active.start])
    BY <2>1, <2>2 DEF SegmentsInv, ActiveTail, WrittenOnce
  <2>6. r \in Replayable'
    <3>1. r \in ReplaySegment(dir[active.start])
      BY <1>0, <1>1, <2>3, <2>5, TornIsLast
    <3>2. r \in Replayable
      BY <2>5, <3>1, InSomeFile
    <3>3. Replayable' = Replayable
      BY <2>1 DEF Replayable
    <3> QED BY <3>2, <3>3
  <2>7. nextLsn' - 1 <= r.lsn /\ r \in Replayable' \ doubtful'
    BY <1>1, <2>1, <2>3, <2>4, <2>6
  <2>8. FilesInOrder'
    BY <1>5, <2>1
  <2>9. active.start <= nextLsn
    BY <1>1, <2>3
  <2>10. \E q \in Range(dir'[active'.start]) : q \notin inflight'
    BY <2>1, <2>4, <2>5
  <2> QED BY <2>1, <2>4, <2>7, <2>8, <2>9, <2>10 DEF OrderInv, Settled
<1>12. ASSUME NEW w \in Lsn, TruncateThrough(w) PROVE OrderInv'
  <2>1. /\ at = "idle" /\ at' \in {"idle", "remove"}
        /\ UNCHANGED <<dir, active, size, nextLsn, inflight>>
    BY <1>12 DEF TruncateThrough
  <2>2. FilesInOrder'
    BY <1>5, <2>1
  <2>3. inflight = {} => Settled(nextLsn - 1)'
    BY <1>1, <1>3, <2>1 DEF OrderInv
  <2>4. \A r \in inflight : Settled(r.lsn - 1)'
    BY <1>1, <1>3, <2>1 DEF OrderInv
  <2> QED BY <2>1, <2>2, <2>3, <2>4 DEF OrderInv, Settled
<1>13. ASSUME NEW g \in arg.remove, RemoveFile(g) PROVE OrderInv'
  <2>1. /\ at = "remove" /\ at' \in {"idle", "remove"} /\ g \in arg.remove
        /\ UNCHANGED <<active, size, nextLsn, inflight>>
    BY <1>13 DEF RemoveFile
  <2>2. DOMAIN dir' = DOMAIN dir \ {g.start} /\ \A t \in DOMAIN dir' : dir'[t] = dir[t]
    BY <1>13, RemoveEffect
  <2>3. active.start \in DOMAIN dir /\ g.start # active.start
    BY <2>1 DEF SegmentsInv, ActiveTail, NamesApart
  <2>4. FilesInOrder'
    BY <1>5, <2>2
  <2>5. inflight = {} => Settled(nextLsn - 1)'
    BY <1>1, <1>3, <2>1 DEF OrderInv
  <2>6. \A r \in inflight : Settled(r.lsn - 1)'
    BY <1>1, <1>3, <2>1 DEF OrderInv
  <2>7. dir'[active.start] = dir[active.start]
    BY <2>2, <2>3
  <2> QED BY <2>1, <2>4, <2>5, <2>6, <2>7 DEF OrderInv, Settled
<1>14. CASE Crash
  <2>1. /\ DOMAIN dir' \subseteq DOMAIN dir
        /\ \A s \in DOMAIN dir' : s # active.start => dir'[s] = dir[s]
        /\ active.start \in DOMAIN dir' =>
              dir'[active.start] \in Survivors(dir[active.start], synced)
    BY <1>0, <1>14, CrashEffect
  <2>2. at' = "closed"
    BY <1>14 DEF Crash
  <2>3. active.start \in DOMAIN dir' =>
            Range(dir'[active.start]) \subseteq Range(dir[active.start]) \cup {Torn}
    <3> HAVE active.start \in DOMAIN dir'
    <3>1. dir[active.start] \in Seq(Frame) /\ synced \in Nat
      BY <1>0, <2>1, FilesHoldFrames DEF TypeOK
    <3> QED BY <2>1, <3>1, SurvivorIs
  <2>4. \A s \in DOMAIN dir' : Range(dir'[s]) \ {Torn} \subseteq Range(dir[s])
    BY <2>1, <2>3
  <2>5. FilesInOrder'
    BY <1>5, <2>1, <2>4
  <2> QED BY <2>2, <2>5 DEF OrderInv, Settled
<1>15. CASE WriteFail \/ AppendFail
  BY <1>0, <1>15 DEF WriteFail, AppendFail
<1>16. CASE RemoveFail
  <2>1. /\ at = "remove" /\ at' = "idle"
        /\ UNCHANGED <<dir, active, size, nextLsn, inflight, doubtful, published>>
    BY <1>16 DEF RemoveFail
  <2>2. Replayable' = Replayable
    BY <2>1 DEF Replayable
  <2> QED BY <2>1, <2>2 DEF OrderInv, Settled
<1>17. CASE UNCHANGED vars
  <2>1. UNCHANGED <<dir, active, size, nextLsn, inflight, doubtful, published, at>>
    BY <1>17 DEF vars
  <2>2. Replayable' = Replayable
    BY <2>1 DEF Replayable
  <2> QED BY <2>1, <2>2 DEF OrderInv, Settled
<1> QED
  BY <1>6, <1>7, <1>8, <1>9, <1>10, <1>11, <1>12, <1>13, <1>14, <1>15, <1>16,
     <1>17 DEF Next

\* What one appender at a time, and no I/O errors, keep.
OneAppenderInv == LsnInv /\ TornInv /\ SegmentsInv /\ LastInv /\ OrderInv

\* It bounds the names that a rotation takes.
LEMMA OneAppenderNames ==
    ASSUME OneAppenderInv
    PROVE  AscendingNames /\ FreshNames
  BY OrderIsAscending, AscendingIsFresh DEF OneAppenderInv, LsnInv

\* With one writer at a time and no I/O errors, every LSN below the one under way is
\* settled, however often the process crashes and hands an LSN out again.
THEOREM OrderInvariantHolds ==
    ASSUME OneAppender
    PROVE  Spec => []OneAppenderInv /\ []OrderInv
<1>0. "short_write" \notin WalFaults
  BY DEF OneAppender
<1>1. Init => OneAppenderInv
  <2> SUFFICES ASSUME Init PROVE OneAppenderInv
    OBVIOUS
  <2>1. DOMAIN dir = {} /\ at = "closed"
    BY DEF Init
  <2>2. LastInv /\ OrderInv /\ SegmentsInv
    BY <2>1 DEF LastInv, OrderInv, SegmentsInv
  <2> QED BY <2>2, LsnInit, TornInit DEF OneAppenderInv
<1>2. OneAppenderInv /\ [Next]_vars => OneAppenderInv'
  <2> SUFFICES ASSUME OneAppenderInv, [Next]_vars PROVE OneAppenderInv'
    OBVIOUS
  <2>0. LsnInv /\ TornInv /\ SegmentsInv /\ LastInv /\ OrderInv
    BY DEF OneAppenderInv
  <2>1. TypeOK /\ AscendingNames /\ FreshNames
    BY <2>0, OneAppenderNames DEF LsnInv
  <2>2. LsnInv' /\ TornInv' /\ SegmentsInv'
    BY <1>0, <2>0, <2>1, LsnStep, TornStep, SegmentsStep
  <2>3. LastInv'
    BY <1>0, <2>0, <2>1, LastStep
  <2>4. OrderInv'
    BY <2>0, OrderStep
  <2> QED BY <2>2, <2>3, <2>4 DEF OneAppenderInv
<1>3. OneAppenderInv => OrderInv
  BY DEF OneAppenderInv
<1> QED
  BY <1>1, <1>2, <1>3, PTL DEF Spec

\* So names ascend: a rotation never reopens a file.
THEOREM OneAppenderAscends ==
    ASSUME OneAppender
    PROVE  Spec => []AscendingNames /\ []FreshNames
<1>1. OneAppenderInv => AscendingNames /\ FreshNames
  BY OneAppenderNames
<1> QED
  BY <1>1, OrderInvariantHolds, PTL

\* So with one writer at a time and no I/O errors the log keeps all its promises.
THEOREM OneAppenderIsSafe ==
    ASSUME OneAppender
    PROVE  Spec => /\ ImplementsDurableLog
                   /\ []SealedMaxIsBound
                   /\ []ActiveNeverDeleted
                   /\ []TornOnlyInLast
<1>0. "short_write" \notin WalFaults /\ "power_loss" \notin WalFaults
  BY DEF OneAppender
<1>1. Spec => []AscendingNames /\ []FreshNames
  BY OneAppenderAscends
<1>2. Spec /\ []FreshNames => []SealedMaxIsBound /\ []ActiveNeverDeleted
  BY FreshNamesAreSafe
<1>3. Spec /\ []FreshNames => ImplementsDurableLog
  BY <1>0, FreshNamesImplementLog
<1>4. Spec /\ []AscendingNames => []TornOnlyInLast
  BY <1>0, AscendingTearsLast
<1> QED
  BY <1>1, <1>2, <1>3, <1>4, PTL

------------------------------------------------------------------------------
(* Several appenders, when a restart continues above the names on disk.     *)

\* Each step keeps the names below next_lsn and off the LSNs on their way.
LEMMA NamesStep ==
    ASSUME LsnInv, NamesInv, OpensAbove, [Next]_vars
    PROVE  NamesInv'
<1>0. /\ TypeOK /\ nextLsn \in Nat /\ \A s \in DOMAIN dir : s \in Nat
      /\ at # "closed" => \A r \in inflight : r.lsn < nextLsn
      /\ \A q, r \in inflight : q.lsn = r.lsn => q = r
  <2>1. TypeOK /\ MaxLsn \in Nat
    BY RecordAssumption DEF LsnInv
  <2>2. nextLsn \in Nat /\ \A s \in DOMAIN dir : s \in Nat
    BY <2>1 DEF TypeOK
  <2> QED BY <2>1, <2>2 DEF LsnInv
<1>a. at # "closed" => /\ \A s \in DOMAIN dir : s < nextLsn
                       /\ \A r \in inflight : r.lsn \in DOMAIN dir =>
                             at \in {"write", "sync"} /\ r \in arg.record
  BY DEF NamesInv
<1>b. ASSUME at # "closed", DOMAIN dir' \subseteq DOMAIN dir, nextLsn' = nextLsn,
             inflight' \subseteq inflight \ arg.record
      PROVE  NamesInv'
  BY <1>a, <1>b DEF NamesInv
<1>c. ASSUME at \notin {"closed", "write", "sync"}, DOMAIN dir' \subseteq DOMAIN dir,
             UNCHANGED <<nextLsn, inflight>>
      PROVE  NamesInv'
  BY <1>a, <1>c DEF NamesInv
<1>1. CASE Open
  <2>1. inflight' = {} /\ nextLsn' = FirstLsn /\ \A s \in DOMAIN dir : s < FirstLsn
    BY <1>1 DEF Open, LsnInv, OpensAbove
  <2>2. /\ \A s \in DOMAIN dir' : s \in DOMAIN dir \/ s = 0
        /\ nextLsn' \in 1 .. MaxLsn + 1
    BY <1>0, <1>1, OpenEffect
  <2>3. 0 < nextLsn'
    BY <2>2, RecordAssumption
  <2> QED BY <2>1, <2>2, <2>3 DEF NamesInv
<1>2. ASSUME NEW k \in Keys, NEW v \in Values \cup {Tombstone}, TakeLsn(k, v)
      PROVE  NamesInv'
  <2>1. /\ at # "closed" /\ UNCHANGED <<dir, at, arg>> /\ nextLsn' = nextLsn + 1
        /\ inflight' = inflight \cup {[key |-> k, lsn |-> nextLsn, val |-> v]}
    BY <1>2 DEF TakeLsn
  <2>2. \A s \in DOMAIN dir : s < nextLsn + 1 /\ s # nextLsn
    BY <1>0, <1>a, <2>1
  <2>3. \A r \in inflight' : r \in inflight \/ r.lsn = nextLsn
    BY <2>1
  <2> QED BY <1>a, <2>1, <2>2, <2>3 DEF NamesInv
<1>3. CASE \E r \in inflight : AppendLock(r)
  BY <1>c, <1>3 DEF AppendLock
<1>4. CASE Rotate
  <2>1. PICK r \in arg.record : DOMAIN dir' = DOMAIN dir \cup {r.lsn}
    BY <1>0, <1>4, RotateEffect
  <2>2. at = "rotate" /\ at' = "write" /\ UNCHANGED <<arg, nextLsn, inflight>>
    BY <1>4 DEF Rotate
  <2>3. r \in inflight /\ r.lsn < nextLsn
    BY <1>0, <2>2 DEF LsnInv, Appending
  <2>4. \A q \in inflight : q.lsn \in DOMAIN dir' => q = r
    BY <1>0, <1>a, <2>1, <2>2, <2>3
  <2> QED BY <1>a, <2>1, <2>2, <2>3, <2>4 DEF NamesInv
<1>5. CASE WriteFrame
  <2>1. at = "write" /\ at' = "sync" /\ UNCHANGED <<arg, nextLsn, inflight>>
    BY <1>5 DEF WriteFrame
  <2>2. DOMAIN dir' = DOMAIN dir
    BY <1>5 DEF WriteFrame, AppendFrame
  <2> QED BY <1>a, <2>1, <2>2 DEF NamesInv
<1>6. CASE WriteFail
  <2>1. DOMAIN dir' = DOMAIN dir
    BY <1>6 DEF WriteFail, AppendFrame
  <2> QED BY <1>b, <1>6, <2>1 DEF WriteFail
<1>7. CASE SyncFrame \/ AppendFail
  BY <1>b, <1>7 DEF SyncFrame, AppendFail
<1>8. CASE (\E w \in Lsn : TruncateThrough(w)) \/ RemoveFail
  BY <1>c, <1>8 DEF TruncateThrough, RemoveFail
<1>9. CASE \E g \in arg.remove : RemoveFile(g)
  <2>1. DOMAIN dir' \subseteq DOMAIN dir
    BY <1>9 DEF RemoveFile, Without
  <2> QED BY <1>c, <1>9, <2>1 DEF RemoveFile
<1>10. CASE Crash
  BY <1>10 DEF Crash, NamesInv
<1>11. CASE UNCHANGED vars
  BY <1>11 DEF vars, NamesInv
<1> QED
  BY <1>1, <1>2, <1>3, <1>4, <1>5, <1>6, <1>7, <1>8, <1>9, <1>10, <1>11 DEF Next

\* With any number of appenders and under every fault, a rotation reuses a name only
\* if a restart went on at or below the name of a file: next_lsn is all that keeps
\* names apart.
THEOREM OpensAboveIsFresh == Spec /\ []OpensAbove => []FreshNames
<1>1. Init => LsnInv /\ NamesInv
  <2>1. Init => at = "closed"
    BY DEF Init
  <2> QED BY <2>1, LsnInit DEF NamesInv
<1>2. LsnInv /\ NamesInv /\ OpensAbove /\ [Next]_vars => (LsnInv /\ NamesInv)'
  BY LsnStep, NamesStep
<1>3. LsnInv /\ NamesInv => FreshNames
  BY DEF LsnInv, NamesInv, FreshNames, Appending
<1> QED
  BY <1>1, <1>2, <1>3, PTL DEF Spec

\* Until the first crash there is nothing to continue below, so several writers are
\* safe within the first life of a log.
THEOREM FirstLifeIsFresh == Spec /\ [](crashes = 0) => []FreshNames
<1> DEFINE Inv == at = "closed" => crashes # 0 \/ DOMAIN dir = {}
<1>1. Init => Inv
  BY DEF Init
<1>2. TypeOK /\ Inv /\ [Next]_vars => Inv'
  <2> SUFFICES ASSUME TypeOK, Inv, [Next]_vars, at' = "closed" PROVE crashes' # 0 \/ DOMAIN dir' = {}
    OBVIOUS
  <2>1. CASE Crash
    BY <2>1, WalAssumption DEF Crash, TypeOK
  <2>2. CASE UNCHANGED vars
    BY <2>2 DEF vars
  <2>3. ASSUME [Next]_vars, ~Crash, ~UNCHANGED vars PROVE at' # "closed"
    BY <2>3 DEF Next, Open, TakeLsn, AppendLock, Rotate, WriteFrame, WriteFail, SyncFrame,
                AppendFail, TruncateThrough, RemoveFile, RemoveFail
  <2> QED BY <2>1, <2>2, <2>3
<1>3. Inv /\ crashes = 0 => OpensAbove
  BY DEF OpensAbove
<1> QED
  BY <1>1, <1>2, <1>3, WalTypeCorrect, OpensAboveIsFresh, PTL DEF Spec

\* So with any number of appenders and failing calls, a log whose restarts continue
\* above its names keeps what was appended Ok until a truncation covers it.
THEOREM OpensAboveIsSafe ==
    ASSUME "short_write" \notin WalFaults, "power_loss" \notin WalFaults
    PROVE  Spec /\ []OpensAbove => /\ ImplementsDurableLog
                                   /\ []SealedMaxIsBound
                                   /\ []ActiveNeverDeleted
<1>1. Spec /\ []FreshNames => ImplementsDurableLog
  BY FreshNamesImplementLog
<1> QED
  BY <1>1, OpensAboveIsFresh, FreshNamesAreSafe, PTL

==============================================================================
