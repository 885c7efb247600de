--------------------------- MODULE OrgsDumpProofs ---------------------------
(* Proofs about OrgsDump, for any keys, organisations, patterns and failures. *)
EXTENDS OrgsDump, FiniteSetTheorems, SequenceTheorems, TLAPS

-----------------------------------------------------------------------------
(* What makes the two invariants inductive *)

\* The histories frame the database, and what is in flight matches a pattern.
InFlight ==
    /\ stable \subseteq db /\ db \subseteq seen
    /\ block \subseteq Matching
    /\ \A o \in OrgSet : \A j \in 1 .. Len(channel[o]) : channel[o][j] \subseteq Matching

\* A writer that has not created its file has buffered nothing.
BufferAfterFile ==
    \A o \in OrgSet : writer[o] \in {"none", "spawned", "create"} => buf[o] = {}

\* The organisations whose turn has not come have no writer.
SpawnedInTurn ==
    main # "idle" =>
        \A n \in 1 .. Len(Orgs) :
            cur < n \/ (cur = n /\ main = "spawn") => writer[Orgs[n]] = "none"

\* A closed channel is not scanned for any more.
ClosedIsScanned ==
    main # "idle" => \A o \in closed : \E n \in 1 .. cur : o = Orgs[n] /\ (n = cur => main = "wait")

\* Key k is still to be sent to the organisation that is being scanned for.
Ahead(k) ==
    /\ main \in {"scan", "send"}
    /\ \/ main = "send" /\ k \in block
       \/ k \in left /\ k \in Patterns[pat]
       \/ \E p \in 1 .. Len(Patterns) : pat < p /\ k \in Patterns[p]

InChannel(k, o) == \E j \in 1 .. Len(channel[o]) : k \in channel[o][j]

Dumped(k, o) == writer[o] \in {"recv", "done"} /\ k \in file[o] \union buf[o]

\* Until something fails, every key that a running dump owes an organisation is
\* ahead of the scan, in the organisation's channel, or dumped.
Accounted ==
    main # "idle" /\ failures = 0 =>
        \A o \in OrgSet : writer[o] # "none" =>
            \A k \in Wanted(o, stable) :
                Dumped(k, o) \/ InChannel(k, o) \/ (o = Orgs[cur] /\ Ahead(k))

IndInv ==
    /\ TypeOK /\ InFlight /\ SpawnedInTurn /\ BufferAfterFile /\ ClosedIsScanned
    /\ Accounted /\ FlushedIsComplete /\ NothingStale

-----------------------------------------------------------------------------
(* The command line *)

LEMMA OrgsFinite == IsFiniteSet(OrgSet)
<1> DEFINE at == [n \in 1 .. Len(Orgs) |-> Orgs[n]]
<1>1. IsFiniteSet(1 .. Len(Orgs))
  BY DumpConstants, FS_Interval DEF DumpConstants
<1>2. at \in Surjection(1 .. Len(Orgs), OrgSet)
  BY DEF Surjection, OrgSet
<1>3. QED
  BY <1>1, <1>2, FS_Surjection

\* The organisation that is scanned for is one of those given.
LEMMA CurrentOrg == ASSUME TypeOK PROVE Orgs[cur] \in OrgSet
BY DEF TypeOK, OrgSet

-----------------------------------------------------------------------------
(* The WaitGroup: its counter follows the writers that have registered *)

Registered(w) == {o \in OrgSet : w[o] \in {"create", "recv"}}

LEMMA RegisteredFinite ==
    ASSUME NEW w
    PROVE  IsFiniteSet(Registered(w)) /\ Cardinality(Registered(w)) \in Nat
<1>1. Registered(w) \in SUBSET OrgSet
  BY DEF Registered
<1>2. IsFiniteSet(Registered(w))
  BY <1>1, OrgsFinite, FS_Subset
<1>3. QED
  BY <1>2, FS_CardinalityType

LEMMA WriterStep ==
    ASSUME TypeOK, NEW o \in OrgSet, NEW to \in {"none", "spawned", "create", "recv", "done"},
           writer' = [writer EXCEPT ![o] = to]
    PROVE  /\ writer' \in [OrgSet -> {"none", "spawned", "create", "recv", "done"}]
           /\ writer'[o] = to /\ \A q \in OrgSet : q # o => writer'[q] = writer[q]
           /\ o \in Registered(writer) /\ to \in {"create", "recv"} =>
                  Registered(writer') = Registered(writer)
           /\ o \notin Registered(writer) /\ to \notin {"create", "recv"} =>
                  Registered(writer') = Registered(writer)
           /\ o \notin Registered(writer) /\ to \in {"create", "recv"} =>
                  Registered(writer') = Registered(writer) \union {o}
           /\ o \in Registered(writer) /\ to \notin {"create", "recv"} =>
                  Registered(writer') = Registered(writer) \ {o}
<1>1. /\ writer' \in [OrgSet -> {"none", "spawned", "create", "recv", "done"}]
      /\ writer'[o] = to /\ \A q \in OrgSet : q # o => writer'[q] = writer[q]
  BY DEF TypeOK
<1>2. QED
  BY <1>1 DEF Registered

\* A block that is received.
LEMMA ReceiveStep ==
    ASSUME TypeOK, NEW o \in OrgSet, Receive(o)
    PROVE  /\ channel' \in [OrgSet -> Seq(SUBSET Keys)]
           /\ \A q \in OrgSet : q # o => channel'[q] = channel[q]
           /\ Head(channel[o]) = channel[o][1] /\ Head(channel[o]) \in SUBSET Keys
           /\ Len(channel'[o]) = Len(channel[o]) - 1
           /\ \A j \in 1 .. Len(channel'[o]) : channel'[o][j] = channel[o][j + 1]
           /\ \A q \in OrgSet : Len(channel'[q]) <= Count
<1>1. /\ channel \in [OrgSet -> Seq(SUBSET Keys)] /\ channel[o] \in Seq(SUBSET Keys)
      /\ channel[o] # <<>>
      /\ channel' = [channel EXCEPT ![o] = Tail(channel[o])]
  BY DEF TypeOK, Receive
<1>2. /\ Head(channel[o]) \in SUBSET Keys /\ Head(channel[o]) = channel[o][1]
      /\ Tail(channel[o]) \in Seq(SUBSET Keys)
      /\ Len(Tail(channel[o])) = Len(channel[o]) - 1
      /\ \A j \in 1 .. Len(Tail(channel[o])) : Tail(channel[o])[j] = channel[o][j + 1]
      /\ Len(channel[o]) \in Nat
  BY <1>1, HeadTailProperties, LenProperties
<1>3. channel'[o] = Tail(channel[o]) /\ \A q \in OrgSet : q # o => channel'[q] = channel[q]
  BY <1>1
<1>4. channel' \in [OrgSet -> Seq(SUBSET Keys)]
  BY <1>1, <1>2
<1>5. \A q \in OrgSet : Len(channel'[q]) <= Count
  BY <1>2, <1>3, DumpConstants DEF TypeOK, DumpConstants
<1>6. QED
  BY <1>2, <1>3, <1>4, <1>5

\* A block that is sent.
LEMMA SendStep ==
    ASSUME TypeOK, SendBlock
    PROVE  /\ channel' \in [OrgSet -> Seq(SUBSET Keys)]
           /\ \A q \in OrgSet : q # Orgs[cur] => channel'[q] = channel[q]
           /\ Len(channel[Orgs[cur]]) \in Nat
           /\ Len(channel'[Orgs[cur]]) = Len(channel[Orgs[cur]]) + 1
           /\ \A j \in 1 .. Len(channel[Orgs[cur]]) : channel'[Orgs[cur]][j] = channel[Orgs[cur]][j]
           /\ channel'[Orgs[cur]][Len(channel[Orgs[cur]]) + 1] = block
           /\ \A q \in OrgSet : Len(channel'[q]) <= Count
<1> DEFINE o == Orgs[cur]
<1>0. o \in OrgSet
  BY CurrentOrg
<1>1. /\ channel \in [OrgSet -> Seq(SUBSET Keys)] /\ channel[o] \in Seq(SUBSET Keys)
      /\ block \in SUBSET Keys
      /\ channel' = [channel EXCEPT ![o] = Append(channel[o], block)]
      /\ Len(channel[o]) < Count
  BY <1>0 DEF TypeOK, SendBlock
<1>2. /\ Append(channel[o], block) \in Seq(SUBSET Keys)
      /\ Len(Append(channel[o], block)) = Len(channel[o]) + 1
      /\ \A j \in 1 .. Len(channel[o]) : Append(channel[o], block)[j] = channel[o][j]
      /\ Append(channel[o], block)[Len(channel[o]) + 1] = block
      /\ Len(channel[o]) \in Nat
  BY <1>1, AppendProperties, LenProperties
<1>3. channel'[o] = Append(channel[o], block) /\ \A q \in OrgSet : q # o => channel'[q] = channel[q]
  BY <1>0, <1>1
<1>4. channel' \in [OrgSet -> Seq(SUBSET Keys)]
  BY <1>1, <1>2
<1>5. \A q \in OrgSet : Len(channel'[q]) <= Count
  BY <1>1, <1>2, <1>3, DumpConstants DEF TypeOK, DumpConstants
<1>6. QED
  BY <1>2, <1>3, <1>4, <1>5

-----------------------------------------------------------------------------
\* The type invariant, with the counter of the WaitGroup, is kept by every step.
LEMMA TypeStep == ASSUME TypeOK, SpawnedInTurn, Next PROVE TypeOK'
<1> USE DEF database, scan, writers, budget
<1>0. /\ Len(Orgs) \in Nat \ {0} /\ Len(Patterns) \in Nat \ {0} /\ Count \in Nat \ {0}
      /\ MaxChanges \in Nat /\ MaxFailures \in Nat /\ MaxKills \in Nat
      /\ \A n \in 1 .. Len(Patterns) : Patterns[n] \subseteq Keys
  BY DumpConstants DEF DumpConstants
<1>w. wg = Cardinality(Registered(writer)) /\ IsFiniteSet(Registered(writer)) /\ wg \in Nat
  BY RegisteredFinite DEF TypeOK, Registered
<1>c. Registered(writer') = {o \in OrgSet : writer'[o] \in {"create", "recv"}}
  BY DEF Registered
<1>1. CASE Start
  <2>1. Registered(writer') = {}
    BY <1>1 DEF Start, Registered
  <2>2. wg' = Cardinality({o \in OrgSet : writer'[o] \in {"create", "recv"}})
    BY <1>1, <1>c, <2>1, FS_EmptySet DEF Start
  <2>3. <<>> \in Seq(SUBSET Keys) /\ Len(<<>>) = 0
    BY EmptySeq
  <2>4. QED
    BY <1>0, <1>1, <2>2, <2>3 DEF Start, TypeOK
<1>2. CASE SpawnWriter
  <2>0. Orgs[cur] \in OrgSet /\ Orgs[cur] \notin Registered(writer)
    BY <1>2, CurrentOrg DEF SpawnWriter, SpawnedInTurn, TypeOK, Registered
  <2>1. /\ writer' \in [OrgSet -> {"none", "spawned", "create", "recv", "done"}]
        /\ Registered(writer') = Registered(writer)
    BY <1>2, <2>0, WriterStep DEF SpawnWriter
  <2>2. wg' = Cardinality({o \in OrgSet : writer'[o] \in {"create", "recv"}})
    BY <1>2, <1>w, <1>c, <2>1 DEF SpawnWriter
  <2>3. QED
    BY <1>0, <1>2, <2>1, <2>2 DEF SpawnWriter, TypeOK
<1>3. CASE ScanBlock \/ ScanFails
  <2>1. block' \subseteq Keys /\ left' \subseteq Keys /\ main' = "send"
    BY <1>3 DEF ScanBlock, ScanFails, TypeOK
  <2>2. failures' \in 0 .. MaxFailures
    BY <1>0, <1>3 DEF ScanBlock, ScanFails, Fail, TypeOK
  <2>3. UNCHANGED <<database, cur, pat, channel, closed, writers, exit, kills>>
    BY <1>3 DEF ScanBlock, ScanFails, Fail
  <2>4. QED
    BY <2>1, <2>2, <2>3 DEF TypeOK
<1>4. CASE SendBlock
  BY SMTT(30), <1>0, <1>4, SendStep DEF SendBlock, TypeOK
<1>5. CASE CloseChan
  BY SMTT(30), <1>0, <1>5, CurrentOrg DEF CloseChan, TypeOK
<1>6. CASE WaitReturns \/ Kill
  <2>1. kills' \in 0 .. MaxKills
    BY <1>0, <1>6 DEF WaitReturns, Kill, TypeOK
  <2>2. /\ main' = "idle" /\ exit' \in {"ok", "killed"}
        /\ UNCHANGED <<database, cur, scan, channel, closed, writers, failures>>
    BY <1>6 DEF WaitReturns, Kill, End
  <2>3. QED
    BY <2>1, <2>2 DEF TypeOK
<1>7. ASSUME NEW o \in OrgSet, Register(o)
      PROVE  TypeOK'
  <2>1. /\ writer' \in [OrgSet -> {"none", "spawned", "create", "recv", "done"}]
        /\ Registered(writer') = Registered(writer) \union {o} /\ o \notin Registered(writer)
    BY <1>7, WriterStep DEF Register, Registered
  <2>2. wg' = Cardinality(Registered(writer'))
    BY <1>7, <1>w, <2>1, FS_AddElement DEF Register
  <2>3. QED
    BY <1>7, <1>c, <2>1, <2>2 DEF Register, TypeOK
<1>8. ASSUME NEW o \in OrgSet, CreateFile(o)
      PROVE  TypeOK'
  <2>1. /\ writer' \in [OrgSet -> {"none", "spawned", "create", "recv", "done"}]
        /\ Registered(writer') = Registered(writer)
    BY <1>8, WriterStep DEF CreateFile, Registered
  <2>2. QED
    BY <1>8, <1>w, <1>c, <2>1 DEF CreateFile, TypeOK
<1>9. ASSUME NEW o \in OrgSet, CreateFails(o)
      PROVE  TypeOK'
  BY <1>0, <1>9 DEF CreateFails, Fail, End, TypeOK
<1>10. ASSUME NEW o \in OrgSet, FilterBlock(o)
       PROVE  TypeOK'
  <2>1. Receive(o) /\ Head(channel[o]) \in SUBSET Keys
    BY <1>10, ReceiveStep DEF FilterBlock
  <2>2. buf' \in [OrgSet -> SUBSET Keys] /\ file' \in [OrgSet -> SUBSET Keys]
    BY <1>10, <2>1 DEF FilterBlock, TypeOK
  <2>3. QED
    BY <1>10, <2>1, <2>2, ReceiveStep DEF FilterBlock, TypeOK
<1>11. ASSUME NEW o \in OrgSet, MGetFails(o)
       PROVE  TypeOK'
  BY SMTT(30), <1>0, <1>11, ReceiveStep DEF MGetFails, Fail, TypeOK
<1>12. ASSUME NEW o \in OrgSet, Finish(o)
       PROVE  /\ writer' \in [OrgSet -> {"none", "spawned", "create", "recv", "done"}]
              /\ wg' = Cardinality({q \in OrgSet : writer'[q] \in {"create", "recv"}})
              /\ buf' \in [OrgSet -> SUBSET Keys]
  <2>1. /\ writer' \in [OrgSet -> {"none", "spawned", "create", "recv", "done"}]
        /\ Registered(writer') = Registered(writer) \ {o} /\ o \in Registered(writer)
    BY <1>12, WriterStep DEF Finish, Registered
  <2>2. wg' = Cardinality(Registered(writer'))
    BY ZenonT(40), <1>12, <1>w, <2>1, FS_RemoveElement DEF Finish
  <2>3. QED
    BY <1>12, <1>c, <2>1, <2>2 DEF Finish, TypeOK
<1>13. ASSUME NEW o \in OrgSet, FlushAndClose(o)
       PROVE  TypeOK'
  <2>1. file' \in [OrgSet -> SUBSET Keys]
    BY <1>13 DEF FlushAndClose, TypeOK
  <2>2. QED
    BY <1>13, <1>12, <2>1 DEF FlushAndClose, TypeOK
<1>14. ASSUME NEW o \in OrgSet, FlushFails(o)
       PROVE  TypeOK'
  BY <1>0, <1>14, <1>12 DEF FlushFails, Fail, TypeOK
<1>15. ASSUME NEW k \in Keys, Expire(k) \/ Add(k)
       PROVE  TypeOK'
  <2>1. /\ db' \subseteq Keys /\ stable' \subseteq Keys /\ seen' \subseteq Keys
        /\ changes' \in 0 .. MaxChanges
    BY <1>0, <1>15 DEF Expire, Add, TypeOK
  <2>2. UNCHANGED <<main, cur, scan, channel, closed, writers, exit, budget>>
    BY <1>15 DEF Expire, Add
  <2>3. QED
    BY <2>1, <2>2 DEF TypeOK
<1>16. QED
  BY <1>1, <1>2, <1>3, <1>4, <1>5, <1>6, <1>7, <1>8, <1>9, <1>10, <1>11, <1>13, <1>14, <1>15
     DEF Next, Main, Writer, Trouble

-----------------------------------------------------------------------------
\* What a pattern selects matches.
LEMMA PatternsMatch == \A n \in 1 .. Len(Patterns) : Patterns[n] \subseteq Matching
BY DEF Matching

LEMMA InFlightStep == ASSUME TypeOK, InFlight, Next PROVE InFlight'
<1> USE DEF database, scan, writers, budget
<1>0. \A o \in OrgSet : channel[o] \in Seq(SUBSET Keys) /\ Len(channel[o]) \in Nat
  BY LenProperties DEF TypeOK
<1>1. CASE Start
  BY <1>1, EmptySeq DEF Start, InFlight
<1>2. CASE ScanBlock \/ ScanFails
  <2>1. block' \subseteq Matching
    BY <1>2, PatternsMatch DEF ScanBlock, ScanFails, TypeOK
  <2>2. UNCHANGED <<database, channel>>
    BY <1>2 DEF ScanBlock, ScanFails
  <2>3. QED
    BY <2>1, <2>2 DEF InFlight
<1>3. CASE SendBlock
  <2>1. /\ stable' \subseteq db' /\ db' \subseteq seen' /\ block' \subseteq Matching
    BY <1>3 DEF SendBlock, InFlight
  <2>2. ASSUME NEW o \in OrgSet, NEW j \in 1 .. Len(channel'[o])
        PROVE  channel'[o][j] \subseteq Matching
    <3>1. CASE o # Orgs[cur]
      BY <1>3, <3>1, <2>2, SendStep DEF InFlight
    <3>2. CASE o = Orgs[cur]
      BY SMTT(30), <1>3, <3>2, <2>2, SendStep DEF InFlight
    <3>3. QED
      BY <3>1, <3>2
  <2>3. QED
    BY <2>1, <2>2 DEF InFlight
<1>4. ASSUME NEW o \in OrgSet, Receive(o), UNCHANGED <<database, block>>
      PROVE  InFlight'
  <2>1. ASSUME NEW q \in OrgSet, NEW j \in 1 .. Len(channel'[q])
        PROVE  channel'[q][j] \subseteq Matching
    <3>1. CASE q # o
      BY <1>4, <3>1, <2>1, ReceiveStep DEF InFlight
    <3>2. CASE q = o
      <4>1. channel'[o][j] = channel[o][j + 1] /\ j + 1 \in 1 .. Len(channel[o])
        BY <1>0, <1>4, <3>2, <2>1, ReceiveStep
      <4>2. QED
        BY <4>1, <3>2 DEF InFlight
    <3>3. QED
      BY <3>1, <3>2
  <2>2. QED
    BY <1>4, <2>1 DEF InFlight
<1>5. ASSUME NEW k \in Keys, Expire(k) \/ Add(k)
      PROVE  InFlight'
  BY <1>5 DEF Expire, Add, InFlight
<1>6. ASSUME UNCHANGED <<database, block, channel>>
      PROVE  InFlight'
  BY <1>6 DEF InFlight
<1>7. CASE SpawnWriter \/ CloseChan \/ WaitReturns \/ Kill
  BY <1>6, <1>7 DEF SpawnWriter, CloseChan, WaitReturns, Kill
<1>8. ASSUME NEW o \in OrgSet,
             Register(o) \/ CreateFile(o) \/ CreateFails(o) \/ FlushAndClose(o) \/ FlushFails(o)
      PROVE  InFlight'
  BY <1>6, <1>8 DEF Register, CreateFile, CreateFails, FlushAndClose, FlushFails
<1>9. ASSUME NEW o \in OrgSet, FilterBlock(o) \/ MGetFails(o)
      PROVE  InFlight'
  BY <1>4, <1>9 DEF FilterBlock, MGetFails
<1>10. QED
  BY <1>1, <1>2, <1>3, <1>5, <1>7, <1>8, <1>9 DEF Next, Main, Writer, Trouble

-----------------------------------------------------------------------------
\* The order in which writers are spawned, channels closed and files created.
LEMMA OrderStep ==
    ASSUME TypeOK, SpawnedInTurn, BufferAfterFile, ClosedIsScanned, Next
    PROVE  SpawnedInTurn' /\ BufferAfterFile' /\ ClosedIsScanned'
<1> USE DEF database, scan, writers, budget
<1>0. cur \in 1 .. Len(Orgs) /\ Len(Orgs) \in Nat \ {0} /\ Orgs[cur] \in OrgSet
  BY CurrentOrg, DumpConstants DEF TypeOK, DumpConstants
<1>d. \A n \in 1 .. Len(Orgs) : Orgs[n] = Orgs[cur] => n = cur
  BY <1>0, OrgsDistinct DEF OrgsDistinct
<1>o. \A n \in 1 .. Len(Orgs) : Orgs[n] \in OrgSet
  BY DEF OrgSet
<1>1. CASE Start
  BY <1>1, <1>o DEF Start, SpawnedInTurn, BufferAfterFile, ClosedIsScanned
<1>2. CASE SpawnWriter
  <2>1. /\ writer'[Orgs[cur]] = "spawned"
        /\ \A q \in OrgSet : q # Orgs[cur] => writer'[q] = writer[q]
    BY <1>0, <1>2 DEF SpawnWriter, TypeOK
  <2>2. SpawnedInTurn'
    BY <1>0, <1>2, <1>d, <1>o, <2>1 DEF SpawnWriter, SpawnedInTurn
  <2>3. BufferAfterFile'
    BY <1>0, <1>2, <2>1 DEF SpawnWriter, SpawnedInTurn, BufferAfterFile
  <2>4. ClosedIsScanned'
    BY <1>0, <1>2 DEF SpawnWriter, ClosedIsScanned
  <2>5. QED
    BY <2>2, <2>3, <2>4
<1>3. CASE ScanBlock \/ ScanFails \/ SendBlock
  <2>1. /\ main \in {"scan", "send"} /\ main' \in {"scan", "send", "close"}
        /\ UNCHANGED <<cur, closed, writers>>
    BY <1>3 DEF ScanBlock, ScanFails, SendBlock
  <2>2. QED
    BY <2>1 DEF SpawnedInTurn, BufferAfterFile, ClosedIsScanned
<1>4. CASE CloseChan
  <2>1. SpawnedInTurn' /\ BufferAfterFile'
    BY <1>0, <1>4 DEF CloseChan, SpawnedInTurn, BufferAfterFile
  <2>2. ClosedIsScanned'
    BY <1>0, <1>4 DEF CloseChan, ClosedIsScanned
  <2>3. QED
    BY <2>1, <2>2
<1>5. CASE WaitReturns \/ Kill \/ \E o \in OrgSet : CreateFails(o)
  BY <1>5 DEF WaitReturns, Kill, CreateFails, End, SpawnedInTurn, BufferAfterFile, ClosedIsScanned
<1>6. ASSUME NEW o \in OrgSet, Register(o) \/ CreateFile(o) \/ FlushAndClose(o) \/ FlushFails(o)
      PROVE  SpawnedInTurn' /\ BufferAfterFile' /\ ClosedIsScanned'
  <2>1. /\ main # "idle" /\ UNCHANGED <<main, cur, closed>>
        /\ writer[o] # "none" /\ \A q \in OrgSet : q # o => writer'[q] = writer[q]
    BY <1>6 DEF Register, CreateFile, FlushAndClose, FlushFails, Finish, TypeOK
  <2>2. \A q \in OrgSet : writer'[q] \in {"none", "spawned", "create"} =>
            writer[q] \in {"none", "spawned", "create"} /\ buf'[q] = buf[q]
    BY <1>6 DEF Register, CreateFile, FlushAndClose, FlushFails, Finish, TypeOK
  <2>3. SpawnedInTurn'
    BY <2>1, <1>o DEF SpawnedInTurn
  <2>4. QED
    BY <2>1, <2>2, <2>3 DEF BufferAfterFile, ClosedIsScanned
<1>7. ASSUME NEW o \in OrgSet, FilterBlock(o) \/ MGetFails(o)
      PROVE  SpawnedInTurn' /\ BufferAfterFile' /\ ClosedIsScanned'
  <2>1. /\ writer[o] = "recv" /\ UNCHANGED <<main, cur, closed, writer>>
        /\ \A q \in OrgSet : q # o => buf'[q] = buf[q]
    BY <1>7 DEF FilterBlock, MGetFails, Receive, TypeOK
  <2>2. QED
    BY <2>1 DEF SpawnedInTurn, BufferAfterFile, ClosedIsScanned
<1>8. ASSUME NEW k \in Keys, Expire(k) \/ Add(k)
      PROVE  SpawnedInTurn' /\ BufferAfterFile' /\ ClosedIsScanned'
  BY <1>8 DEF Expire, Add, SpawnedInTurn, BufferAfterFile, ClosedIsScanned
<1>9. QED
  BY <1>1, <1>2, <1>3, <1>4, <1>5, <1>6, <1>7, <1>8 DEF Next, Main, Writer, Trouble

-----------------------------------------------------------------------------
\* No step puts anything into a file or a buffer that the dump is not about.
LEMMA StaleStep ==
    ASSUME TypeOK, InFlight, BufferAfterFile, NothingStale, Next
    PROVE  NothingStale'
<1> USE DEF database, scan, writers, budget
<1> DEFINE Clean(q) == writer'[q] \in {"recv", "done"} => file'[q] \union buf'[q] \subseteq Wanted(q, seen')
<1>0. ASSUME \A q \in OrgSet : Clean(q)
      PROVE  NothingStale'
  BY <1>0 DEF NothingStale, Wanted
<1>1. ASSUME NEW q \in OrgSet, seen \subseteq seen', UNCHANGED Value,
             writer'[q] \in {"recv", "done"} =>
                 /\ writer[q] \in {"recv", "done"}
                 /\ file'[q] \union buf'[q] \subseteq file[q] \union buf[q]
      PROVE  Clean(q)
  BY <1>1 DEF NothingStale, Wanted
<1>2. CASE Start
  BY <1>0, <1>2 DEF Start
<1>3. CASE SpawnWriter
  <2>1. ASSUME NEW q \in OrgSet PROVE Clean(q)
    BY <1>1, <1>3, <2>1, CurrentOrg DEF SpawnWriter, TypeOK
  <2>2. QED
    BY <1>0, <2>1
<1>4. CASE ScanBlock \/ ScanFails \/ SendBlock \/ CloseChan \/ WaitReturns \/ Kill
           \/ \E o \in OrgSet : CreateFails(o) \/ MGetFails(o)
  <2>1. UNCHANGED <<seen, writer, file, buf>>
    BY <1>4 DEF ScanBlock, ScanFails, SendBlock, CloseChan, WaitReturns, Kill, CreateFails, MGetFails
  <2>2. QED
    BY <2>1 DEF NothingStale, Wanted
<1>5. ASSUME NEW o \in OrgSet, Register(o)
      PROVE  NothingStale'
  <2>1. ASSUME NEW q \in OrgSet PROVE Clean(q)
    BY <1>1, <1>5, <2>1 DEF Register, TypeOK
  <2>2. QED
    BY <1>0, <2>1
<1>6. ASSUME NEW o \in OrgSet, CreateFile(o)
      PROVE  NothingStale'
  <2>1. ASSUME NEW q \in OrgSet, q # o PROVE Clean(q)
    BY <1>1, <1>6, <2>1 DEF CreateFile, TypeOK
  <2>2. file'[o] = {} /\ buf'[o] = {}
    BY <1>6 DEF CreateFile, BufferAfterFile, TypeOK
  <2>3. QED
    BY <1>0, <2>1, <2>2
<1>7. ASSUME NEW o \in OrgSet, FilterBlock(o)
      PROVE  NothingStale'
  <2> DEFINE found == {k \in Head(channel[o]) \intersect db : BelongsTo(k, o)}
  <2>1. ASSUME NEW q \in OrgSet, q # o PROVE Clean(q)
    BY <1>1, <1>7, <2>1 DEF FilterBlock, TypeOK
  <2>2. channel[o] # <<>> /\ channel[o] \in Seq(SUBSET Keys) /\ writer[o] = "recv"
    BY <1>7 DEF FilterBlock, Receive, TypeOK
  <2>3. Head(channel[o]) = channel[o][1] /\ 1 \in 1 .. Len(channel[o])
    BY <2>2, EmptySeq, HeadTailProperties
  <2>4. found \subseteq Wanted(o, seen)
    BY <2>3 DEF InFlight, Wanted
  <2>5. file'[o] \union buf'[o] \subseteq file[o] \union buf[o] \union found
    BY <1>7 DEF FilterBlock, TypeOK
  <2>6. file[o] \union buf[o] \subseteq Wanted(o, seen)
    BY <2>2 DEF NothingStale
  <2>7. UNCHANGED seen
    BY <1>7 DEF FilterBlock
  <2>8. Clean(o)
    BY <2>4, <2>5, <2>6, <2>7
  <2>9. QED
    BY <1>0, <2>1, <2>8
<1>8. ASSUME NEW o \in OrgSet, FlushAndClose(o) \/ FlushFails(o)
      PROVE  NothingStale'
  <2>1. ASSUME NEW q \in OrgSet PROVE Clean(q)
    <3>1. /\ seen' = seen
          /\ writer'[q] \in {"recv", "done"} => writer[q] \in {"recv", "done"}
          /\ file'[q] \union buf'[q] \subseteq file[q] \union buf[q]
      BY <1>8, <2>1 DEF FlushAndClose, FlushFails, Finish, TypeOK
    <3>2. QED
      BY <3>1, <1>1
  <2>2. QED
    BY <1>0, <2>1
<1>9. ASSUME NEW k \in Keys, Expire(k) \/ Add(k)
      PROVE  NothingStale'
  <2>1. seen \subseteq seen' /\ UNCHANGED <<writer, file, buf>>
    BY <1>9 DEF Expire, Add
  <2>2. ASSUME NEW q \in OrgSet PROVE Clean(q)
    BY <1>1, <2>1
  <2>3. QED
    BY <1>0, <2>2
<1>10. QED
  BY <1>2, <1>3, <1>4, <1>5, <1>6, <1>7, <1>8, <1>9 DEF Next, Main, Writer, Trouble

-----------------------------------------------------------------------------
\* A failure is counted.
LEMMA FailStep == ASSUME TypeOK, Fail PROVE failures' # 0
<1>1. failures \in Nat
  BY DumpConstants DEF TypeOK, DumpConstants
<1>2. QED
  BY <1>1 DEF Fail

\* The part of Accounted about organisation o and key k.
Owed(o, k) == Dumped(k, o) \/ InChannel(k, o) \/ (o = Orgs[cur] /\ Ahead(k))

\* Every step leaves a key that a dump owes somewhere on its way, unless it fails.
LEMMA AccountedStep ==
    ASSUME TypeOK, TypeOK', InFlight, SpawnedInTurn, ClosedIsScanned, Accounted, Next
    PROVE  Accounted'
<1> USE DEF database, scan, writers, budget
<1> SUFFICES ASSUME main' # "idle", failures' = 0,
                    NEW o \in OrgSet, writer'[o] # "none", NEW k \in Wanted(o, stable')
             PROVE  Owed(o, k)'
  BY DEF Accounted, Owed, Wanted
<1>k. k \in stable' /\ k \in Matching /\ BelongsTo(k, o)
  BY DEF Wanted
<1>c. channel[o] \in Seq(SUBSET Keys) /\ Len(channel[o]) \in Nat
  BY LenProperties DEF TypeOK
<1>f. ASSUME main # "idle", stable' \subseteq stable, failures = 0, writer[o] # "none"
      PROVE  Owed(o, k) /\ k \in db
  BY <1>k, <1>f DEF Accounted, Owed, Wanted, InFlight
<1>1. CASE Start
  BY <1>1 DEF Start
<1>2. CASE SpawnWriter
  <2>1. CASE o = Orgs[cur]
    <3>1. PICK p \in 1 .. Len(Patterns) : k \in Patterns[p]
      BY <1>k DEF Matching
    <3>2. k \in Keys /\ pat' = 1 /\ left' = Keys /\ main' = "scan" /\ cur' = cur
      BY <1>2, <3>1, DumpConstants DEF SpawnWriter, DumpConstants
    <3>3. p = 1 \/ 1 < p
      OBVIOUS
    <3>4. Ahead(k)'
      BY <3>1, <3>2, <3>3 DEF Ahead
    <3>5. QED
      BY <2>1, <3>2, <3>4 DEF Owed
  <2>2. CASE o # Orgs[cur]
    <3>1. /\ main = "spawn" /\ stable' = stable /\ failures = 0 /\ writer[o] = writer'[o]
          /\ UNCHANGED <<channel, file, buf>>
      BY <1>2, <2>2, CurrentOrg DEF SpawnWriter, TypeOK
    <3>2. Owed(o, k)
      BY <1>f, <3>1
    <3>3. QED
      BY <3>1, <3>2, <2>2 DEF Owed, Dumped, InChannel
  <2>3. QED
    BY <2>1, <2>2
<1>3. CASE ScanBlock
  <2>1. /\ main = "scan" /\ main' = "send" /\ failures = 0
        /\ UNCHANGED <<stable, cur, pat, channel, writer, file, buf>>
    BY <1>3 DEF ScanBlock
  <2>2. Owed(o, k) /\ k \in db
    BY <1>f, <2>1
  <2>3. Ahead(k) => Ahead(k)'
    BY <1>3, <2>1, <2>2 DEF ScanBlock, Ahead
  <2>4. QED
    BY <2>1, <2>2, <2>3 DEF Owed, Dumped, InChannel
<1>4. CASE SendBlock
  <2>1. /\ main = "send" /\ failures = 0
        /\ UNCHANGED <<stable, cur, writer, file, buf>>
    BY <1>4 DEF SendBlock
  <2>2. Owed(o, k) /\ k \in Keys
    BY <1>f, <1>k, <2>1 DEF TypeOK
  <2>3. CASE Dumped(k, o)
    BY <2>1, <2>3 DEF Owed, Dumped
  <2>4. CASE InChannel(k, o)
    BY SMTT(30), <1>4, <1>c, <2>4, SendStep DEF Owed, InChannel
  <2>5. CASE o = Orgs[cur] /\ Ahead(k)
    <3>1. CASE k \in block
      <4>1. Len(channel[o]) + 1 \in 1 .. Len(channel'[o]) /\ channel'[o][Len(channel[o]) + 1] = block
        BY <1>4, <1>c, <2>5, SendStep
      <4>2. QED
        BY <3>1, <4>1 DEF Owed, InChannel
    <3>2. CASE k \notin block
      <4>0. pat \in 1 .. Len(Patterns)
        BY DEF TypeOK
      <4>1. \/ k \in left /\ k \in Patterns[pat]
            \/ \E p \in 1 .. Len(Patterns) : pat < p /\ k \in Patterns[p]
        BY <2>5, <3>2 DEF Ahead
      <4>2. CASE left # {}
        BY <1>4, <2>1, <2>5, <4>1, <4>2 DEF SendBlock, Owed, Ahead
      <4>3. CASE left = {}
        <5>1. PICK p \in 1 .. Len(Patterns) : pat < p /\ k \in Patterns[p]
          BY <4>1, <4>3
        <5>2. pat' = pat + 1 /\ left' = Keys /\ main' = "scan"
          BY <1>4, <4>0, <4>3, <5>1 DEF SendBlock
        <5>3. p = pat' \/ pat' < p
          BY <4>0, <5>1, <5>2
        <5>4. QED
          BY <2>1, <2>2, <2>5, <5>1, <5>2, <5>3 DEF Owed, Ahead
      <4>4. QED
        BY <4>2, <4>3
    <3>3. QED
      BY <3>1, <3>2
  <2>6. QED
    BY <2>2, <2>3, <2>4, <2>5 DEF Owed
<1>5. CASE CloseChan
  <2>1. /\ main = "close" /\ failures = 0
        /\ UNCHANGED <<stable, channel, writer, file, buf>>
    BY <1>5 DEF CloseChan
  <2>2. Owed(o, k) /\ ~Ahead(k)
    BY <1>f, <2>1 DEF Ahead
  <2>3. QED
    BY <2>1, <2>2 DEF Owed, Dumped, InChannel
<1>6. CASE WaitReturns \/ Kill \/ Fail
  <2>1. CASE Fail
    BY <2>1, FailStep
  <2>2. CASE WaitReturns \/ Kill
    BY <2>2 DEF WaitReturns, Kill, End
  <2>3. QED
    BY <1>6, <2>1, <2>2
<1>7. ASSUME NEW q \in OrgSet, Register(q) \/ CreateFile(q)
      PROVE  Owed(o, k)'
  <2>1. /\ main # "idle" /\ failures = 0
        /\ UNCHANGED <<stable, main, cur, scan, channel, buf>>
        /\ writer[q] \in {"spawned", "create"}
    BY <1>7 DEF Register, CreateFile
  <2>2. writer[o] # "none" /\ (o # q => writer'[o] = writer[o] /\ file'[o] = file[o])
    BY <1>7, <2>1 DEF Register, CreateFile, TypeOK
  <2>3. Owed(o, k)
    BY <1>f, <2>1, <2>2
  <2>4. Dumped(k, o) => Dumped(k, o)'
    BY <2>1, <2>2 DEF Dumped
  <2>5. QED
    BY <2>1, <2>3, <2>4 DEF Owed, InChannel, Ahead
<1>8. ASSUME NEW q \in OrgSet, FilterBlock(q)
      PROVE  Owed(o, k)'
  <2>1. /\ main # "idle" /\ failures = 0 /\ writer[q] = "recv"
        /\ UNCHANGED <<stable, db, main, cur, scan, writer>>
        /\ Receive(q)
    BY <1>8 DEF FilterBlock, Receive
  <2>2. Owed(o, k) /\ k \in db
    BY <1>f, <2>1
  <2>3. CASE o = Orgs[cur] /\ Ahead(k)
    BY <2>1, <2>3 DEF Owed, Ahead
  <2>4. CASE q # o
    <3>1. file'[o] = file[o] /\ buf'[o] = buf[o] /\ channel'[o] = channel[o]
      BY <1>8, <2>1, <2>4, ReceiveStep DEF FilterBlock, TypeOK
    <3>2. QED
      BY <2>1, <2>2, <2>3, <3>1 DEF Owed, Dumped, InChannel
  <2>5. CASE q = o
    <3> DEFINE found == {x \in Head(channel[o]) \intersect db : BelongsTo(x, o)}
    <3>1. file'[o] \union buf'[o] = file[o] \union buf[o] \union found
      BY <1>8, <2>5 DEF FilterBlock, TypeOK
    <3>2. CASE Dumped(k, o)
      BY <2>1, <3>1, <3>2 DEF Owed, Dumped
    <3>3. CASE InChannel(k, o)
      <4>1. PICK j \in 1 .. Len(channel[o]) : k \in channel[o][j]
        BY <3>3 DEF InChannel
      <4>2. CASE j = 1
        <5>1. k \in found
          BY <1>k, <2>1, <2>2, <2>5, <4>1, <4>2, ReceiveStep
        <5>2. QED
          BY <2>1, <2>5, <3>1, <5>1 DEF Owed, Dumped
      <4>3. CASE j # 1
        <5>1. j - 1 \in 1 .. Len(channel'[o]) /\ channel'[o][j - 1] = channel[o][j]
          BY <1>c, <2>1, <2>5, <4>3, ReceiveStep
        <5>2. QED
          BY <4>1, <5>1 DEF Owed, InChannel
      <4>4. QED
        BY <4>2, <4>3
    <3>4. QED
      BY <2>2, <2>3, <3>2, <3>3 DEF Owed
  <2>6. QED
    BY <2>4, <2>5
<1>9. ASSUME NEW q \in OrgSet, FlushAndClose(q)
      PROVE  Owed(o, k)'
  <2>1. /\ main # "idle" /\ failures = 0 /\ writer[o] # "none"
        /\ UNCHANGED <<stable, main, cur, scan, channel>>
        /\ writer[o] \in {"recv", "done"} => writer'[o] \in {"recv", "done"}
        /\ file'[o] \union buf'[o] = file[o] \union buf[o]
    BY <1>9 DEF FlushAndClose, Finish, TypeOK
  <2>2. Owed(o, k)
    BY <1>f, <2>1
  <2>3. QED
    BY <2>1, <2>2 DEF Owed, Dumped, InChannel, Ahead
<1>10. ASSUME NEW x \in Keys, Expire(x) \/ Add(x)
       PROVE  Owed(o, k)'
  <2>1. /\ main # "idle" /\ failures = 0 /\ writer[o] # "none" /\ stable' \subseteq stable
        /\ UNCHANGED <<main, cur, scan, channel, writer, file, buf>>
    BY <1>10 DEF Expire, Add
  <2>2. Owed(o, k)
    BY <1>f, <2>1
  <2>3. QED
    BY <2>1, <2>2 DEF Owed, Dumped, InChannel, Ahead
<1>11. QED
  BY <1>1, <1>2, <1>3, <1>4, <1>5, <1>6, <1>7, <1>8, <1>9, <1>10
     DEF Next, Main, Writer, Trouble, ScanFails, CreateFails, MGetFails, FlushFails

-----------------------------------------------------------------------------
\* A writer that is done has everything: its channel was closed, so that nothing was
\* ahead of the scan any more, and empty.
LEMMA FlushedStep ==
    ASSUME TypeOK, TypeOK', ClosedIsScanned, Accounted, FlushedIsComplete, Next
    PROVE  FlushedIsComplete'
<1> USE DEF database, scan, writers, budget
<1> SUFFICES ASSUME NEW o \in OrgSet, failures' = 0, writer'[o] = "done",
                    NEW k \in Wanted(o, stable')
             PROVE  k \in file'[o]
  BY DEF FlushedIsComplete, Wanted
<1>k. k \in stable' /\ k \in Matching /\ BelongsTo(k, o)
  BY DEF Wanted
<1>1. CASE \E q \in OrgSet : FlushAndClose(q) /\ q = o
  <2>1. /\ main # "idle" /\ failures = 0 /\ writer[o] = "recv" /\ stable' = stable
        /\ channel[o] = <<>> /\ o \in closed
        /\ file'[o] = file[o] \union buf[o]
    BY <1>1 DEF FlushAndClose, Finish, TypeOK
  <2>2. Owed(o, k)
    BY <1>k, <2>1 DEF Accounted, Owed, Wanted
  <2>3. ~InChannel(k, o)
    BY <2>1, EmptySeq DEF InChannel
  <2>4. ~(o = Orgs[cur] /\ Ahead(k))
    <3>1. PICK n \in 1 .. cur : o = Orgs[n] /\ (n = cur => main = "wait")
      BY <2>1 DEF ClosedIsScanned
    <3>2. n \in 1 .. Len(Orgs) /\ cur \in 1 .. Len(Orgs)
      BY <3>1, DumpConstants DEF TypeOK, DumpConstants
    <3>3. o = Orgs[cur] => n = cur
      BY <3>1, <3>2, OrgsDistinct DEF OrgsDistinct
    <3>4. QED
      BY <3>1, <3>3 DEF Ahead
  <2>5. QED
    BY <2>1, <2>2, <2>3, <2>4 DEF Owed, Dumped
<1>2. CASE Start
  BY <1>2 DEF Start
<1>3. CASE Fail
  BY <1>3, FailStep
<1>4. ASSUME failures = 0, writer[o] = "done", stable' \subseteq stable, file[o] \subseteq file'[o]
      PROVE  k \in file'[o]
  BY <1>k, <1>4 DEF FlushedIsComplete, Wanted
<1>5. CASE SpawnWriter \/ ScanBlock \/ SendBlock \/ CloseChan \/ WaitReturns \/ Kill
  BY <1>4, <1>5, CurrentOrg DEF SpawnWriter, ScanBlock, SendBlock, CloseChan, WaitReturns, Kill, TypeOK
<1>6. ASSUME NEW q \in OrgSet,
             Register(q) \/ CreateFile(q) \/ FilterBlock(q) \/ (FlushAndClose(q) /\ q # o)
      PROVE  k \in file'[o]
  <2>1. failures = 0 /\ stable' = stable
    BY <1>6 DEF Register, CreateFile, FilterBlock, FlushAndClose
  <2>2. writer[o] = "done" /\ file[o] \subseteq file'[o]
    BY <1>6 DEF Register, CreateFile, FilterBlock, Receive, FlushAndClose, Finish, TypeOK
  <2>3. QED
    BY <1>4, <2>1, <2>2
<1>7. ASSUME NEW x \in Keys, Expire(x) \/ Add(x)
      PROVE  k \in file'[o]
  BY <1>4, <1>7 DEF Expire, Add
<1>8. QED
  BY <1>1, <1>2, <1>3, <1>5, <1>6, <1>7
     DEF Next, Main, Writer, Trouble, ScanFails, CreateFails, MGetFails, FlushFails

-----------------------------------------------------------------------------
LEMMA IndInvInit == ASSUME Init PROVE IndInv
<1>0. <<>> \in Seq(SUBSET Keys) /\ Len(<<>>) = 0
  BY EmptySeq
<1>1. {o \in OrgSet : writer[o] \in {"create", "recv"}} = {}
  BY DEF Init
<1>2. wg = Cardinality({o \in OrgSet : writer[o] \in {"create", "recv"}})
  BY <1>1, FS_EmptySet DEF Init
<1>3. TypeOK
  BY <1>0, <1>2, DumpConstants DEF Init, TypeOK, DumpConstants
<1>4. InFlight /\ SpawnedInTurn /\ BufferAfterFile /\ ClosedIsScanned /\ Accounted
  BY <1>0 DEF Init, InFlight, SpawnedInTurn, BufferAfterFile, ClosedIsScanned, Accounted
<1>5. FlushedIsComplete /\ NothingStale
  BY DEF Init, FlushedIsComplete, NothingStale
<1>6. QED
  BY <1>3, <1>4, <1>5 DEF IndInv

\* The inductive invariant holds in every reachable state of any number of runs of
\* `orgs dump`, killed or not, on a database that others change (keys.go:62, 137, 205).
THEOREM Invariance == Spec => []IndInv
<1>1. Init => IndInv
  BY IndInvInit
<1>2. IndInv /\ [Next]_vars => IndInv'
  <2> SUFFICES ASSUME IndInv, [Next]_vars PROVE IndInv'
    OBVIOUS
  <2> USE DEF IndInv
  <2>1. CASE Next
    <3>1. TypeOK'
      BY <2>1, TypeStep
    <3>2. InFlight' /\ SpawnedInTurn' /\ BufferAfterFile' /\ ClosedIsScanned'
      BY <2>1, InFlightStep, OrderStep
    <3>3. Accounted' /\ FlushedIsComplete' /\ NothingStale'
      BY <2>1, <3>1, AccountedStep, FlushedStep, StaleStep
    <3>4. QED
      BY <3>1, <3>2, <3>3
  <2>2. CASE UNCHANGED vars
    BY <2>2 DEF vars, database, scan, writers, budget, TypeOK, InFlight, SpawnedInTurn,
                BufferAfterFile, ClosedIsScanned, Accounted, Dumped, InChannel, Ahead,
                FlushedIsComplete, NothingStale, Wanted
  <2>3. QED
    BY <2>1, <2>2
<1>3. QED
  BY <1>1, <1>2, PTL DEF Spec

\* The counter of the WaitGroup is at any moment the number of writers that have
\* registered and are not done, and no channel holds more than its capacity
\* (keys.go:89, 217).
THEOREM TypeCorrect == Spec => []TypeOK
<1>1. IndInv => TypeOK
  BY DEF IndInv
<1>2. QED
  BY <1>1, Invariance, PTL

\* A writer that is done has dumped every key of its organisation that was there all
\* the time, when nothing has failed (keys.go:78, 137).
THEOREM FlushedIsCompleteAlways == Spec => []FlushedIsComplete
<1>1. IndInv => FlushedIsComplete
  BY DEF IndInv
<1>2. QED
  BY <1>1, Invariance, PTL

\* No dump holds keys of another organisation or of an earlier run, whatever fails
\* and whoever is killed (cmd/orgs.go:57).
THEOREM NothingStaleAlways == Spec => []NothingStale
<1>1. IndInv => NothingStale
  BY DEF IndInv
<1>2. QED
  BY <1>1, Invariance, PTL
=============================================================================
