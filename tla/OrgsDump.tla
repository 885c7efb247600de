------------------------------ MODULE OrgsDump ------------------------------
(***************************************************************************)
(* `gromit orgs dump <org>...` (src/cmd/orgs.go, src/orgs/keys.go).        *)
(*                                                                         *)
(* For each organisation in turn the main goroutine spawns a writer, scans *)
(* the key space once per pattern and sends every block of keys over the   *)
(* organisation's buffered channel.  The writer truncates the              *)
(* organisation's file, reads the values of each block, and writes the     *)
(* keys that belong to its organisation through a buffer.  At the end the  *)
(* main goroutine waits for a WaitGroup that the writers themselves        *)
(* increment.  The database is in production: keys come and go meanwhile.  *)
(***************************************************************************)
EXTENDS Naturals, Sequences, FiniteSets

CONSTANTS
    Keys,        \* every key that is ever in the database
    Value,       \* what MGET yields for a key that is there
    Orgs,        \* the organisations on the command line
    Patterns,    \* --patterns, each the set of the keys it matches
    Count,       \* --count: capacity of a channel
    NoOrg,       \* org_id is not there
    NotString,   \* org_id is not a string
    Initial,     \* the keys in the database at first
    MaxChanges,  \* bound on the keys that come and go
    MaxFailures, \* bound on failing requests and writes
    MaxKills     \* bound on killed processes

OrgSet == {Orgs[i] : i \in 1 .. Len(Orgs)}

\* The channels and files are kept per organisation, so each is given once.
ASSUME OrgsDistinct ==
    \A i, j \in 1 .. Len(Orgs) : i # j => Orgs[i] # Orgs[j]

ASSUME DumpConstants ==
    /\ Len(Orgs) \in Nat \ {0} /\ Len(Patterns) \in Nat \ {0}
    /\ \A i \in 1 .. Len(Patterns) : Patterns[i] \subseteq Keys
    /\ Initial \subseteq Keys
    /\ Count \in Nat \ {0}
    /\ MaxChanges \in Nat /\ MaxFailures \in Nat /\ MaxKills \in Nat
    /\ NoOrg \notin OrgSet /\ NotString \notin OrgSet

VARIABLES
    db,       \* the keys in the database
    stable,   \* history: the keys that were there since the command began
    seen,     \* history: the keys that were there at some time since then
    file,     \* the keys in {org}.keys.jl
    main,     \* "idle", "spawn", "scan", "send", "close" or "wait"
    cur,      \* index into Orgs
    pat,      \* index into Patterns
    left,     \* the part of the key space this scan has not visited
    block,    \* what the last SCAN returned
    channel,  \* keysChans: the blocks not yet received
    closed,   \* the channels that are closed
    writer,   \* "none", "spawned", "create", "recv" or "done"
    buf,      \* the writer's bufio.Writer
    wg,       \* the counter of the WaitGroup
    exit,     \* how the last process ended: "none", "ok", "fatal" or "killed"
    changes, failures, kills \* what was used of the bounds

database == <<db, stable, seen, changes>>
scan == <<pat, left, block>>
writers == <<writer, buf, wg, file>>
budget == <<failures, kills>>
vars == <<database, main, cur, scan, channel, closed, writers, exit, budget>>

-----------------------------------------------------------------------------
\* The org_id of a JSON object, of its UserData when that is an object; NoOrg
\* stands for either of the errors.
getOrgId(v) ==
    LET orgId == IF v.userData = "object" THEN v.inner ELSE v.root
    IN  IF orgId \in {NoOrg, NotString} THEN NoOrg ELSE orgId

\* Does filterOrg write the key?  A value that is "0" or not a JSON object is
\* skipped.
BelongsTo(k, o) == Value[k].form = "object" /\ getOrgId(Value[k]) = o

Matching == UNION {Patterns[i] : i \in 1 .. Len(Patterns)}

Fail == failures < MaxFailures /\ failures' = failures + 1 /\ UNCHANGED kills

Init ==
    /\ db = Initial /\ stable = Initial /\ seen = Initial
    /\ file = [o \in OrgSet |-> {}]
    /\ main = "idle" /\ cur = 1 /\ pat = 1 /\ left = {} /\ block = {}
    /\ channel = [o \in OrgSet |-> <<>>] /\ closed = {}
    /\ writer = [o \in OrgSet |-> "none"]
    /\ buf = [o \in OrgSet |-> {}] /\ wg = 0
    /\ exit = "none"
    /\ changes = 0 /\ failures = 0 /\ kills = 0

\* The command starts, for the first time or again: NewRedisClient makes the
\* channels.
Start ==
    /\ main = "idle"
    /\ main' = "spawn" /\ cur' = 1 /\ pat' = 1 /\ left' = {} /\ block' = {}
    /\ channel' = [o \in OrgSet |-> <<>>] /\ closed' = {}
    /\ writer' = [o \in OrgSet |-> "none"]
    /\ buf' = [o \in OrgSet |-> {}] /\ wg' = 0
    /\ stable' = db /\ seen' = db
    /\ exit' = "none"
    /\ UNCHANGED <<db, file, changes, budget>>

\* The process ends, and with it every goroutine and what they have buffered.
End(how) == main' = "idle" /\ exit' = how

-----------------------------------------------------------------------------
(* DumpOrgKeys and scanKeys: the main goroutine *)

SpawnWriter ==
    /\ main = "spawn"
    /\ writer' = [writer EXCEPT ![Orgs[cur]] = "spawned"]
    /\ main' = "scan" /\ pat' = 1 /\ left' = Keys
    /\ UNCHANGED <<database, cur, block, channel, closed, buf, wg, file, exit, budget>>

\* Mutant: a block without keys is taken to be the last.
ScanBlock_EmptyIsLast ==
    /\ main = "scan"
    /\ \E visited \in SUBSET left \ {{}} :
          /\ block' = visited \intersect db \intersect Patterns[pat]
          /\ left' = IF block' = {} THEN {} ELSE left \ visited
    /\ main' = "send"
    /\ UNCHANGED <<database, cur, pat, channel, closed, writers, exit, budget>>

\* Mutant: every SCAN begins with cursor 0.
ScanBlock_CursorLost ==
    /\ main = "scan"
    /\ \E visited \in SUBSET left \ {{}} :
          /\ block' = visited \intersect db \intersect Patterns[pat]
          /\ left' = IF visited = Keys THEN {} ELSE Keys
    /\ main' = "send"
    /\ UNCHANGED <<database, cur, pat, channel, closed, writers, exit, budget>>

\* SCAN visits some more of the key space, COUNT being a hint, and returns the
\* keys it finds there that match, none perhaps.  The cursor it returns is 0 when
\* nothing is left.
ScanBlock ==
    /\ main = "scan"
    /\ \E visited \in SUBSET left \ {{}} :
          /\ block' = visited \intersect db \intersect Patterns[pat]
          /\ left' = left \ visited
    /\ main' = "send"
    /\ UNCHANGED <<database, cur, pat, channel, closed, writers, exit, budget>>

\* The error is logged; no keys and cursor 0 come with it.
ScanFails ==
    /\ main = "scan"
    /\ Fail
    /\ block' = {} /\ left' = {}
    /\ main' = "send"
    /\ UNCHANGED <<database, cur, pat, channel, closed, writers, exit>>

\* The block is sent as soon as the channel has room; after the last block of a
\* pattern comes the next pattern.
SendBlock ==
    LET o == Orgs[cur] IN
    /\ main = "send" /\ Len(channel[o]) < Count
    /\ channel' = [channel EXCEPT ![o] = Append(@, block)]
    /\ block' = {}
    /\ \/ left # {} /\ main' = "scan" /\ UNCHANGED <<pat, left>>
       \/ left = {} /\ pat < Len(Patterns) /\ main' = "scan" /\ pat' = pat + 1 /\ left' = Keys
       \/ left = {} /\ pat = Len(Patterns) /\ main' = "close" /\ UNCHANGED <<pat, left>>
    /\ UNCHANGED <<database, cur, closed, writers, exit, budget>>

CloseChan ==
    /\ main = "close"
    /\ closed' = closed \union {Orgs[cur]}
    /\ \/ cur < Len(Orgs) /\ cur' = cur + 1 /\ main' = "spawn"
       \/ cur = Len(Orgs) /\ cur' = cur /\ main' = "wait"
    /\ UNCHANGED <<database, scan, channel, writers, exit, budget>>

\* wg.Wait returns when the counter is 0, whoever has not registered yet.
WaitReturns ==
    /\ main = "wait" /\ wg = 0
    /\ End("ok")
    /\ UNCHANGED <<database, cur, scan, channel, closed, writers, budget>>

-----------------------------------------------------------------------------
(* filterOrg: the writer of organisation o *)

\* wg.Add(1), once the goroutine is scheduled.
Register(o) ==
    /\ main # "idle" /\ writer[o] = "spawned"
    /\ wg' = wg + 1
    /\ writer' = [writer EXCEPT ![o] = "create"]
    /\ UNCHANGED <<database, main, cur, scan, channel, closed, buf, file, exit, budget>>

\* Mutant: the file of an earlier dump is appended to.
CreateFile_Append(o) ==
    /\ main # "idle" /\ writer[o] = "create"
    /\ writer' = [writer EXCEPT ![o] = "recv"]
    /\ UNCHANGED <<database, main, cur, scan, channel, closed, buf, wg, file, exit, budget>>

\* os.Create truncates.
CreateFile(o) ==
    /\ main # "idle" /\ writer[o] = "create"
    /\ file' = [file EXCEPT ![o] = {}]
    /\ writer' = [writer EXCEPT ![o] = "recv"]
    /\ UNCHANGED <<database, main, cur, scan, channel, closed, buf, wg, exit, budget>>

\* log.Fatal.
CreateFails(o) ==
    /\ main # "idle" /\ writer[o] = "create"
    /\ Fail
    /\ End("fatal")
    /\ UNCHANGED <<database, cur, scan, channel, closed, writers>>

Receive(o) ==
    /\ main # "idle" /\ writer[o] = "recv" /\ channel[o] # <<>>
    /\ channel' = [channel EXCEPT ![o] = Tail(@)]

\* A block is received and its values read; keys that are gone by now have none.
\* What is written goes to the buffer, and from it to the file when it is full.
FilterBlock(o) ==
    /\ Receive(o)
    /\ LET found == {k \in Head(channel[o]) \intersect db : BelongsTo(k, o)}
       IN  \E spilled \in {{}, buf[o] \union found} :
              /\ buf' = [buf EXCEPT ![o] = (@ \union found) \ spilled]
              /\ file' = [file EXCEPT ![o] = @ \union spilled]
    /\ UNCHANGED <<database, main, cur, scan, closed, writer, wg, exit, budget>>

\* The error is logged and the block is lost.
MGetFails(o) ==
    /\ Receive(o)
    /\ Fail
    /\ UNCHANGED <<database, main, cur, scan, closed, writers, exit>>

\* Mutant: wg.Done is forgotten.
Finish_NoDone(o) ==
    /\ main # "idle" /\ writer[o] = "recv" /\ channel[o] = <<>> /\ o \in closed
    /\ writer' = [writer EXCEPT ![o] = "done"]
    /\ wg' = wg
    /\ buf' = [buf EXCEPT ![o] = {}]

\* The channel is closed and empty: Flush, Close, wg.Done.
Finish(o) ==
    /\ main # "idle" /\ writer[o] = "recv" /\ channel[o] = <<>> /\ o \in closed
    /\ writer' = [writer EXCEPT ![o] = "done"]
    /\ wg' = wg - 1
    /\ buf' = [buf EXCEPT ![o] = {}]

FlushAndClose(o) ==
    /\ Finish(o)
    /\ file' = [file EXCEPT ![o] = @ \union buf[o]]
    /\ UNCHANGED <<database, main, cur, scan, channel, closed, exit, budget>>

\* The error of a write or of the flush is not looked at.
FlushFails(o) ==
    /\ Finish(o)
    /\ Fail
    /\ UNCHANGED <<database, main, cur, scan, channel, closed, file, exit>>

-----------------------------------------------------------------------------
\* External: a key expires or is removed, a key is added.
Expire(k) ==
    /\ k \in db /\ changes < MaxChanges
    /\ db' = db \ {k}
    /\ stable' = stable \ {k}
    /\ changes' = changes + 1
    /\ UNCHANGED <<seen, main, cur, scan, channel, closed, writers, exit, budget>>

Add(k) ==
    /\ k \notin db /\ changes < MaxChanges
    /\ db' = db \union {k}
    /\ seen' = seen \union {k}
    /\ changes' = changes + 1
    /\ UNCHANGED <<stable, main, cur, scan, channel, closed, writers, exit, budget>>

\* The process is killed.
Kill ==
    /\ main # "idle" /\ kills < MaxKills
    /\ kills' = kills + 1
    /\ End("killed")
    /\ UNCHANGED <<database, cur, scan, channel, closed, writers, failures>>

Main == SpawnWriter \/ ScanBlock \/ SendBlock \/ CloseChan \/ WaitReturns
Writer(o) == Register(o) \/ CreateFile(o) \/ FilterBlock(o) \/ FlushAndClose(o)
Trouble == Kill \/ ScanFails \/ \E o \in OrgSet : CreateFails(o) \/ MGetFails(o) \/ FlushFails(o)

Next ==
    \/ Start \/ Main \/ Trouble
    \/ \E o \in OrgSet : Writer(o)
    \/ \E k \in Keys : Expire(k) \/ Add(k)

Spec == Init /\ [][Next]_vars

\* Goroutines that can proceed do; requests return, if only with an error.
FairSpec == Spec /\ WF_vars(Main) /\ \A o \in OrgSet : WF_vars(Writer(o))

-----------------------------------------------------------------------------
(* Properties *)

TypeOK ==
    /\ db \subseteq Keys /\ stable \subseteq Keys /\ seen \subseteq Keys
    /\ file \in [OrgSet -> SUBSET Keys] /\ buf \in [OrgSet -> SUBSET Keys]
    /\ main \in {"idle", "spawn", "scan", "send", "close", "wait"}
    /\ cur \in 1 .. Len(Orgs) /\ pat \in 1 .. Len(Patterns)
    /\ left \subseteq Keys /\ block \subseteq Keys
    /\ channel \in [OrgSet -> Seq(SUBSET Keys)]
    /\ \A o \in OrgSet : Len(channel[o]) <= Count
    /\ closed \subseteq OrgSet
    /\ writer \in [OrgSet -> {"none", "spawned", "create", "recv", "done"}]
    /\ wg = Cardinality({o \in OrgSet : writer[o] \in {"create", "recv"}})
    /\ exit \in {"none", "ok", "fatal", "killed"}
    /\ changes \in 0 .. MaxChanges /\ failures \in 0 .. MaxFailures /\ kills \in 0 .. MaxKills

\* Of keys S those that the dump of o is about: they match a pattern and belong
\* to o.
Wanted(o, S) == {k \in S \intersect Matching : BelongsTo(k, o)}

\* What the dump of an organisation holds when its writer is done and nothing has
\* failed: every key of the organisation that matched and was there all the time,
\* whatever the other keys and the other goroutines did meanwhile (keys.go:78, 137).
FlushedIsComplete ==
    \A o \in OrgSet : failures = 0 /\ writer[o] = "done" => Wanted(o, stable) \subseteq file[o]

\* "Existing files are clobbered" (cmd/orgs.go:57): once its writer has begun, a
\* file holds no key but of its organisation, and none that was there for an
\* earlier run only, whether or not this run is killed.
NothingStale ==
    \A o \in OrgSet :
        writer[o] \in {"recv", "done"} => file[o] \union buf[o] \subseteq Wanted(o, seen)

\* "Dumps keys from redis that match patterns in -p" (cmd/orgs.go:55): when the
\* command has ended by itself, the dump of every organisation is complete.
DumpIsComplete ==
    exit = "ok" => \A o \in OrgSet : Wanted(o, stable) \subseteq file[o]

\* The command ends: nobody is left waiting on a channel that is full, or that
\* nobody closes, whatever request fails (keys.go:89, 152, 228).
DumpEnds == (main # "idle") ~> (main = "idle")
=============================================================================
