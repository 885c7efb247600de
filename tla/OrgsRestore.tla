----------------------------- MODULE OrgsRestore -----------------------------
(***************************************************************************)
(* Restoring the keys of an organisation from a dump: a goroutine reads    *)
(* the lines and sends batches of keys over a channel, the caller writes   *)
(* them (src/orgs/restore.go).  A line is "good", "bad" (it does not       *)
(* parse) or "long" (longer than a bufio.Scanner takes, which then stops). *)
(***************************************************************************)
EXTENDS Naturals, Sequences

CONSTANTS
    MaxLines,  \* bound on the lines of a dump
    BatchSize, \* batchSize, 100 in the code
    ChanCap    \* capacity of the channel, 2 in the code

VARIABLES
    lines,  \* the dump
    next,   \* number of the line to be read
    batch,  \* the keys read and not yet sent; a key is the number of its line
    chan,   \* the batches in the channel
    spc,    \* streamKeys: "open", "scan", "send", "rest", "closed" or "panic"
    wrote,  \* the keys written, in order; nWrote is its length
    rpc     \* RestoreKeys: "range" or "done"

vars == <<lines, next, batch, chan, spc, wrote, rpc>>

-----------------------------------------------------------------------------
Dumps == UNION {[1 .. n -> {"good", "bad", "long"}] : n \in 0 .. MaxLines}

Init ==
    /\ lines \in Dumps
    /\ next = 1 /\ batch = <<>> /\ chan = <<>> /\ wrote = <<>>
    /\ spc = "open" /\ rpc = "range"

Open ==
    /\ spc = "open" /\ spc' = "scan"
    /\ UNCHANGED <<lines, next, batch, chan, wrote, rpc>>

\* The file is not there: the panic of a goroutine ends the program.
OpenFails ==
    /\ spc = "open" /\ spc' = "panic" /\ rpc' = "done"
    /\ UNCHANGED <<lines, next, batch, chan, wrote>>

\* A line is read; what does not parse is skipped.
ScanLine ==
    /\ spc = "scan" /\ next <= Len(lines) /\ lines[next] # "long"
    /\ next' = next + 1
    /\ batch' = IF lines[next] = "good" THEN Append(batch, next) ELSE batch
    /\ spc' = IF Len(batch') = BatchSize THEN "send" ELSE "scan"
    /\ UNCHANGED <<lines, chan, wrote, rpc>>

\* Mutant: the batch that was sent is filled up again.
SendBatch_Reused ==
    /\ spc = "send" /\ Len(chan) < ChanCap
    /\ chan' = Append(chan, batch) /\ spc' = "scan"
    /\ UNCHANGED <<lines, next, batch, wrote, rpc>>

\* A full batch is sent when there is room for it.
SendBatch ==
    /\ spc = "send" /\ Len(chan) < ChanCap
    /\ chan' = Append(chan, batch) /\ batch' = <<>> /\ spc' = "scan"
    /\ UNCHANGED <<lines, next, wrote, rpc>>

\* The end of the file, or a line that is too long.
EndScan ==
    /\ spc = "scan" /\ (next <= Len(lines) => lines[next] = "long")
    /\ spc' = "rest"
    /\ UNCHANGED <<lines, next, batch, chan, wrote, rpc>>

\* Mutant: only full batches are sent.
SendRest_Dropped ==
    /\ spc = "rest" /\ spc' = "closed"
    /\ UNCHANGED <<lines, next, batch, chan, wrote, rpc>>

\* Mutant: the channel is not closed.
SendRest_NotClosed ==
    /\ spc = "rest" /\ (batch = <<>> \/ Len(chan) < ChanCap)
    /\ chan' = (IF batch = <<>> THEN chan ELSE Append(chan, batch))
    /\ batch' = <<>> /\ spc' = "open for ever"
    /\ UNCHANGED <<lines, next, wrote, rpc>>

\* What is left over is sent, then the channel is closed.
SendRest ==
    /\ spc = "rest" /\ (batch = <<>> \/ Len(chan) < ChanCap)
    /\ chan' = (IF batch = <<>> THEN chan ELSE Append(chan, batch))
    /\ batch' = <<>> /\ spc' = "closed"
    /\ UNCHANGED <<lines, next, wrote, rpc>>

\* The caller takes a batch and counts its keys; writeKeys itself does nothing and
\* never fails.
Receive ==
    /\ rpc = "range" /\ chan # <<>>
    /\ wrote' = wrote \o Head(chan) /\ chan' = Tail(chan)
    /\ UNCHANGED <<lines, next, batch, spc, rpc>>

\* The channel is empty and closed.
RangeEnds ==
    /\ rpc = "range" /\ chan = <<>> /\ spc = "closed"
    /\ rpc' = "done"
    /\ UNCHANGED <<lines, next, batch, chan, spc, wrote>>

Stream == Open \/ OpenFails \/ ScanLine \/ SendBatch \/ EndScan \/ SendRest

Restore == Receive \/ RangeEnds

Next == Stream \/ Restore

Spec == Init /\ [][Next]_vars

-----------------------------------------------------------------------------
(* Properties *)

\* The lines up to the first that is too long.
Readable == {i \in 1 .. Len(lines) : \A j \in 1 .. i : lines[j] # "long"}

Has(s, x) == \E k \in 1 .. Len(s) : s[k] = x

\* The key of a line before the n-th that parsed.
Good(x, n) == x \in 1 .. Len(lines) /\ x < n /\ lines[x] = "good"

\* Every key read is on its way, and nothing else is.
OnItsWay ==
    \A i \in 1 .. Len(lines) : i < next /\ lines[i] = "good" =>
        Has(wrote, i) \/ (\E j \in 1 .. Len(chan) : Has(chan[j], i)) \/ Has(batch, i)
OnlyGood ==
    /\ \A k \in 1 .. Len(wrote) : Good(wrote[k], next)
    /\ \A j \in 1 .. Len(chan) : \A k \in 1 .. Len(chan[j]) : Good(chan[j][k], next)
    /\ \A k \in 1 .. Len(batch) : Good(batch[k], next)

Increasing(s) == \A i, j \in 1 .. Len(s) : i < j => s[i] < s[j]

\* Everything in s comes before everything in t.
Before(s, t) == \A k \in 1 .. Len(s), m \in 1 .. Len(t) : s[k] < t[m]

\* What is written, in the channel and in the batch follow each other as in the file.
InOrder ==
    /\ Increasing(wrote) /\ Increasing(batch) /\ Before(wrote, batch)
    /\ \A j \in 1 .. Len(chan) :
          /\ Increasing(chan[j]) /\ Before(wrote, chan[j]) /\ Before(chan[j], batch)
          /\ \A l \in 1 .. Len(chan) : j < l => Before(chan[j], chan[l])

\* Nothing is lost, repeated or reordered between the file and the caller: what was
\* written, is in the channel and waits in the batch are the keys read so far.
KeysInFlight == OnItsWay /\ OnlyGood /\ InOrder

\* When RestoreKeys returns, every key up to a line that is too long was written,
\* those of the last, partial batch included.
AllRestored ==
    rpc = "done" /\ spc # "panic" =>
        /\ \A i \in Readable : lines[i] = "good" => \E k \in 1 .. Len(wrote) : wrote[k] = i
        /\ chan = <<>> /\ batch = <<>>
=============================================================================
