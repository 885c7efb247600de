------------------------- MODULE OrgsRestoreProofs -------------------------
(* Proofs about OrgsRestore, for every dump, batch size and capacity. *)
EXTENDS OrgsRestore, TLAPS

-----------------------------------------------------------------------------
(* What makes the two invariants inductive *)

TypeOK ==
    /\ lines \in Seq({"good", "bad", "long"}) /\ next \in Nat \ {0}
    /\ batch \in Seq(Nat) /\ chan \in Seq(Seq(Nat)) /\ wrote \in Seq(Nat)
    /\ spc \in {"open", "scan", "send", "rest", "closed", "panic"} /\ rpc \in {"range", "done"}

\* The reader stops at the end or at a line that is too long, and leaves nothing behind.
ReadToTheEnd ==
    /\ spc \in {"rest", "closed"} => (next <= Len(lines) => lines[next] = "long")
    /\ spc = "closed" => batch = <<>>
    /\ rpc = "done" /\ spc # "panic" => spc = "closed" /\ chan = <<>>

IndInv == TypeOK /\ OnItsWay /\ OnlyGood /\ ReadToTheEnd /\ InOrder

-----------------------------------------------------------------------------
(* Sequences *)

LEMMA Appended ==
    ASSUME NEW T, NEW s \in Seq(T), NEW x \in T
    PROVE  /\ Append(s, x) \in Seq(T) /\ Len(s) \in Nat /\ Len(Append(s, x)) = Len(s) + 1
           /\ Append(s, x)[Len(s) + 1] = x
           /\ \A i \in 1 .. Len(s) : Append(s, x)[i] = s[i]
           /\ \A i \in 1 .. Len(Append(s, x)) : i \in 1 .. Len(s) \/ i = Len(s) + 1
OBVIOUS

LEMMA Joined ==
    ASSUME NEW T, NEW s \in Seq(T), NEW t \in Seq(T)
    PROVE  /\ s \o t \in Seq(T) /\ Len(s) \in Nat /\ Len(t) \in Nat
           /\ Len(s \o t) = Len(s) + Len(t)
           /\ \A i \in 1 .. Len(s) : (s \o t)[i] = s[i]
           /\ \A i \in 1 .. Len(t) : (s \o t)[Len(s) + i] = t[i]
           /\ \A i \in 1 .. Len(s \o t) :
                 \/ i \in 1 .. Len(s) /\ (s \o t)[i] = s[i]
                 \/ i - Len(s) \in 1 .. Len(t) /\ (s \o t)[i] = t[i - Len(s)]
OBVIOUS

LEMMA WithoutHead ==
    ASSUME NEW T, NEW s \in Seq(T), s # <<>>
    PROVE  /\ Tail(s) \in Seq(T) /\ Head(s) = s[1] /\ Head(s) \in T
           /\ Len(s) \in Nat /\ 1 \in 1 .. Len(s) /\ Len(Tail(s)) = Len(s) - 1
           /\ \A i \in 1 .. Len(Tail(s)) : i + 1 \in 1 .. Len(s) /\ Tail(s)[i] = s[i + 1]
           /\ \A i \in 2 .. Len(s) : i - 1 \in 1 .. Len(Tail(s)) /\ Tail(s)[i - 1] = s[i]
           /\ \A i \in 1 .. Len(s) : i = 1 \/ i \in 2 .. Len(s)
OBVIOUS

\* Two increasing sequences, the one before the other, make an increasing one.
LEMMA JoinedIncreasing ==
    ASSUME NEW s \in Seq(Nat), NEW t \in Seq(Nat), Increasing(s), Increasing(t), Before(s, t)
    PROVE  Increasing(s \o t)
<1> SUFFICES ASSUME NEW i \in 1 .. Len(s \o t), NEW j \in 1 .. Len(s \o t), i < j
             PROVE  (s \o t)[i] < (s \o t)[j]
  BY DEF Increasing
<1>1. Len(s) \in Nat /\ Len(t) \in Nat /\ Len(s \o t) = Len(s) + Len(t)
  BY Joined
<1>2. \A n \in 1 .. Len(s \o t) :
          \/ n \in 1 .. Len(s) /\ (s \o t)[n] = s[n]
          \/ n - Len(s) \in 1 .. Len(t) /\ (s \o t)[n] = t[n - Len(s)]
  BY Joined
<1>3. CASE i \in 1 .. Len(s) /\ j \in 1 .. Len(s)
  BY <1>1, <1>2, <1>3 DEF Increasing
<1>4. CASE i \in 1 .. Len(s) /\ j \notin 1 .. Len(s)
  BY <1>1, <1>2, <1>4 DEF Before
<1>5. CASE i \notin 1 .. Len(s)
  <2>1. i - Len(s) \in 1 .. Len(t) /\ j - Len(s) \in 1 .. Len(t) /\ i - Len(s) < j - Len(s)
    BY <1>1, <1>5
  <2>2. (s \o t)[i] = t[i - Len(s)] /\ (s \o t)[j] = t[j - Len(s)]
    BY <1>1, <1>2, <1>5, <2>1
  <2>3. QED
    BY <2>1, <2>2 DEF Increasing
<1>6. QED
  BY <1>3, <1>4, <1>5

-----------------------------------------------------------------------------
(* The inductive invariant *)

LEMMA Begin == Init => IndInv
<1> SUFFICES ASSUME Init PROVE IndInv
  OBVIOUS
<1>1. lines \in Seq({"good", "bad", "long"})
  <2>1. PICK n \in 0 .. MaxLines : lines \in [1 .. n -> {"good", "bad", "long"}]
    BY DEF Init, Dumps
  <2>2. QED
    BY <2>1
<1>2. next = 1 /\ batch = <<>> /\ chan = <<>> /\ wrote = <<>> /\ spc = "open" /\ rpc = "range"
  BY DEF Init
<1>3. TypeOK
  BY <1>1, <1>2 DEF TypeOK
<1>4. OnItsWay /\ OnlyGood /\ ReadToTheEnd
  BY <1>1, <1>2 DEF OnItsWay, OnlyGood, ReadToTheEnd
<1>5. InOrder
  BY <1>2 DEF InOrder, Increasing, Before
<1>6. QED
  BY <1>3, <1>4, <1>5 DEF IndInv

\* A line that parses is put behind the keys of the batch.
LEMMA ScanStep == IndInv /\ ScanLine => IndInv'
<1> SUFFICES ASSUME IndInv, ScanLine PROVE IndInv'
  OBVIOUS
<1>1. /\ lines \in Seq({"good", "bad", "long"}) /\ next \in Nat \ {0} /\ next \in 1 .. Len(lines)
      /\ batch \in Seq(Nat) /\ chan \in Seq(Seq(Nat)) /\ wrote \in Seq(Nat) /\ Len(lines) \in Nat
  BY DEF IndInv, TypeOK, ScanLine
<1>2. /\ next' = next + 1 /\ spc' \in {"send", "scan"} /\ spc = "scan"
      /\ lines' = lines /\ chan' = chan /\ wrote' = wrote /\ rpc' = rpc
  BY DEF ScanLine
<1>3. ReadToTheEnd'
  BY <1>1, <1>2 DEF IndInv, ReadToTheEnd
<1>4. \A x : Good(x, next) => Good(x, next + 1)
  BY <1>1, <1>2 DEF Good
<1>5. CASE lines[next] = "good"
  <2>1. batch' = Append(batch, next)
    BY <1>5 DEF ScanLine
  <2>2. /\ batch' \in Seq(Nat) /\ Len(batch) \in Nat /\ Len(batch') = Len(batch) + 1
        /\ batch'[Len(batch) + 1] = next
        /\ \A i \in 1 .. Len(batch) : batch'[i] = batch[i]
        /\ \A i \in 1 .. Len(batch') : i \in 1 .. Len(batch) \/ i = Len(batch) + 1
    BY <1>1, <2>1, Appended
  <2>3. TypeOK'
    BY <1>1, <1>2, <2>2 DEF IndInv, TypeOK
  <2>4. OnItsWay'
    <3> SUFFICES ASSUME NEW i \in 1 .. Len(lines), i < next + 1, lines[i] = "good"
                 PROVE  Has(wrote, i) \/ (\E j \in 1 .. Len(chan) : Has(chan[j], i)) \/ Has(batch', i)
      BY <1>2 DEF OnItsWay, Has
    <3>1. Has(batch', next)
      BY <2>2 DEF Has
    <3>2. Has(batch, i) => Has(batch', i)
      BY <2>2 DEF Has
    <3>3. i < next \/ i = next
      BY <1>1
    <3>4. QED
      BY <3>1, <3>2, <3>3 DEF IndInv, OnItsWay
  <2>5. OnlyGood'
    <3>1. Good(next, next + 1)
      BY <1>1, <1>5 DEF Good
    <3>2. \A k \in 1 .. Len(batch') : Good(batch'[k], next + 1)
      BY <1>4, <2>2, <3>1 DEF IndInv, OnlyGood
    <3>3. /\ \A k \in 1 .. Len(wrote) : Good(wrote[k], next + 1)
          /\ \A j \in 1 .. Len(chan) : \A k \in 1 .. Len(chan[j]) : Good(chan[j][k], next + 1)
      BY <1>4 DEF IndInv, OnlyGood
    <3>4. QED
      BY <1>2, <3>2, <3>3 DEF OnlyGood, Good
  <2>6. InOrder'
    <3>1. Increasing(batch')
      <4>1. \A k \in 1 .. Len(batch) : batch[k] < next
        BY DEF IndInv, OnlyGood, Good
      <4>2. \A i, j \in 1 .. Len(batch) : i < j => batch[i] < batch[j]
        BY DEF IndInv, InOrder, Increasing
      <4> SUFFICES ASSUME NEW i \in 1 .. Len(batch'), NEW j \in 1 .. Len(batch'), i < j
                   PROVE  batch'[i] < batch'[j]
        BY DEF Increasing
      <4>3. i \in 1 .. Len(batch)
        BY <2>2
      <4>4. QED
        BY <2>2, <4>1, <4>2, <4>3
    <3>2. Before(wrote, batch')
      BY <1>1, <2>2 DEF IndInv, InOrder, Before, OnlyGood, Good
    <3>3. \A j \in 1 .. Len(chan) : Before(chan[j], batch')
      BY <1>1, <2>2 DEF IndInv, InOrder, Before, OnlyGood, Good
    <3>4. QED
      BY <1>2, <3>1, <3>2, <3>3 DEF IndInv, InOrder
  <2>7. QED
    BY <1>3, <2>3, <2>4, <2>5, <2>6 DEF IndInv
<1>6. CASE lines[next] # "good"
  <2>1. batch' = batch
    BY <1>6 DEF ScanLine
  <2>2. TypeOK'
    BY <1>1, <1>2, <2>1 DEF IndInv, TypeOK
  <2>3. \A i \in 1 .. Len(lines) : i < next + 1 /\ lines[i] = "good" => i < next
    BY <1>1, <1>6
  <2>4. OnItsWay'
    BY <1>2, <2>1, <2>3 DEF IndInv, OnItsWay, Has
  <2>5. OnlyGood'
    <3>1. /\ \A k \in 1 .. Len(wrote) : Good(wrote[k], next + 1)
          /\ \A j \in 1 .. Len(chan) : \A k \in 1 .. Len(chan[j]) : Good(chan[j][k], next + 1)
          /\ \A k \in 1 .. Len(batch) : Good(batch[k], next + 1)
      BY <1>4 DEF IndInv, OnlyGood
    <3>2. QED
      BY <1>2, <2>1, <3>1 DEF OnlyGood, Good
  <2>6. InOrder'
    BY <1>2, <2>1 DEF IndInv, InOrder, Increasing, Before
  <2>7. QED
    BY <1>3, <2>2, <2>4, <2>5, <2>6 DEF IndInv
<1>7. QED
  BY <1>5, <1>6

\* The batch goes to the end of the channel as it is.
LEMMA SendStep ==
    ASSUME IndInv, chan' = Append(chan, batch), batch' = <<>>,
           UNCHANGED <<lines, next, wrote, rpc>>, rpc = "done" => spc = "panic",
           (spc = "send" /\ spc' = "scan") \/ (spc = "rest" /\ spc' = "closed")
    PROVE  IndInv'
<1>1. /\ lines \in Seq({"good", "bad", "long"}) /\ next \in Nat \ {0}
      /\ batch \in Seq(Nat) /\ chan \in Seq(Seq(Nat)) /\ wrote \in Seq(Nat)
  BY DEF IndInv, TypeOK
<1>2. /\ chan' \in Seq(Seq(Nat)) /\ Len(chan) \in Nat /\ Len(chan') = Len(chan) + 1
      /\ chan'[Len(chan) + 1] = batch
      /\ \A i \in 1 .. Len(chan) : chan'[i] = chan[i]
      /\ \A i \in 1 .. Len(chan') : i \in 1 .. Len(chan) \/ i = Len(chan) + 1
  BY <1>1, Appended
<1>3. Len(batch') = 0 /\ batch' \in Seq(Nat)
  OBVIOUS
<1>4. TypeOK'
  BY <1>1, <1>2, <1>3 DEF IndInv, TypeOK
<1>5. OnItsWay'
  <2> SUFFICES ASSUME NEW i \in 1 .. Len(lines), i < next, lines[i] = "good"
               PROVE  Has(wrote, i) \/ \E j \in 1 .. Len(chan') : Has(chan'[j], i)
    BY DEF OnItsWay, Has
  <2>1. Has(wrote, i) \/ (\E j \in 1 .. Len(chan) : Has(chan[j], i)) \/ Has(batch, i)
    BY DEF IndInv, OnItsWay
  <2>2. ASSUME NEW j \in 1 .. Len(chan), Has(chan[j], i)
        PROVE  j \in 1 .. Len(chan') /\ Has(chan'[j], i)
    BY <1>2, <2>2 DEF Has
  <2>3. Has(batch, i) => Len(chan) + 1 \in 1 .. Len(chan') /\ Has(chan'[Len(chan) + 1], i)
    BY <1>2
  <2>4. QED
    BY <2>1, <2>2, <2>3
<1>6. OnlyGood'
  <2>1. \A j \in 1 .. Len(chan') : \A k \in 1 .. Len(chan'[j]) : Good(chan'[j][k], next)
    BY <1>2 DEF IndInv, OnlyGood
  <2>2. QED
    BY <1>3, <2>1 DEF IndInv, OnlyGood, Good
<1>7. ReadToTheEnd'
  BY DEF IndInv, ReadToTheEnd
<1>8. InOrder'
  <2>1. Increasing(batch') /\ Before(wrote, batch') /\ \A j \in 1 .. Len(chan') : Before(chan'[j], batch')
    BY <1>3 DEF Increasing, Before
  <2>2. ASSUME NEW j \in 1 .. Len(chan')
        PROVE  Increasing(chan'[j]) /\ Before(wrote, chan'[j])
    BY <1>2 DEF IndInv, InOrder
  <2>3. ASSUME NEW j \in 1 .. Len(chan'), NEW l \in 1 .. Len(chan'), j < l
        PROVE  Before(chan'[j], chan'[l])
    <3>1. j \in 1 .. Len(chan)
      BY <1>2, <2>3
    <3>2. QED
      BY <1>2, <2>3, <3>1 DEF IndInv, InOrder
  <2>4. QED
    BY <2>1, <2>2, <2>3 DEF IndInv, InOrder
<1>9. QED
  BY <1>4, <1>5, <1>6, <1>7, <1>8 DEF IndInv

\* The caller appends the oldest batch of the channel to what it has written.
LEMMA ReceiveStep == IndInv /\ Receive => IndInv'
<1> SUFFICES ASSUME IndInv, Receive PROVE IndInv'
  OBVIOUS
<1>1. /\ lines \in Seq({"good", "bad", "long"}) /\ next \in Nat \ {0}
      /\ batch \in Seq(Nat) /\ chan \in Seq(Seq(Nat)) /\ wrote \in Seq(Nat)
  BY DEF IndInv, TypeOK
<1>2. /\ chan # <<>> /\ wrote' = wrote \o Head(chan) /\ chan' = Tail(chan) /\ rpc = "range"
      /\ lines' = lines /\ next' = next /\ batch' = batch /\ spc' = spc /\ rpc' = rpc
  BY DEF Receive
<1> DEFINE h == chan[1]
<1>3. /\ chan' \in Seq(Seq(Nat)) /\ h \in Seq(Nat) /\ wrote' = wrote \o h
      /\ Len(chan) \in Nat /\ 1 \in 1 .. Len(chan) /\ Len(chan') = Len(chan) - 1
      /\ \A i \in 1 .. Len(chan') : i + 1 \in 1 .. Len(chan) /\ chan'[i] = chan[i + 1]
      /\ \A i \in 2 .. Len(chan) : i - 1 \in 1 .. Len(chan') /\ chan'[i - 1] = chan[i]
      /\ \A i \in 1 .. Len(chan) : i = 1 \/ i \in 2 .. Len(chan)
  BY SMTT(30), <1>1, <1>2, WithoutHead
<1> HIDE DEF h
<1>4. /\ wrote' \in Seq(Nat) /\ Len(wrote) \in Nat /\ Len(h) \in Nat
      /\ Len(wrote') = Len(wrote) + Len(h)
      /\ \A i \in 1 .. Len(wrote) : wrote'[i] = wrote[i]
      /\ \A i \in 1 .. Len(h) : wrote'[Len(wrote) + i] = h[i]
      /\ \A i \in 1 .. Len(wrote') :
            \/ i \in 1 .. Len(wrote) /\ wrote'[i] = wrote[i]
            \/ i - Len(wrote) \in 1 .. Len(h) /\ wrote'[i] = h[i - Len(wrote)]
  <2>1. h \in Seq(Nat) /\ wrote \in Seq(Nat) /\ wrote' = wrote \o h
    BY <1>1, <1>3
  <2>2. /\ wrote \o h \in Seq(Nat) /\ Len(wrote) \in Nat /\ Len(h) \in Nat
        /\ Len(wrote \o h) = Len(wrote) + Len(h)
        /\ \A i \in 1 .. Len(wrote) : (wrote \o h)[i] = wrote[i]
        /\ \A i \in 1 .. Len(h) : (wrote \o h)[Len(wrote) + i] = h[i]
        /\ \A i \in 1 .. Len(wrote \o h) :
              \/ i \in 1 .. Len(wrote) /\ (wrote \o h)[i] = wrote[i]
              \/ i - Len(wrote) \in 1 .. Len(h) /\ (wrote \o h)[i] = h[i - Len(wrote)]
    BY <2>1, Joined
  <2>3. QED
    BY <2>1, <2>2, Zenon
<1>5. TypeOK'
  BY <1>1, <1>2, <1>3, <1>4 DEF IndInv, TypeOK
<1>6. OnItsWay'
  <2> SUFFICES ASSUME NEW i \in 1 .. Len(lines), i < next, lines[i] = "good"
               PROVE  Has(wrote', i) \/ (\E j \in 1 .. Len(chan') : Has(chan'[j], i)) \/ Has(batch, i)
    BY <1>2 DEF OnItsWay, Has
  <2>1. Has(wrote, i) \/ (\E j \in 1 .. Len(chan) : Has(chan[j], i)) \/ Has(batch, i)
    BY DEF IndInv, OnItsWay
  <2>2. Has(wrote, i) => Has(wrote', i)
    BY <1>4 DEF Has
  <2>3. ASSUME Has(h, i)
        PROVE  Has(wrote', i)
    <3>1. PICK k \in 1 .. Len(h) : h[k] = i
      BY <2>3 DEF Has
    <3>2. Len(wrote) + k \in 1 .. Len(wrote') /\ wrote'[Len(wrote) + k] = i
      BY SMTT(30), <1>4, <3>1
    <3>3. QED
      BY <3>2 DEF Has
  <2>4. ASSUME NEW j \in 1 .. Len(chan), Has(chan[j], i)
        PROVE  Has(wrote', i) \/ \E l \in 1 .. Len(chan') : Has(chan'[l], i)
    <3>1. CASE j = 1
      BY <2>3, <2>4, <3>1 DEF h
    <3>2. CASE j \in 2 .. Len(chan)
      BY <1>3, <2>4, <3>2
    <3>3. QED
      BY <1>3, <3>1, <3>2
  <2>5. QED
    BY <2>1, <2>2, <2>4
<1>7. OnlyGood'
  <2>1. \A k \in 1 .. Len(h) : Good(h[k], next)
    BY <1>3 DEF IndInv, OnlyGood, h
  <2>2. \A k \in 1 .. Len(wrote') : Good(wrote'[k], next)
    BY <1>4, <2>1 DEF IndInv, OnlyGood
  <2>3. \A j \in 1 .. Len(chan') : \A k \in 1 .. Len(chan'[j]) : Good(chan'[j][k], next)
    BY <1>3 DEF IndInv, OnlyGood
  <2>4. QED
    BY <1>2, <2>2, <2>3 DEF IndInv, OnlyGood, Good
<1>8. ReadToTheEnd'
  BY <1>2 DEF IndInv, ReadToTheEnd
<1>9. InOrder'
  <2>1. Increasing(h) /\ Before(wrote, h) /\ Before(h, batch)
    BY <1>3 DEF IndInv, InOrder, h
  <2>2. Increasing(wrote')
    BY <1>1, <1>3, <2>1, JoinedIncreasing DEF IndInv, InOrder
  <2>3. Before(wrote', batch)
    BY <1>4, <2>1 DEF IndInv, InOrder, Before
  <2>4. ASSUME NEW j \in 1 .. Len(chan')
        PROVE  Increasing(chan'[j]) /\ Before(wrote', chan'[j]) /\ Before(chan'[j], batch)
    <3>1. j + 1 \in 1 .. Len(chan) /\ chan'[j] = chan[j + 1] /\ 1 < j + 1
      BY <1>3
    <3>2. Before(wrote, chan[j + 1]) /\ Before(h, chan[j + 1])
      BY <1>3, <3>1 DEF IndInv, InOrder, h
    <3>3. Before(wrote', chan[j + 1])
      BY <1>4, <3>2 DEF Before
    <3>4. QED
      BY <3>1, <3>3 DEF IndInv, InOrder
  <2>5. ASSUME NEW j \in 1 .. Len(chan'), NEW l \in 1 .. Len(chan'), j < l
        PROVE  Before(chan'[j], chan'[l])
    <3>1. /\ j + 1 \in 1 .. Len(chan) /\ l + 1 \in 1 .. Len(chan) /\ j + 1 < l + 1
          /\ chan'[j] = chan[j + 1] /\ chan'[l] = chan[l + 1]
      BY <1>3, <2>5
    <3>2. QED
      BY <3>1 DEF IndInv, InOrder
  <2>6. QED
    BY <1>2, <2>2, <2>3, <2>4, <2>5 DEF IndInv, InOrder
<1>10. QED
  BY <1>5, <1>6, <1>7, <1>8, <1>9 DEF IndInv

\* Steps that move no key.
LEMMA QuietStep ==
    ASSUME IndInv, UNCHANGED <<lines, next, batch, chan, wrote>>, ReadToTheEnd',
           spc' \in {"open", "scan", "send", "rest", "closed", "panic"}, rpc' \in {"range", "done"}
    PROVE  IndInv'
<1>1. TypeOK'
  BY DEF IndInv, TypeOK
<1>2. OnItsWay' /\ OnlyGood' /\ InOrder'
  BY DEF IndInv, OnItsWay, OnlyGood, InOrder, Has, Good, Increasing, Before
<1>3. QED
  BY <1>1, <1>2 DEF IndInv

\* The invariant holds of every interleaving of the two goroutines.
LEMMA Steps == IndInv /\ [Next]_vars => IndInv'
<1> SUFFICES ASSUME IndInv, [Next]_vars PROVE IndInv'
  OBVIOUS
<1>1. CASE Open
  <2>1. ReadToTheEnd'
    BY <1>1 DEF Open, IndInv, ReadToTheEnd
  <2>2. QED
    BY <1>1, <2>1, QuietStep DEF Open, IndInv, TypeOK
<1>2. CASE OpenFails
  <2>1. ReadToTheEnd'
    BY <1>2 DEF OpenFails, IndInv, ReadToTheEnd
  <2>2. QED
    BY <1>2, <2>1, QuietStep DEF OpenFails, IndInv, TypeOK
<1>3. CASE ScanLine
  BY <1>3, ScanStep
<1>4. CASE SendBatch
  <2>1. rpc = "done" => spc = "panic"
    BY <1>4 DEF SendBatch, IndInv, ReadToTheEnd
  <2>2. QED
    <3>1. /\ chan' = Append(chan, batch) /\ batch' = <<>> /\ spc = "send" /\ spc' = "scan"
          /\ UNCHANGED <<lines, next, wrote, rpc>>
      BY <1>4 DEF SendBatch
    <3>2. QED
      BY <2>1, <3>1, SendStep
<1>5. CASE EndScan
  <2>1. ReadToTheEnd'
    BY <1>5 DEF EndScan, IndInv, ReadToTheEnd
  <2>2. QED
    BY <1>5, <2>1, QuietStep DEF EndScan, IndInv, TypeOK
<1>6. CASE SendRest
  <2>1. rpc = "done" => spc = "panic"
    BY <1>6 DEF SendRest, IndInv, ReadToTheEnd
  <2>2. CASE batch = <<>>
    <3>1. ReadToTheEnd'
      BY <1>6, <2>1, <2>2 DEF SendRest, IndInv, ReadToTheEnd
    <3>2. QED
      BY <1>6, <2>2, <3>1, QuietStep DEF SendRest, IndInv, TypeOK
  <2>3. CASE batch # <<>>
    BY <1>6, <2>1, <2>3, SendStep DEF SendRest
  <2>4. QED
    BY <2>2, <2>3
<1>7. CASE Receive
  BY <1>7, ReceiveStep
<1>8. CASE RangeEnds
  <2>1. ReadToTheEnd'
    BY <1>8 DEF RangeEnds, IndInv, ReadToTheEnd
  <2>2. QED
    BY <1>8, <2>1, QuietStep DEF RangeEnds, IndInv, TypeOK
<1>9. CASE UNCHANGED vars
  <2>1. ReadToTheEnd'
    BY <1>9 DEF vars, IndInv, ReadToTheEnd
  <2>2. QED
    BY <1>9, <2>1, QuietStep DEF vars, IndInv, TypeOK
<1>10. QED
  BY <1>1, <1>2, <1>3, <1>4, <1>5, <1>6, <1>7, <1>8, <1>9 DEF Next, Stream, Restore

THEOREM Invariance == Spec => []IndInv
BY Begin, Steps, PTL DEF Spec

LEMMA Restored == IndInv => AllRestored
<1> SUFFICES ASSUME IndInv, rpc = "done", spc # "panic"
             PROVE  /\ \A i \in Readable : lines[i] = "good" => Has(wrote, i)
                    /\ chan = <<>> /\ batch = <<>>
  BY DEF AllRestored, Has
<1>1. spc = "closed" /\ chan = <<>> /\ batch = <<>>
  BY DEF IndInv, ReadToTheEnd
<1>2. next \in Nat \ {0} /\ (next <= Len(lines) => lines[next] = "long") /\ Len(lines) \in Nat
  BY <1>1 DEF IndInv, TypeOK, ReadToTheEnd
<1>3. ASSUME NEW i \in Readable, lines[i] = "good"
      PROVE  Has(wrote, i)
  <2>1. i \in 1 .. Len(lines) /\ \A j \in 1 .. i : lines[j] # "long"
    BY DEF Readable
  <2>2. i < next
    BY <1>2, <2>1
  <2>3. Has(wrote, i) \/ (\E j \in 1 .. Len(chan) : Has(chan[j], i)) \/ Has(batch, i)
    BY <1>3, <2>1, <2>2 DEF IndInv, OnItsWay
  <2>4. QED
    BY <1>1, <2>3 DEF Has
<1>4. QED
  BY <1>1, <1>3

\* When RestoreKeys returns, every key up to a line that is too long was written, and
\* nothing waits in the channel or in a partial batch, for every dump, batch size and
\* capacity of the channel (restore.go:27 to 80).
THEOREM AllRestoredAlways == Spec => []AllRestored
BY Restored, Invariance, PTL

\* At every moment, what was written, is in the channel and waits in the batch are the
\* keys of the lines that were read and parsed, each once and in the order of the file:
\* no batch overtakes another, none is sent twice or filled up after it was sent.
THEOREM KeysInFlightAlways == Spec => []KeysInFlight
<1>1. IndInv => KeysInFlight
  BY DEF IndInv, KeysInFlight
<1>2. QED
  BY <1>1, Invariance, PTL
=============================================================================
