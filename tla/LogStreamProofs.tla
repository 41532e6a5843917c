--------------------------- MODULE LogStreamProofs ---------------------------
(***************************************************************************)
(* Machine-checked proofs about LogStream, for every cap of the log list   *)
(* and any number of lines and runs.                                       *)
(***************************************************************************)
EXTENDS LogStream, SequenceTheorems, TLAPS

-----------------------------------------------------------------------------
(* Types *)

Message == {Line(n) : n \in Nat} \cup {State(s) : s \in Status}

StreamPC == {"closed", "replay", "check", "subscribe", "listen", "done"}

TypeOK ==
    /\ status \in Status /\ unsent \in {Nothing, status}
    /\ lost \in BOOLEAN /\ drops \in Nat
    /\ logs \in Seq(Nat) /\ written \in Nat /\ started \in Nat
    /\ gen \in StreamPC
    /\ channel \in Seq(Message) /\ out \in Seq(Message)
    /\ gen # "listen" => channel = <<>>

\* A message is a line or a status, and not both.
LEMMA MessageKinds ==
  ASSUME NEW m \in Message
  PROVE  \/ IsLine(m) /\ m.data \in Nat /\ m = Line(m.data)
         \/ ~IsLine(m) /\ m.event = "status" /\ m.data \in Status /\ m = State(m.data)
  BY DEF Message, Line, State, IsLine

LEMMA LineIsMessage ==
  ASSUME NEW n \in Nat
  PROVE  Line(n) \in Message /\ IsLine(Line(n)) /\ Line(n).data = n
  BY DEF Message, Line, IsLine

LEMMA StateIsMessage ==
  ASSUME NEW s \in Status
  PROVE  State(s) \in Message /\ ~IsLine(State(s)) /\ State(s).data = s
  BY DEF Message, State, IsLine

LEMMA PublishTypes ==
  ASSUME TypeOK, NEW m \in Message, Publish(m)
  PROVE  channel' \in Seq(Message) /\ (gen # "listen" => channel' = <<>>)
  BY DEF TypeOK, Publish

LEMMA InitTypes == Init => TypeOK
<1> SUFFICES ASSUME Init PROVE TypeOK
  OBVIOUS
<1>1. logs \in Seq(Nat) /\ channel \in Seq(Message) /\ out \in Seq(Message)
  BY DEF Init
<1>. QED
  BY <1>1 DEF Init, TypeOK, Status, StreamPC

LEMMA NextTypes == TypeOK /\ [Next]_streamVars => TypeOK'
<1> SUFFICES ASSUME TypeOK, [Next]_streamVars PROVE TypeOK'
  OBVIOUS
<1> USE DEF TypeOK, Status, StreamPC
<1>1. ASSUME NEW s \in Status, Write(s), UNCHANGED started \/ started' = started + 1
      PROVE  TypeOK'
  BY <1>1 DEF Write
<1>2. CASE Run
  BY <1>1, <1>2 DEF Run
<1>3. ASSUME NEW s \in Status, Finish(s) PROVE TypeOK'
  BY <1>1, <1>3 DEF Finish
<1>4. CASE Requeue
  BY <1>1, <1>4 DEF Requeue
<1>5. CASE PublishStatus
  <2>1. State(unsent) \in Message
    BY <1>5, StateIsMessage DEF PublishStatus
  <2>2. channel' \in Seq(Message) /\ (gen # "listen" => channel' = <<>>)
    BY <1>5, <2>1, PublishTypes DEF PublishStatus
  <2>. QED
    BY <1>5, <2>2 DEF PublishStatus
<1>6. CASE AppendLog
  <2>1. written' \in Nat /\ Line(written') \in Message
    BY <1>6, LineIsMessage DEF AppendLog
  <2>2. channel' \in Seq(Message) /\ (gen # "listen" => channel' = <<>>)
    BY <1>6, <2>1, PublishTypes DEF AppendLog
  <2>3. logs' \in Seq(Nat)
    <3>1. Append(logs, written') \in Seq(Nat) /\ Append(logs, written') # <<>>
      BY <2>1
    <3>2. Trim(Append(logs, written')) \in Seq(Nat)
      BY <3>1, SMTT(30) DEF Trim
    <3>. QED
      BY <1>6, <3>2 DEF AppendLog
  <2>. QED
    BY <1>6, <2>1, <2>2, <2>3 DEF AppendLog
<1>7. CASE Open
  BY <1>7 DEF Open, workerVars
<1>8. CASE Replay
  <2>1. out' \in Seq(Message)
    <3>1. \A i \in 1..Len(logs) : Line(logs[i]) \in Message
      BY LineIsMessage
    <3>. QED
      BY <1>8, <3>1 DEF Replay
  <2>. QED
    BY <1>8, <2>1 DEF Replay, workerVars
<1>9. CASE Check
  <2>1. State(status) \in Message
    BY StateIsMessage
  <2>. QED
    BY <1>9, <2>1 DEF Check, workerVars
<1>10. CASE Subscribe
  BY <1>10 DEF Subscribe, workerVars
<1>11. CASE Forward
  <2>1. Head(channel) \in Message /\ Tail(channel) \in Seq(Message)
    BY <1>11 DEF Forward
  <2>2. out' \in Seq(Message) /\ UNCHANGED workerVars
    BY <1>11, <2>1 DEF Forward
  <2>3. \/ gen' = "done" /\ channel' = <<>>
        \/ gen' = gen /\ gen = "listen" /\ channel' = Tail(channel)
    BY <1>11 DEF Forward
  <2>4. /\ status' = status /\ unsent' = unsent /\ lost' = lost /\ drops' = drops
        /\ logs' = logs /\ written' = written /\ started' = started
    BY <2>2 DEF workerVars
  <2>5. gen' \in StreamPC /\ channel' \in Seq(Message) /\ (gen' # "listen" => channel' = <<>>)
    <3>1. CASE gen' = "done" /\ channel' = <<>>
      BY <3>1
    <3>2. CASE gen' = gen /\ gen = "listen" /\ channel' = Tail(channel)
      BY <2>1, <3>2
    <3>. QED
      BY <2>3, <3>1, <3>2
  <2>. QED
    BY <2>2, <2>4, <2>5
<1>12. CASE UNCHANGED streamVars
  BY <1>12 DEF streamVars
<1>13. CASE PublishFails
  BY <1>13 DEF PublishFails
<1>. QED
  BY <1>2, <1>3, <1>4, <1>5, <1>6, <1>7, <1>8, <1>9, <1>10, <1>11, <1>12, <1>13
     DEF Next, WorkerNext, Generate

\* Variables have their types; a subscription's messages exist only while the
\* generator listens, and what is unsent is the status of the hash.
THEOREM StreamTypeCorrect == Spec => []TypeOK
  BY InitTypes, NextTypes, PTL DEF Spec

-----------------------------------------------------------------------------
(* Sequences of messages *)

LEMMA Grows ==
  ASSUME NEW s \in Seq(Message), NEW m \in Message
  PROVE  /\ Append(s, m) \in Seq(Message) /\ Len(s) \in Nat
         /\ DOMAIN s = 1..Len(s) /\ DOMAIN Append(s, m) = 1..(Len(s) + 1)
         /\ \A k \in 1..Len(s) : Append(s, m)[k] = s[k] /\ s[k] \in Message
         /\ Append(s, m)[Len(s) + 1] = m
  OBVIOUS

LEMMA Shrinks ==
  ASSUME NEW s \in Seq(Message), s # <<>>
  PROVE  /\ Tail(s) \in Seq(Message) /\ Len(s) \in Nat \ {0} /\ Head(s) = s[1]
         /\ DOMAIN s = 1..Len(s) /\ DOMAIN Tail(s) = 1..(Len(s) - 1)
         /\ \A k \in 1..Len(s) : s[k] \in Message
         /\ \A k \in 1..(Len(s) - 1) : Tail(s)[k] = s[k + 1]
  OBVIOUS

\* The lines among the messages s, and that they are in order.
Carries(s, n)  == \E k \in DOMAIN s : IsLine(s[k]) /\ s[k].data = n
Increasing(s) ==
    \A k, l \in DOMAIN s :
        k < l /\ IsLine(s[k]) /\ IsLine(s[l]) => s[k].data < s[l].data

-----------------------------------------------------------------------------
(* One gap *)

\* The list is what was written last.
LogsInv == /\ Len(logs) <= written
           /\ \A i \in 1..Len(logs) : logs[i] + Len(logs) = written + i

NoSkip == \A k \in DOMAIN out : ~Skips(k)

\* What has been replayed: lines of the list only, none missing.
Replayed ==
    NoSkip /\ \A k \in DOMAIN out : IsLine(out[k]) /\ out[k].data <= written

\* The client has the lines up to lo at most, those after lo are on their way,
\* and a gap there has been is behind lo.
Meets(lo) ==
    /\ Increasing(channel)
    /\ \A n \in Nat : Carries(channel, n) <=> n \in (lo + 1)..written
    /\ \A k \in DOMAIN out : IsLine(out[k]) => out[k].data <= lo
    /\ NoSkip \/ Carries(out, lo)

GapInv ==
    /\ LogsInv
    /\ Increasing(out)
    /\ \A k, l \in DOMAIN out : Skips(k) /\ Skips(l) => k = l
    /\ gen \in {"closed", "replay"} => out = <<>>
    /\ gen \in {"check", "subscribe"} => Replayed
    /\ gen = "listen" => \E lo \in 0..written : Meets(lo)

LEMMA InitGap == Init => GapInv
  BY DEF Init, GapInv, LogsInv, Increasing

\* One message more for the client.
LEMMA SentMore ==
  ASSUME TypeOK, NEW m \in Message, out' = Append(out, m)
  PROVE  /\ DOMAIN out = 1..Len(out) /\ DOMAIN out' = 1..(Len(out) + 1) /\ Len(out) \in Nat
         /\ \A k \in 1..Len(out) : out'[k] = out[k] /\ out[k] \in Message /\ Skips(k)' = Skips(k)
         /\ out'[Len(out) + 1] = m
<1>1. /\ DOMAIN out = 1..Len(out) /\ DOMAIN out' = 1..(Len(out) + 1) /\ Len(out) \in Nat
      /\ \A k \in 1..Len(out) : out'[k] = out[k] /\ out[k] \in Message
      /\ out'[Len(out) + 1] = m
  BY Grows DEF TypeOK
<1>2. ASSUME NEW k \in 1..Len(out) PROVE Skips(k)' = Skips(k)
  <2>1. \A l \in 1..(k - 1) : l \in 1..Len(out)
    BY <1>1
  <2>. QED
    BY <1>1, <2>1 DEF Skips
<1>. QED
  BY <1>1, <1>2

\* A status adds no line and no gap.
LEMMA SentStatus ==
  ASSUME TypeOK, NEW m \in Message, ~IsLine(m), out' = Append(out, m)
  PROVE  /\ Increasing(out) => Increasing(out')
         /\ \A k : k = Len(out) + 1 => ~Skips(k)'
         /\ \A k \in DOMAIN out' : IsLine(out'[k]) => k \in DOMAIN out /\ out'[k] = out[k]
         /\ \A n \in Nat : Carries(out, n) => Carries(out', n)
<1>1. /\ DOMAIN out = 1..Len(out) /\ DOMAIN out' = 1..(Len(out) + 1) /\ Len(out) \in Nat
      /\ \A k \in 1..Len(out) : out'[k] = out[k]
      /\ out'[Len(out) + 1] = m
  BY SentMore
<1>2. \A k : k = Len(out) + 1 => ~Skips(k)'
  BY <1>1 DEF Skips
<1>3. \A k \in DOMAIN out' : IsLine(out'[k]) => k \in DOMAIN out /\ out'[k] = out[k]
  BY <1>1
<1>. QED
  BY <1>1, <1>2, <1>3 DEF Increasing, Carries

\* The next line that is on its way is lo + 1.
LEMMA NextLine ==
  ASSUME TypeOK, NEW lo \in 0..written, Meets(lo), channel # <<>>, IsLine(Head(channel))
  PROVE  Head(channel).data = lo + 1 /\ lo + 1 <= written
<1>1. /\ Len(channel) \in Nat \ {0} /\ Head(channel) = channel[1]
      /\ DOMAIN channel = 1..Len(channel) /\ \A k \in 1..Len(channel) : channel[k] \in Message
  BY Shrinks DEF TypeOK
<1>2. channel[1].data \in Nat /\ channel[1] \in Message /\ lo \in Nat /\ written \in Nat
  BY <1>1, MessageKinds DEF TypeOK
<1>3. channel[1].data \in (lo + 1)..written
  BY <1>1, <1>2 DEF Meets, Carries
<1>4. PICK k \in DOMAIN channel : IsLine(channel[k]) /\ channel[k].data = lo + 1
  <2>1. lo + 1 \in (lo + 1)..written /\ lo + 1 \in Nat
    BY <1>2, <1>3
  <2>. QED
    BY <2>1 DEF Meets, Carries
<1>5. k = 1 \/ channel[1].data < channel[k].data
  BY <1>1, <1>4 DEF Meets, Increasing
<1>. QED
  BY <1>1, <1>2, <1>3, <1>4, <1>5

\* What is left of the channel when its first message has been read.
LEMMA ReadOne ==
  ASSUME TypeOK, NEW lo \in 0..written, Meets(lo), channel # <<>>
  PROVE  /\ Increasing(Tail(channel))
         /\ IsLine(Head(channel)) =>
              \A n \in Nat : Carries(Tail(channel), n) <=> n \in (lo + 2)..written
         /\ ~IsLine(Head(channel)) =>
              \A n \in Nat : Carries(Tail(channel), n) <=> n \in (lo + 1)..written
<1> DEFINE rest == Tail(channel)
<1>1. /\ Len(channel) \in Nat \ {0} /\ Head(channel) = channel[1]
      /\ DOMAIN channel = 1..Len(channel) /\ DOMAIN rest = 1..(Len(channel) - 1)
      /\ \A k \in 1..(Len(channel) - 1) : rest[k] = channel[k + 1]
  BY Shrinks DEF TypeOK
<1>2. lo \in Nat /\ written \in Nat
  BY DEF TypeOK
<1> HIDE DEF rest
<1>3. Increasing(rest)
  <2> SUFFICES ASSUME NEW k \in DOMAIN rest, NEW l \in DOMAIN rest, k < l,
                      IsLine(rest[k]), IsLine(rest[l])
               PROVE  rest[k].data < rest[l].data
    BY DEF Increasing
  <2>1. /\ k + 1 \in DOMAIN channel /\ rest[k] = channel[k + 1]
        /\ l + 1 \in DOMAIN channel /\ rest[l] = channel[l + 1]
        /\ k + 1 < l + 1
    BY <1>1
  <2>. QED
    BY <2>1 DEF Meets, Increasing
<1>4. \A k \in DOMAIN channel : k = 1 \/ (k - 1 \in DOMAIN rest /\ rest[k - 1] = channel[k])
  BY <1>1
<1>5. \A k \in DOMAIN rest : k + 1 \in DOMAIN channel /\ rest[k] = channel[k + 1]
  BY <1>1
<1>6. \A n \in Nat : Carries(channel, n) <=>
                       (IsLine(channel[1]) /\ channel[1].data = n) \/ Carries(rest, n)
  <2> SUFFICES ASSUME NEW n \in Nat
               PROVE  Carries(channel, n) <=>
                        (IsLine(channel[1]) /\ channel[1].data = n) \/ Carries(rest, n)
    OBVIOUS
  <2>1. Carries(channel, n) =>
          (IsLine(channel[1]) /\ channel[1].data = n) \/ Carries(rest, n)
    BY <1>4 DEF Carries
  <2>2. Carries(rest, n) => Carries(channel, n)
    BY <1>5 DEF Carries
  <2>3. 1 \in DOMAIN channel
    BY <1>1
  <2>. QED
    BY <2>1, <2>2, <2>3 DEF Carries
<1>7. IsLine(Head(channel)) =>
        \A n \in Nat : Carries(rest, n) <=> n \in (lo + 2)..written
  <2> SUFFICES ASSUME IsLine(Head(channel)), NEW n \in Nat
               PROVE  Carries(rest, n) <=> n \in (lo + 2)..written
    OBVIOUS
  <2>1. channel[1].data = lo + 1
    BY <1>1, NextLine
  <2>2. Carries(rest, n) => n # lo + 1
    <3> SUFFICES ASSUME NEW k \in DOMAIN rest, IsLine(rest[k]), rest[k].data = lo + 1
                 PROVE  FALSE
      BY DEF Carries
    <3>1. k + 1 \in DOMAIN channel /\ 1 \in DOMAIN channel /\ 1 < k + 1
      BY <1>1
    <3>2. channel[1].data < channel[k + 1].data
      BY <1>1, <1>5, <3>1 DEF Meets, Increasing
    <3>. QED
      BY <1>2, <1>5, <2>1, <3>2
  <2>3. Carries(channel, n) <=> n \in (lo + 1)..written
    BY DEF Meets
  <2>. QED
    BY <1>1, <1>2, <1>6, <2>1, <2>2, <2>3
<1>8. ~IsLine(Head(channel)) =>
        \A n \in Nat : Carries(rest, n) <=> n \in (lo + 1)..written
  BY <1>1, <1>6 DEF Meets
<1>. QED
  BY <1>3, <1>7, <1>8 DEF rest

LEMMA Successor ==
  ASSUME NEW a \in Nat, NEW b \in Nat, NEW len \in Nat, NEW top \in Nat, NEW i \in Nat,
         a + len = top + i, b + len = top + (i - 1)
  PROVE  b + 1 = a
  OBVIOUS

LEMMA GrowsByOne ==
  ASSUME NEW s \in Seq(Nat), NEW n \in Nat
  PROVE  /\ Append(s, n) \in Seq(Nat) /\ Append(s, n) # <<>> /\ Len(Append(s, n)) = Len(s) + 1
         /\ \A i \in 1..Len(s) : Append(s, n)[i] = s[i]
         /\ Append(s, n)[Len(s) + 1] = n
  BY AppendProperties

LEMMA AppendLogGap ==
  ASSUME TypeOK, GapInv, AppendLog
  PROVE  GapInv'
<1> DEFINE n == written + 1
<1>1. /\ written' = n /\ written \in Nat /\ n \in Nat /\ n # 0
      /\ UNCHANGED <<out, gen>> /\ Publish(Line(n)) /\ logs' = Trim(Append(logs, n))
  BY DEF AppendLog, TypeOK
<1> HIDE DEF n
<1>2. LogsInv'
  <2>1. /\ Len(logs) \in Nat /\ Len(logs) <= written /\ logs \in Seq(Nat)
        /\ \A i \in 1..Len(logs) : logs[i] + Len(logs) = written + i
    BY DEF GapInv, LogsInv, TypeOK
  <2> DEFINE all == Append(logs, n)
  <2>2. /\ all \in Seq(Nat) /\ all # <<>> /\ Len(all) = Len(logs) + 1
        /\ \A i \in 1..Len(logs) : all[i] = logs[i]
        /\ all[Len(logs) + 1] = n
    BY <1>1, <2>1, GrowsByOne
  <2> HIDE DEF all
  <2>3. \A i \in 1..Len(all) : all[i] \in Nat /\ all[i] + Len(all) = n + i
    <3> SUFFICES ASSUME NEW i \in 1..Len(all) PROVE all[i] \in Nat /\ all[i] + Len(all) = n + i
      OBVIOUS
    <3>1. CASE i = Len(logs) + 1
      BY <1>1, <2>1, <2>2, <3>1
    <3>2. CASE i \in 1..Len(logs)
      <4>1. logs[i] + Len(logs) = written + i /\ logs[i] \in Nat /\ all[i] = logs[i]
        BY <2>1, <2>2, <3>2
      <4>2. Len(all) = Len(logs) + 1 /\ n = written + 1 /\ i \in Nat
        BY <2>2, <3>2 DEF n
      <4>3. Len(logs) \in Nat /\ written \in Nat
        BY <1>1, <2>1
      <4>. QED
        BY <4>1, <4>2, <4>3
    <3>. QED
      BY <2>1, <2>2, <3>1, <3>2
  <2>4. Len(all) <= n
    BY <1>1, <2>1, <2>2 DEF n
  <2>5. CASE logs' = all
    BY <1>1, <2>3, <2>4, <2>5 DEF LogsInv
  <2>6. CASE logs' = Tail(all)
    <3>1. /\ Len(Tail(all)) = Len(all) - 1 /\ Len(all) \in Nat \ {0}
          /\ \A i \in 1..(Len(all) - 1) : Tail(all)[i] = all[i + 1]
      BY <2>2
    <3>2. \A i \in 1..(Len(all) - 1) : all[i + 1] \in Nat /\ all[i + 1] + Len(all) = n + (i + 1)
      BY <2>3, <3>1
    <3>3. \A i \in 1..(Len(all) - 1) : Tail(all)[i] + (Len(all) - 1) = n + i
      BY <1>1, <3>1, <3>2
    <3>. QED
      BY <1>1, <2>4, <2>6, <3>1, <3>3 DEF LogsInv
  <2>. QED
    BY <1>1, <2>5, <2>6 DEF Trim, all
<1>3. CASE gen # "listen"
  <2>1. Replayed => Replayed'
    <3>1. NoSkip => NoSkip'
      BY <1>1 DEF NoSkip, Skips
    <3>2. \A k \in DOMAIN out : IsLine(out[k]) => out[k].data \in Nat
      BY MessageKinds DEF TypeOK
    <3>3. written \in Nat /\ n = written + 1 /\ out' = out /\ written' = n
      BY <1>1 DEF n, TypeOK
    <3>. QED
      BY <3>1, <3>2, <3>3 DEF Replayed
  <2>. QED
    BY <1>1, <1>2, <1>3, <2>1 DEF GapInv, Increasing, Skips
<1>4. CASE gen = "listen"
  <2>1. PICK lo \in 0..written : Meets(lo)
    BY <1>4 DEF GapInv
  <2>2. channel' = Append(channel, Line(n)) /\ Line(n) \in Message /\ IsLine(Line(n))
        /\ Line(n).data = n
    BY <1>1, <1>4, LineIsMessage DEF Publish
  <2>3. /\ Len(channel) \in Nat /\ DOMAIN channel = 1..Len(channel)
        /\ DOMAIN channel' = 1..(Len(channel) + 1)
        /\ \A k \in 1..Len(channel) : channel'[k] = channel[k] /\ channel[k] \in Message
        /\ channel'[Len(channel) + 1] = Line(n)
    BY <2>2, Grows DEF TypeOK
  <2>4. \A k \in 1..Len(channel) : IsLine(channel[k]) => channel[k].data \in 1..written
    <3> SUFFICES ASSUME NEW k \in 1..Len(channel), IsLine(channel[k])
                 PROVE  channel[k].data \in 1..written
      OBVIOUS
    <3>1. channel[k].data \in Nat
      BY <2>3, MessageKinds
    <3>2. channel[k].data \in (lo + 1)..written
      BY <2>1, <2>3, <3>1 DEF Meets, Carries
    <3>. QED
      BY <1>1, <3>1, <3>2
  <2>5. Increasing(channel')
    <3> SUFFICES ASSUME NEW k \in DOMAIN channel', NEW l \in DOMAIN channel', k < l,
                        IsLine(channel'[k]), IsLine(channel'[l])
                 PROVE  channel'[k].data < channel'[l].data
      BY DEF Increasing
    <3>1. k \in 1..Len(channel) /\ channel'[k] = channel[k]
      BY <2>3
    <3>2. CASE l = Len(channel) + 1
      <4>1. channel[k].data \in 1..written
        BY <2>4, <3>1
      <4>. QED
        BY <1>1, <2>2, <2>3, <3>1, <3>2, <4>1 DEF n
    <3>3. CASE l \in 1..Len(channel)
      BY <2>1, <2>3, <3>1, <3>3 DEF Meets, Increasing
    <3>. QED
      BY <2>3, <3>2, <3>3
  <2>6. \A x \in Nat : Carries(channel', x) <=> x \in (lo + 1)..written'
    <3> SUFFICES ASSUME NEW x \in Nat
                 PROVE  Carries(channel', x) <=> x \in (lo + 1)..written'
      OBVIOUS
    <3>1. Carries(channel', x) <=> Carries(channel, x) \/ x = n
      BY <2>2, <2>3 DEF Carries
    <3>2. Carries(channel, x) <=> x \in (lo + 1)..written
      BY <2>1 DEF Meets
    <3>. QED
      BY <1>1, <3>1, <3>2 DEF n
  <2>7. \A x \in Nat : x \in 0..written' => x \in Nat
    OBVIOUS
  <2>8. lo \in 0..written'
    BY <1>1, <2>1 DEF n
  <2>9. \A x : x = lo => Meets(x)'
    BY <1>1, <2>1, <2>5, <2>6 DEF Meets, NoSkip, Skips
  <2>10. (\E x \in 0..written : Meets(x))'
    BY <2>8, <2>9
  <2>. QED
    BY <1>1, <1>2, <1>4, <2>10 DEF GapInv, Increasing, Skips
<1>. QED
  BY <1>3, <1>4

LEMMA PublishStatusGap ==
  ASSUME TypeOK, GapInv, PublishStatus
  PROVE  GapInv'
<1>1. /\ UNCHANGED <<out, gen, written, logs>> /\ Publish(State(unsent))
      /\ State(unsent) \in Message /\ ~IsLine(State(unsent))
  BY StateIsMessage DEF PublishStatus, TypeOK
<1>2. CASE gen # "listen"
  BY <1>1, <1>2 DEF GapInv, Increasing, Skips, LogsInv, Replayed, NoSkip
<1>3. CASE gen = "listen"
  <2>1. PICK lo \in 0..written : Meets(lo)
    BY <1>3 DEF GapInv
  <2>2. channel' = Append(channel, State(unsent))
    BY <1>1, <1>3 DEF Publish
  <2>3. /\ Len(channel) \in Nat /\ DOMAIN channel = 1..Len(channel)
        /\ DOMAIN channel' = 1..(Len(channel) + 1)
        /\ \A k \in 1..Len(channel) : channel'[k] = channel[k]
        /\ channel'[Len(channel) + 1] = State(unsent)
    BY <1>1, <2>2, Grows DEF TypeOK
  <2>4. \A k \in DOMAIN channel' : IsLine(channel'[k]) =>
          k \in DOMAIN channel /\ channel'[k] = channel[k]
    BY <1>1, <2>3
  <2>5. Increasing(channel') /\ \A x \in Nat : Carries(channel', x) <=> Carries(channel, x)
    BY <2>1, <2>3, <2>4 DEF Meets, Increasing, Carries
  <2>6. \A x : x = lo => Meets(x)'
    BY <1>1, <2>1, <2>5 DEF Meets, NoSkip, Skips
  <2>7. (\E x \in 0..written : Meets(x))'
    BY <1>1, <2>1, <2>6
  <2>. QED
    BY <1>1, <1>3, <2>7 DEF GapInv, Increasing, Skips, LogsInv
<1>. QED
  BY <1>2, <1>3

\* The whole list: consecutive lines.
LEMMA ReplayGap ==
  ASSUME TypeOK, GapInv, Replay
  PROVE  GapInv'
<1>1. /\ UNCHANGED <<logs, written, channel>> /\ gen' = "check"
      /\ out' = [i \in 1..Len(logs) |-> Line(logs[i])]
  BY DEF Replay, workerVars
<1>2. /\ Len(logs) \in Nat /\ written \in Nat /\ Len(logs) <= written
      /\ \A i \in 1..Len(logs) : logs[i] \in Nat /\ logs[i] + Len(logs) = written + i
  BY DEF TypeOK, GapInv, LogsInv
<1>3. /\ DOMAIN out' = 1..Len(logs)
      /\ \A i \in 1..Len(logs) : IsLine(out'[i]) /\ out'[i].data = logs[i]
  BY <1>1, <1>2, LineIsMessage
<1>4. Increasing(out')
  <2> SUFFICES ASSUME NEW k \in DOMAIN out', NEW l \in DOMAIN out', k < l
               PROVE  out'[k].data < out'[l].data
    BY DEF Increasing
  <2>1. k \in 1..Len(logs) /\ l \in 1..Len(logs)
    BY <1>3
  <2>2. /\ logs[k] \in Nat /\ logs[k] + Len(logs) = written + k
        /\ logs[l] \in Nat /\ logs[l] + Len(logs) = written + l
    BY <1>2, <2>1
  <2>3. logs[k] < logs[l]
    BY <1>2, <2>1, <2>2
  <2>. QED
    BY <1>3, <2>1, <2>3
<1>5. ASSUME NEW l \in DOMAIN out' PROVE ~Skips(l)'
  <2>1. CASE l = 1
    BY <2>1 DEF Skips
  <2>2. CASE l # 1
    <3>1. l - 1 \in 1..Len(logs) /\ l - 1 \in 1..(l - 1)
      BY <1>2, <1>3, <2>2
    <3>2. logs[l - 1] + 1 = logs[l]
      <4>1. l \in 1..Len(logs)
        BY <1>3
      <4>2. /\ logs[l] \in Nat /\ logs[l] + Len(logs) = written + l
            /\ logs[l - 1] \in Nat /\ logs[l - 1] + Len(logs) = written + (l - 1)
        BY <1>2, <3>1, <4>1
      <4>. QED
        <5>1. Len(logs) \in Nat /\ written \in Nat /\ l \in Nat
          BY <1>2, <4>1
        <5>. QED
          BY <4>2, <5>1, Successor, SMTT(30)
    <3>3. out'[l - 1].data + 1 = out'[l].data /\ IsLine(out'[l - 1])
      BY <1>3, <3>1, <3>2
    <3>. QED
      BY <3>1, <3>3 DEF Skips
  <2>. QED
    BY <2>1, <2>2
<1>6. \A k \in DOMAIN out' : IsLine(out'[k]) /\ out'[k].data <= written
  BY <1>2, <1>3
<1>7. Replayed'
  BY <1>1, <1>5, <1>6 DEF Replayed, NoSkip
<1>8. LogsInv'
  BY <1>1 DEF GapInv, LogsInv
<1>. QED
  BY <1>1, <1>4, <1>5, <1>7, <1>8 DEF GapInv

LEMMA CheckGap ==
  ASSUME TypeOK, GapInv, Check
  PROVE  GapInv'
<1>1. /\ UNCHANGED <<logs, written, channel>> /\ gen = "check" /\ Replayed
      /\ \/ gen' = "done" /\ out' = Append(out, State(status))
         \/ gen' = "subscribe" /\ UNCHANGED out
  BY DEF Check, workerVars, GapInv
<1>2. LogsInv'
  BY <1>1 DEF GapInv, LogsInv
<1>3. CASE gen' = "subscribe" /\ UNCHANGED out
  BY <1>1, <1>2, <1>3 DEF GapInv, Increasing, Skips, Replayed, NoSkip
<1>4. CASE gen' = "done" /\ out' = Append(out, State(status))
  <2>1. State(status) \in Message /\ ~IsLine(State(status))
    BY StateIsMessage DEF TypeOK
  <2>2. Increasing(out')
    BY <1>4, <2>1, SentStatus DEF GapInv
  <2>3. /\ DOMAIN out' = 1..(Len(out) + 1) /\ DOMAIN out = 1..Len(out) /\ Len(out) \in Nat
        /\ \A k \in 1..Len(out) : Skips(k)' = Skips(k)
        /\ \A k : k = Len(out) + 1 => ~Skips(k)'
    BY <1>4, <2>1, SentStatus, SentMore
  <2>4. \A k \in DOMAIN out' : ~Skips(k)'
    BY <1>1, <2>3 DEF Replayed, NoSkip
  <2>. QED
    BY <1>2, <1>4, <2>2, <2>4 DEF GapInv
<1>. QED
  BY <1>1, <1>3, <1>4

LEMMA SubscribeGap ==
  ASSUME TypeOK, GapInv, Subscribe
  PROVE  GapInv'
<1>1. /\ UNCHANGED <<logs, written, channel, out>> /\ gen = "subscribe" /\ gen' = "listen"
      /\ Replayed /\ channel = <<>> /\ written \in Nat
  BY DEF Subscribe, workerVars, GapInv, TypeOK
<1>2. Increasing(channel') /\ \A n \in Nat : ~Carries(channel', n)
  BY <1>1 DEF Increasing, Carries
<1>3. \A x : x = written => Meets(x)'
  BY <1>1, <1>2 DEF Meets, Replayed, NoSkip, Skips
<1>4. (\E x \in 0..written : Meets(x))'
  BY <1>1, <1>3
<1>. QED
  BY <1>1, <1>4 DEF GapInv, LogsInv, Increasing, Skips

\* A status is forwarded.
LEMMA ForwardStatusGap ==
  ASSUME TypeOK, GapInv, Forward, ~IsLine(Head(channel))
  PROVE  GapInv'
<1> DEFINE m == Head(channel)
<1>1. /\ UNCHANGED <<logs, written>> /\ gen = "listen" /\ channel # <<>>
      /\ out' = Append(out, m)
      /\ \/ gen' = "done"
         \/ gen' = "listen" /\ channel' = Tail(channel)
  BY DEF Forward, workerVars
<1>2. m \in Message
  BY <1>1, Shrinks DEF TypeOK
<1>3. PICK lo \in 0..written : Meets(lo)
  BY <1>1 DEF GapInv
<1>4. /\ Increasing(Tail(channel))
      /\ \A n \in Nat : Carries(Tail(channel), n) <=> n \in (lo + 1)..written
  BY <1>1, <1>3, ReadOne
<1> HIDE DEF m
<1>5. ~IsLine(m)
  BY DEF m
<1>6. /\ Increasing(out') /\ \A k : k = Len(out) + 1 => ~Skips(k)'
      /\ \A k \in DOMAIN out' : IsLine(out'[k]) => k \in DOMAIN out /\ out'[k] = out[k]
      /\ \A n \in Nat : Carries(out, n) => Carries(out', n)
  BY <1>1, <1>2, <1>5, SentStatus DEF GapInv
<1>7. /\ DOMAIN out = 1..Len(out) /\ DOMAIN out' = 1..(Len(out) + 1) /\ Len(out) \in Nat
      /\ \A k \in 1..Len(out) : Skips(k)' = Skips(k)
  BY <1>1, <1>2, SentMore
<1>8. \A k \in DOMAIN out' : Skips(k)' => k \in DOMAIN out /\ Skips(k)
  BY <1>6, <1>7
<1>9. \A k, l \in DOMAIN out' : Skips(k)' /\ Skips(l)' => k = l
  BY <1>8 DEF GapInv
<1>10. LogsInv'
  BY <1>1 DEF GapInv, LogsInv
<1>11. CASE gen' = "done"
  BY <1>6, <1>9, <1>10, <1>11 DEF GapInv
<1>12. CASE gen' = "listen" /\ channel' = Tail(channel)
  <2>1. NoSkip => NoSkip'
    BY <1>8 DEF NoSkip
  <2>2. \A x : x = lo => Meets(x)'
    BY <1>1, <1>3, <1>4, <1>6, <1>12, <2>1 DEF Meets
  <2>3. (\E x \in 0..written : Meets(x))'
    BY <1>1, <1>3, <2>2
  <2>. QED
    BY <1>6, <1>9, <1>10, <1>12, <2>3 DEF GapInv
<1>. QED
  BY <1>1, <1>11, <1>12

\* A line is forwarded: lo + 1.  It leaves a gap only if lo was not sent, and
\* then there was none before.
LEMMA ForwardLineGap ==
  ASSUME TypeOK, GapInv, Forward, IsLine(Head(channel))
  PROVE  GapInv'
<1> DEFINE m == Head(channel)
<1>1. /\ UNCHANGED <<logs, written>> /\ gen = "listen" /\ gen' = "listen" /\ channel # <<>>
      /\ out' = Append(out, m) /\ channel' = Tail(channel)
  BY DEF Forward, workerVars, IsLine
<1>2. m \in Message
  BY <1>1, Shrinks DEF TypeOK
<1>3. PICK lo \in 0..written : Meets(lo)
  BY <1>1 DEF GapInv
<1>4. /\ m.data = lo + 1 /\ lo + 1 <= written /\ IsLine(m)
      /\ Increasing(Tail(channel))
      /\ \A n \in Nat : Carries(Tail(channel), n) <=> n \in (lo + 2)..written
  BY <1>1, <1>3, ReadOne, NextLine
<1> HIDE DEF m
<1>5. written \in Nat /\ lo \in Nat
  BY <1>3 DEF TypeOK
<1>6. /\ DOMAIN out = 1..Len(out) /\ DOMAIN out' = 1..(Len(out) + 1) /\ Len(out) \in Nat
      /\ \A k \in 1..Len(out) : out'[k] = out[k] /\ out[k] \in Message /\ Skips(k)' = Skips(k)
      /\ out'[Len(out) + 1] = m
  BY <1>1, <1>2, SentMore
<1>7. \A k \in 1..Len(out) : IsLine(out[k]) => out[k].data \in Nat /\ out[k].data <= lo
  BY <1>3, <1>6, MessageKinds DEF Meets
<1>8. Increasing(out')
  <2> SUFFICES ASSUME NEW k \in DOMAIN out', NEW l \in DOMAIN out', k < l,
                      IsLine(out'[k]), IsLine(out'[l])
               PROVE  out'[k].data < out'[l].data
    BY DEF Increasing
  <2>1. k \in 1..Len(out) /\ out'[k] = out[k]
    BY <1>6
  <2>2. CASE l = Len(out) + 1
    <3>1. out[k].data \in Nat /\ out[k].data <= lo
      BY <1>7, <2>1
    <3>. QED
      BY <1>4, <1>5, <1>6, <2>1, <2>2, <3>1
  <2>3. CASE l \in 1..Len(out)
    BY <1>6, <2>1, <2>3 DEF GapInv, Increasing
  <2>. QED
    BY <1>6, <2>2, <2>3
<1>9. \A k : k = Len(out) + 1 /\ Skips(k)' => ~Carries(out, lo)
  <2> SUFFICES ASSUME NEW k, k = Len(out) + 1, Skips(k)', NEW l \in DOMAIN out,
                      IsLine(out[l]), out[l].data = lo
               PROVE  FALSE
    BY DEF Carries
  <2>1. l \in 1..(k - 1) /\ IsLine(out'[l]) /\ out'[l].data + 1 = out'[k].data
    BY <1>4, <1>6
  <2>. QED
    BY <2>1 DEF Skips
<1>10. \A k \in DOMAIN out' : Skips(k)' =>
         (k \in DOMAIN out /\ Skips(k)) \/ (k = Len(out) + 1 /\ NoSkip)
  BY <1>3, <1>6, <1>9 DEF Meets
<1>11. \A k, l \in DOMAIN out' : Skips(k)' /\ Skips(l)' => k = l
  BY <1>10 DEF GapInv, NoSkip
<1>12. \A x : x = lo + 1 => Carries(out', x)
  BY <1>4, <1>6 DEF Carries
<1>13. \A k \in DOMAIN out' : IsLine(out'[k]) => out'[k].data <= lo + 1
  <2> SUFFICES ASSUME NEW k \in DOMAIN out', IsLine(out'[k]) PROVE out'[k].data <= lo + 1
    OBVIOUS
  <2>1. CASE k = Len(out) + 1
    BY <1>4, <1>5, <1>6, <2>1
  <2>2. CASE k \in 1..Len(out)
    <3>1. out'[k].data \in Nat /\ out'[k].data <= lo
      BY <1>6, <1>7, <2>2
    <3>. QED
      BY <1>5, <3>1
  <2>. QED
    BY <1>6, <2>1, <2>2
<1>14. \A x : x = lo + 1 => Meets(x)'
  <2> SUFFICES ASSUME NEW x, x = lo + 1 PROVE Meets(x)'
    OBVIOUS
  <2>1. Increasing(channel') /\ \A n \in Nat : Carries(channel', n) <=> n \in (x + 1)..written'
    BY <1>1, <1>4, <1>5
  <2>2. Carries(out', x) /\ \A k \in DOMAIN out' : IsLine(out'[k]) => out'[k].data <= x
    BY <1>12, <1>13
  <2>. QED
    BY <2>1, <2>2 DEF Meets
<1>15. (\E x \in 0..written : Meets(x))'
  <2>1. lo + 1 \in 0..written
    BY <1>4, <1>5
  <2>. QED
    BY <1>1, <1>14, <2>1
<1>16. LogsInv'
  BY <1>1 DEF GapInv, LogsInv
<1>. QED
  BY <1>1, <1>8, <1>11, <1>15, <1>16 DEF GapInv

LEMMA NextGap == TypeOK /\ GapInv /\ [Next]_streamVars => GapInv'
<1> SUFFICES ASSUME TypeOK, GapInv, [Next]_streamVars PROVE GapInv'
  OBVIOUS
<1>1. ASSUME UNCHANGED <<logs, written, channel, out, gen>> PROVE GapInv'
  BY <1>1 DEF GapInv, LogsInv, Increasing, Skips, Replayed, NoSkip, Meets, Carries
<1>2. CASE Run \/ (\E s \in Status : Finish(s)) \/ Requeue \/ PublishFails
  BY <1>1, <1>2 DEF Run, Finish, Requeue, Write, PublishFails
<1>3. CASE Open
  <2>1. /\ UNCHANGED <<logs, written, channel, out>> /\ gen' \in {"replay", "check"}
        /\ out = <<>>
    BY <1>3 DEF Open, workerVars, GapInv
  <2>2. NoSkip' /\ Increasing(out') /\ \A k \in DOMAIN out' : FALSE
    BY <2>1 DEF NoSkip, Increasing
  <2>. QED
    BY <2>1, <2>2 DEF GapInv, LogsInv, Replayed
<1>4. CASE Forward
  BY <1>4, ForwardLineGap, ForwardStatusGap
<1>5. CASE UNCHANGED streamVars
  BY <1>1, <1>5 DEF streamVars
<1>. QED
  BY <1>2, <1>3, <1>4, <1>5, AppendLogGap, PublishStatusGap, ReplayGap, CheckGap, SubscribeGap
     DEF Next, WorkerNext, Generate, Status

\* "replays the existing log buffer first, then subscribes"
\* (docs/PRODUCTION.md:156): no line reaches the client twice or out of order,
\* and lines are missing at one point at most.  The invariant says what is on
\* its way: the lines from some point on to the last one written, that point
\* being beyond everything the client has and, once it has seen a gap, sent.
THEOREM OneGapOnly == Spec => []OneGap
<1>1. TypeOK /\ GapInv => OneGap
  BY DEF GapInv, OneGap, Increasing
<1>. QED
  BY <1>1, InitTypes, NextTypes, InitGap, NextGap, PTL DEF Spec

-----------------------------------------------------------------------------
(* The status the client has been told *)

OnlyLines(s) == \A k \in DOMAIN s : IsLine(s[k])

\* The last status among the messages s is v.
Tells(s, v) == \A k \in DOMAIN s : Newest(s, k) => s[k].data = v

\* Once the last status is published it is the last on its way to the client,
\* or nothing is on its way and the client has it.  One that could not be
\* published leaves that open until the next is.
StatusInv ==
    /\ gen \in {"closed", "replay", "check", "subscribe"} => OnlyLines(out)
    /\ gen = "listen" /\ unsent = Nothing /\ ~lost =>
           /\ Tells(channel, status)
           /\ OnlyLines(channel) => Tells(out, status)

\* A line does not change what a sequence tells, a status does.
LEMMA TellsMore ==
  ASSUME NEW s \in Seq(Message), NEW m \in Message, NEW v
  PROVE  /\ IsLine(m) /\ Tells(s, v) => Tells(Append(s, m), v)
         /\ ~IsLine(m) /\ m.data = v => Tells(Append(s, m), v)
         /\ OnlyLines(Append(s, m)) <=> OnlyLines(s) /\ IsLine(m)
<1> DEFINE t == Append(s, m)
<1>1. /\ Len(s) \in Nat /\ DOMAIN s = 1..Len(s) /\ DOMAIN t = 1..(Len(s) + 1)
      /\ \A k \in 1..Len(s) : t[k] = s[k]
      /\ t[Len(s) + 1] = m
  BY Grows
<1> HIDE DEF t
<1>2. OnlyLines(t) <=> OnlyLines(s) /\ IsLine(m)
  <2>1. Len(s) + 1 \in DOMAIN t
    BY <1>1
  <2>. QED
    BY <1>1, <2>1 DEF OnlyLines
<1>3. ASSUME IsLine(m), Tells(s, v) PROVE Tells(t, v)
  <2> SUFFICES ASSUME NEW k \in DOMAIN t, Newest(t, k) PROVE t[k].data = v
    BY DEF Tells
  <2>1. k \in DOMAIN s /\ t[k] = s[k]
    BY <1>1, <1>3 DEF Newest
  <2>2. Newest(s, k)
    BY <1>1, <2>1 DEF Newest
  <2>. QED
    BY <1>3, <2>1, <2>2 DEF Tells
<1>4. ASSUME ~IsLine(m), m.data = v PROVE Tells(t, v)
  <2> SUFFICES ASSUME NEW k \in DOMAIN t, Newest(t, k) PROVE t[k].data = v
    BY DEF Tells
  <2>1. k = Len(s) + 1
    BY <1>1, <1>4 DEF Newest
  <2>. QED
    BY <1>1, <1>4, <2>1
<1>. QED
  BY <1>2, <1>3, <1>4 DEF t

\* Without its first message a sequence tells the same, unless it tells nothing.
LEMMA TellsLess ==
  ASSUME NEW s \in Seq(Message), s # <<>>, NEW v, Tells(s, v)
  PROVE  /\ Tells(Tail(s), v)
         /\ OnlyLines(Tail(s)) /\ ~IsLine(Head(s)) => Head(s).data = v
         /\ OnlyLines(Tail(s)) /\ IsLine(Head(s)) => OnlyLines(s)
<1> DEFINE t == Tail(s)
<1>1. /\ Len(s) \in Nat \ {0} /\ Head(s) = s[1]
      /\ DOMAIN s = 1..Len(s) /\ DOMAIN t = 1..(Len(s) - 1)
      /\ \A k \in 1..(Len(s) - 1) : t[k] = s[k + 1]
  BY Shrinks
<1> HIDE DEF t
<1>2. \A k \in DOMAIN s : k = 1 \/ (k - 1 \in DOMAIN t /\ t[k - 1] = s[k])
  BY <1>1
<1>3. Tells(t, v)
  <2> SUFFICES ASSUME NEW k \in DOMAIN t, Newest(t, k) PROVE t[k].data = v
    BY DEF Tells
  <2>1. k + 1 \in DOMAIN s /\ s[k + 1] = t[k]
    BY <1>1
  <2>2. Newest(s, k + 1)
    <3> SUFFICES ASSUME NEW l \in DOMAIN s, l > k + 1 PROVE IsLine(s[l])
      BY <2>1 DEF Newest
    <3>1. l - 1 \in DOMAIN t /\ t[l - 1] = s[l] /\ l - 1 > k
      BY <1>1, <1>2
    <3>. QED
      BY <3>1 DEF Newest
  <2>. QED
    BY <2>1, <2>2 DEF Tells
<1>4. OnlyLines(t) /\ ~IsLine(s[1]) => s[1].data = v
  <2> SUFFICES ASSUME OnlyLines(t), ~IsLine(s[1]) PROVE s[1].data = v
    OBVIOUS
  <2>1. 1 \in DOMAIN s /\ Newest(s, 1)
    BY <1>1, <1>2 DEF Newest, OnlyLines
  <2>. QED
    BY <2>1 DEF Tells
<1>5. OnlyLines(t) /\ IsLine(s[1]) => OnlyLines(s)
  BY <1>2 DEF OnlyLines
<1>. QED
  BY <1>1, <1>3, <1>4, <1>5 DEF t

LEMMA InitStatus == Init => StatusInv
  BY DEF Init, StatusInv, OnlyLines

LEMMA NextStatus == TypeOK /\ StatusInv /\ [Next]_streamVars => StatusInv'
<1> SUFFICES ASSUME TypeOK, StatusInv, [Next]_streamVars PROVE StatusInv'
  OBVIOUS
<1>1. ASSUME NEW s \in Status, Write(s) PROVE StatusInv'
  <2>1. unsent' # Nothing /\ UNCHANGED <<gen, out>>
    BY <1>1 DEF Write, Status, Nothing
  <2>. QED
    BY <2>1 DEF StatusInv
<1>2. CASE Run \/ (\E s \in Status : Finish(s)) \/ Requeue
  BY <1>1, <1>2 DEF Run, Finish, Requeue, Status
<1>3. CASE PublishStatus
  <2>1. /\ UNCHANGED <<status, gen, out>> /\ unsent = status /\ status \in Status
        /\ Publish(State(status))
    BY <1>3 DEF PublishStatus, TypeOK
  <2>2. CASE gen = "listen"
    <3>1. State(status) \in Message /\ ~IsLine(State(status)) /\ State(status).data = status
      BY <2>1, StateIsMessage
    <3>2. channel' = Append(channel, State(status)) /\ channel \in Seq(Message)
      BY <2>1, <2>2 DEF Publish, TypeOK
    <3>3. Tells(channel', status) /\ ~OnlyLines(channel')
      BY <3>1, <3>2, TellsMore
    <3>. QED
      BY <2>1, <2>2, <3>3 DEF StatusInv
  <2>3. CASE gen # "listen"
    BY <2>1, <2>3 DEF StatusInv
  <2>. QED
    BY <2>2, <2>3
<1>4. CASE AppendLog
  <2>1. UNCHANGED <<status, unsent, lost, gen, out>> /\ Line(written + 1) \in Message
        /\ IsLine(Line(written + 1)) /\ Publish(Line(written + 1))
    BY <1>4, LineIsMessage DEF AppendLog, TypeOK
  <2>2. CASE gen = "listen"
    <3>1. channel' = Append(channel, Line(written + 1)) /\ channel \in Seq(Message)
      BY <2>1, <2>2 DEF Publish, TypeOK
    <3>2. /\ Tells(channel, status) => Tells(channel', status)
          /\ OnlyLines(channel') => OnlyLines(channel)
      BY <2>1, <3>1, TellsMore
    <3>. QED
      BY <2>1, <2>2, <3>2 DEF StatusInv
  <2>3. CASE gen # "listen"
    BY <2>1, <2>3 DEF StatusInv
  <2>. QED
    BY <2>2, <2>3
<1>5. CASE Open
  <2>1. gen = "closed" /\ gen' \in {"replay", "check"} /\ UNCHANGED out
    BY <1>5 DEF Open
  <2>. QED
    BY <2>1 DEF StatusInv
<1>6. CASE Replay
  <2>1. gen' = "check" /\ OnlyLines(out')
    BY <1>6 DEF Replay, OnlyLines, Line, IsLine
  <2>. QED
    BY <2>1 DEF StatusInv
<1>7. CASE Check
  <2>1. gen = "check" /\ (gen' = "done" \/ (gen' = "subscribe" /\ UNCHANGED out))
    BY <1>7 DEF Check
  <2>. QED
    BY <2>1 DEF StatusInv
<1>8. CASE Subscribe
  <2>1. gen = "subscribe" /\ gen' = "listen" /\ channel' = <<>> /\ UNCHANGED <<out, status, lost>>
    BY <1>8 DEF Subscribe, workerVars, TypeOK
  <2>2. Tells(channel', status') /\ Tells(out', status')
    BY <2>1 DEF StatusInv, Tells, OnlyLines, Newest
  <2>. QED
    BY <2>1, <2>2 DEF StatusInv
<1>9. CASE Forward
  <2> DEFINE m == Head(channel)
  <2>1. /\ UNCHANGED <<status, unsent, lost>> /\ gen = "listen" /\ channel # <<>>
        /\ out' = Append(out, m)
        /\ \/ gen' = "done"
           \/ gen' = "listen" /\ channel' = Tail(channel)
    BY <1>9 DEF Forward, workerVars
  <2>2. channel \in Seq(Message) /\ out \in Seq(Message) /\ m \in Message
    BY <2>1, Shrinks DEF TypeOK
  <2>3. CASE gen' = "done" \/ unsent # Nothing \/ lost
    BY <2>1, <2>3 DEF StatusInv
  <2>4. CASE gen' = "listen" /\ channel' = Tail(channel) /\ unsent = Nothing /\ ~lost
    <3>1. Tells(channel, status) /\ (OnlyLines(channel) => Tells(out, status))
      BY <2>1, <2>4 DEF StatusInv
    <3>2. /\ Tells(channel', status)
          /\ OnlyLines(channel') /\ ~IsLine(m) => m.data = status
          /\ OnlyLines(channel') /\ IsLine(m) => OnlyLines(channel)
      BY <2>1, <2>2, <2>4, <3>1, TellsLess
    <3> HIDE DEF m
    <3>3. OnlyLines(channel') => Tells(out', status)
      BY <2>1, <2>2, <3>1, <3>2, TellsMore
    <3>. QED
      BY <2>1, <2>4, <3>2, <3>3 DEF StatusInv
  <2>. QED
    BY <2>1, <2>3, <2>4
<1>10. CASE UNCHANGED streamVars
  <2>1. UNCHANGED <<gen, out, status, unsent, lost, channel>>
    BY <1>10 DEF streamVars
  <2>. QED
    BY <2>1 DEF StatusInv
<1>11. CASE PublishFails
  <2>1. lost' /\ UNCHANGED <<gen, out>>
    BY <1>11 DEF PublishFails
  <2>. QED
    BY <2>1 DEF StatusInv
<1>. QED
  BY <1>2, <1>3, <1>4, <1>5, <1>6, <1>7, <1>8, <1>9, <1>10, <1>11
     DEF Next, WorkerNext, Generate, Status

\* "status - on every transition" (docs/PRODUCTION.md:150): a client that has
\* read everything and has been told a status at all has been told the one in
\* the hash, unless the last PUBLISH of a status failed.  The invariant carries
\* the status through the channel and past failures that were repaired.
THEOREM StatusIsCurrent == Spec => []StatusCurrent
<1>1. TypeOK /\ StatusInv => StatusCurrent
  BY DEF StatusInv, StatusCurrent, OnlyLines, Tells
<1>. QED
  BY <1>1, InitTypes, NextTypes, InitStatus, NextStatus, PTL DEF Spec

=============================================================================
