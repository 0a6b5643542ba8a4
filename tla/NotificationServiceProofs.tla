---------------------- MODULE NotificationServiceProofs ----------------------
(***************************************************************************)
(* For any number of messages, outages, crashes and SMTP failures, the     *)
(* notification process loses no mail, sends no mail twice without a       *)
(* reason and keeps to one connection.  IInv is inductive: every delivery  *)
(* is in the hands of one consumer at most, the broker knows of it exactly *)
(* as long as its channel lives, and every step of its handling vouches    *)
(* for what was done before.                                               *)
(***************************************************************************)
EXTENDS NotificationService, TLAPS

USE ConnectionAssumption, ServiceAssumption

-----------------------------------------------------------------------------
(* Sequences.                                                              *)

LEMMA EmptyFacts == ToSet(<< >>) = {} /\ IsInjective(<< >>)
  BY DEF ToSet, IsInjective

LEMMA AppendFacts ==
  ASSUME NEW S, NEW s \in Seq(S), NEW x \in S
  PROVE  /\ Append(s, x) \in Seq(S)
         /\ ToSet(Append(s, x)) = ToSet(s) \cup {x}
         /\ IsInjective(s) /\ x \notin ToSet(s) => IsInjective(Append(s, x))
<1>1. /\ Append(s, x) \in Seq(S) /\ Len(Append(s, x)) = Len(s) + 1
      /\ \A i \in 1..Len(s) : Append(s, x)[i] = s[i]
      /\ Append(s, x)[Len(s) + 1] = x
  OBVIOUS
<1>2. DOMAIN s = 1..Len(s) /\ DOMAIN Append(s, x) = 1..(Len(s) + 1) /\ Len(s) \in Nat
  OBVIOUS
<1>3. ToSet(Append(s, x)) = ToSet(s) \cup {x}
  <2>1. \A i \in 1..(Len(s) + 1) : i \in 1..Len(s) \/ i = Len(s) + 1
    BY <1>2
  <2>2. 1..Len(s) \subseteq 1..(Len(s) + 1) /\ Len(s) + 1 \in 1..(Len(s) + 1)
    BY <1>2
  <2> QED
    BY <1>1, <1>2, <2>1, <2>2, Zenon DEF ToSet
<1>4. ASSUME IsInjective(s), x \notin ToSet(s) PROVE IsInjective(Append(s, x))
  BY <1>1, <1>2, <1>4 DEF ToSet, IsInjective
<1> QED
  BY <1>1, <1>3, <1>4

LEMMA TailFacts ==
  ASSUME NEW S, NEW s \in Seq(S), s # << >>
  PROVE  /\ Head(s) \in S /\ Head(s) \in ToSet(s) /\ Tail(s) \in Seq(S)
         /\ ToSet(s) = ToSet(Tail(s)) \cup {Head(s)}
         /\ IsInjective(s) => IsInjective(Tail(s)) /\ Head(s) \notin ToSet(Tail(s))
<1>1. /\ Len(s) >= 1 /\ Head(s) \in S /\ Head(s) = s[1]
      /\ Tail(s) \in Seq(S) /\ Len(Tail(s)) = Len(s) - 1
      /\ \A i \in 1..(Len(s) - 1) : Tail(s)[i] = s[i + 1]
  OBVIOUS
<1>2. DOMAIN s = 1..Len(s) /\ DOMAIN Tail(s) = 1..(Len(s) - 1) /\ Len(s) \in Nat
  BY <1>1
<1>3. ToSet(s) = ToSet(Tail(s)) \cup {Head(s)}
  <2>1. \A i \in 1..Len(s) : i = 1 \/ (i - 1 \in 1..(Len(s) - 1) /\ Tail(s)[i - 1] = s[i])
    BY <1>1, <1>2
  <2>2. \A i \in 1..(Len(s) - 1) : i + 1 \in 1..Len(s)
    BY <1>2
  <2>3. 1 \in 1..Len(s)
    BY <1>1, <1>2
  <2>4. Head(s) \in ToSet(s)
    BY <1>1, <1>2, <2>3, Zenon DEF ToSet
  <2>5. ASSUME NEW x \in ToSet(Tail(s)) PROVE x \in ToSet(s)
    <3>1. PICK i \in 1..(Len(s) - 1) : x = Tail(s)[i]
      BY <1>2, Zenon DEF ToSet
    <3>2. i + 1 \in DOMAIN s /\ x = s[i + 1]
      BY <1>1, <1>2, <2>2, <3>1
    <3> QED
      BY <3>2, Zenon DEF ToSet
  <2>6. ASSUME NEW x \in ToSet(s) PROVE x = Head(s) \/ x \in ToSet(Tail(s))
    <3>1. PICK i \in 1..Len(s) : x = s[i]
      BY <1>2, Zenon DEF ToSet
    <3>2. CASE i = 1
      BY <1>1, <3>1, <3>2
    <3>3. CASE i # 1
      <4>1. i - 1 \in DOMAIN Tail(s) /\ x = Tail(s)[i - 1]
        BY <1>2, <2>1, <3>1, <3>3
      <4> QED
        BY <4>1, Zenon DEF ToSet
    <3> QED
      BY <3>2, <3>3
  <2> QED
    BY <2>4, <2>5, <2>6
<1>4. ASSUME IsInjective(s) PROVE IsInjective(Tail(s)) /\ Head(s) \notin ToSet(Tail(s))
  BY <1>1, <1>2, <1>4 DEF ToSet, IsInjective
<1>5. Head(s) \in ToSet(s)
  BY <1>3
<1> QED
  BY <1>1, <1>3, <1>4, <1>5

-----------------------------------------------------------------------------
(* The connection.                                                         *)

\* What a step may do to the connection.
ConnStep ==
  \/ \E g \in Goroutines : Ask(g) \/ Lock(g) \/ Dial(g) \/ Opened(g) \/ OpenFailed(g)
  \/ Outage \/ BrokerReturns \/ ConnEnds
  \/ ConnStarts /\ \A g \in Goroutines : call[g] = "none"
  \/ UNCHANGED connVars

LEMMA ConnStepKeeps == ASSUME ConnInv, ConnStep PROVE ConnInv'
<1> USE DEF ConnInv, ConnTypeOK, OneConnection
<1>1. ASSUME NEW g \in Goroutines, Ask(g) PROVE ConnInv'
  BY <1>1 DEF Ask
<1>2. ASSUME NEW g \in Goroutines, Lock(g) PROVE ConnInv'
  BY <1>2 DEF Lock
<1>3. ASSUME NEW g \in Goroutines, Dial(g) PROVE ConnInv'
  <2>1. links = 0 /\ mutex = g
    BY <1>3 DEF Dial
  <2>2. QED
    BY <1>3, <2>1 DEF Dial
<1>4. ASSUME NEW g \in Goroutines, Opened(g) \/ OpenFailed(g) PROVE ConnInv'
  BY <1>4 DEF Opened, OpenFailed, Unlock
<1>5. ASSUME Outage \/ BrokerReturns PROVE ConnInv'
  BY <1>5 DEF Outage, BrokerReturns
<1>6. ASSUME ConnEnds \/ (ConnStarts /\ \A g \in Goroutines : call[g] = "none") PROVE ConnInv'
  BY <1>6 DEF ConnEnds, ConnStarts
<1>7. CASE UNCHANGED connVars
  BY <1>7 DEF connVars
<1> QED
  BY <1>1, <1>2, <1>3, <1>4, <1>5, <1>6, <1>7 DEF ConnStep

LEMMA NextConnection == ASSUME IInv, [Next]_vars PROVE ConnInv' /\ NobodyLeft'
<1> USE DEF IInv, NobodyLeft, Running
<1>1. ASSUME NEW g \in Goroutines,
             CallChannel(g) \/ LockConnection(g) \/ Redial(g) \/ ChannelOpens(g)
             \/ ChannelFails(g) \/ ReplyPublished(g) \/ ReplyFails(g)
      PROVE  ConnStep /\ UNCHANGED process
  BY <1>1 DEF ConnStep, CallChannel, LockConnection, Redial, ChannelOpens, ChannelFails,
              ReplyPublished, ReplyFails
<1>2. ASSUME NEW g \in Goroutines, Take(g) \/ Leave(g) \/ StartAgain(g) \/ Settle(g) \/ Smtp(g)
      PROVE  UNCHANGED <<connVars, process>>
  BY <1>2 DEF Take, Leave, StartAgain, Settle, Smtp, SmtpAccepts, SmtpBreaks, SmtpRefuses,
              LoginRefused
<1>3. ASSUME NEW m \in Mail, Push(m) PROVE UNCHANGED <<connVars, process>>
  BY <1>3 DEF Push
<1>4. ASSUME Exit \/ Crash PROVE ConnEnds
  BY <1>4 DEF Exit, Crash, End
<1>5. ASSUME ConnEnds PROVE \A g \in Goroutines : call'[g] = "none"
  BY <1>5 DEF ConnEnds
<1>6. ASSUME LinkLost \/ BrokerBack PROVE (Outage \/ BrokerReturns) /\ UNCHANGED <<process, call>>
  BY <1>6 DEF LinkLost, BrokerBack, Outage, BrokerReturns
<1>7. CASE Stop
  BY <1>7, ConnStepKeeps DEF Stop, ConnStep
<1>8. CASE Restart
  BY <1>8, ConnStepKeeps DEF Restart, ConnStep
<1>9. CASE UNCHANGED vars
  BY <1>9, ConnStepKeeps DEF vars, connVars, ConnStep
<1>10. CASE \E g \in Goroutines : Code(g) \/ Smtp(g)
  <2>1. PICK g \in Goroutines : Code(g) \/ Smtp(g)
    BY <1>10
  <2>2. ConnStep /\ UNCHANGED process /\ Running
    BY <2>1, <1>1, <1>2 DEF Code, Smtp, ConnStep
  <2>3. QED
    BY <2>2, ConnStepKeeps
<1>11. CASE \E m \in Mail : Push(m)
  BY <1>11, <1>3, ConnStepKeeps DEF ConnStep, connVars
<1>12. CASE LinkLost \/ BrokerBack
  BY <1>12, <1>6, ConnStepKeeps DEF ConnStep
<1>13. CASE Exit \/ Crash
  BY <1>13, <1>4, <1>5, ConnStepKeeps DEF ConnStep
<1> QED
  BY <1>7, <1>8, <1>9, <1>10, <1>11, <1>12, <1>13 DEF Next

-----------------------------------------------------------------------------
(* What the steps of the process change.                                   *)

data == <<place, inbox, at, live, holds, mailed, replied, excused, breaks>>

LEMMA Aside ==
  ASSUME \/ \E g \in Goroutines : CallChannel(g) \/ LockConnection(g) \/ Redial(g)
         \/ BrokerBack \/ Stop \/ Restart \/ UNCHANGED vars
  PROVE  UNCHANGED data
  BY DEF CallChannel, LockConnection, Redial, BrokerBack, Stop, Restart, vars, data,
         brokerVars, history

\* The steps that move a goroutine along and leave its deliveries alone.
Moves(g) ==
  \/ ChannelOpens(g) \/ ChannelFails(g) \/ StartAgain(g)
  \/ (\E m \in Mail : SmtpAccepts(g, m)) \/ SmtpBreaks(g) \/ SmtpRefuses(g) \/ LoginRefused(g)
  \/ ReplyPublished(g) \/ ReplyFails(g)

LEMMA NextCases ==
  ASSUME [Next]_vars
  PROVE  \/ UNCHANGED data
         \/ \E g \in Goroutines : Moves(g) \/ Take(g) \/ Leave(g) \/ Settle(g)
         \/ \E m \in Mail : Push(m)
         \/ LinkLost \/ Exit \/ Crash
  BY Aside DEF Next, Code, Smtp, Moves

LEMMA NextProcess ==
  ASSUME IInv, [Next]_vars
  PROVE  /\ process' \in {"running", "stopping", "stopped", "crashed"}
         /\ ends' \in 0..MaxEnds
         /\ EndIsDue'
<1> USE DEF IInv, TypeOK, EndIsDue
<1>1. ASSUME NEW g \in Goroutines, Code(g) \/ Smtp(g) PROVE UNCHANGED <<process, ends>>
  BY <1>1 DEF Code, Smtp, CallChannel, LockConnection, Redial, ChannelOpens, ChannelFails, Take,
              Leave, StartAgain, ReplyPublished, ReplyFails, Settle, SmtpAccepts, SmtpBreaks,
              SmtpRefuses, LoginRefused
<1>2. ASSUME (\E m \in Mail : Push(m)) \/ LinkLost \/ BrokerBack \/ UNCHANGED vars
      PROVE  UNCHANGED <<process, ends>>
  BY <1>2 DEF Push, LinkLost, BrokerBack, vars
<1>3. ASSUME Stop \/ Exit \/ Crash \/ Restart
      PROVE  /\ process' \in {"running", "stopping", "stopped", "crashed"}
             /\ ends' \in 0..MaxEnds
             /\ EndIsDue'
  BY <1>3 DEF Stop, Exit, Crash, Restart, End
<1> QED
  BY <1>1, <1>2, <1>3 DEF Next

LEMMA NextTypes == ASSUME IInv, [Next]_vars PROVE TypeOK'
<1> USE DEF IInv, TypeOK
<1>1. ConnTypeOK'
  BY NextConnection DEF ConnInv
<1>2. process' \in {"running", "stopping", "stopped", "crashed"} /\ ends' \in 0..MaxEnds
  BY NextProcess
<1>3. CASE UNCHANGED data
  BY <1>1, <1>2, <1>3 DEF data
<1>4. ASSUME NEW g \in Goroutines, Moves(g) PROVE TypeOK'
  <2> USE <1>1, <1>2 DEF Go, Steps, Handling
  <2>1. ASSUME ChannelOpens(g) PROVE TypeOK'
    BY <2>1 DEF ChannelOpens, brokerVars, history
  <2>2. ASSUME ChannelFails(g) PROVE TypeOK'
    BY <2>2 DEF ChannelFails, brokerVars, history
  <2>3. ASSUME StartAgain(g) PROVE TypeOK'
    BY <2>3 DEF StartAgain, brokerVars, history
  <2>4. ASSUME NEW m \in Mail, SmtpAccepts(g, m) PROVE TypeOK'
    BY <2>4 DEF SmtpAccepts, brokerVars
  <2>5. ASSUME SmtpBreaks(g) PROVE TypeOK'
    <3>1. holds[g] \in Mail /\ breaks + 1 \in 0..MaxBreaks
      BY <2>5 DEF SmtpBreaks
    <3>2. mailed' \in [Mail -> Nat] /\ excused' \in [Mail -> Nat] /\ breaks' \in 0..MaxBreaks
      BY <2>5, <3>1 DEF SmtpBreaks
    <3> QED
      BY <2>5, <3>1, <3>2 DEF SmtpBreaks, brokerVars
  <2>6. ASSUME SmtpRefuses(g) \/ LoginRefused(g) PROVE TypeOK'
    BY <2>6 DEF SmtpRefuses, LoginRefused, brokerVars, history
  <2>7. ASSUME ReplyFails(g) PROVE TypeOK'
    BY <2>7 DEF ReplyFails, brokerVars
  <2>8. ASSUME ReplyPublished(g) PROVE TypeOK'
    <3>1. holds[g] \in Mail
      BY <2>8 DEF ReplyPublished
    <3>2. replied' \in [Mail -> SUBSET {"success", "failure"}]
      BY <2>8, <3>1 DEF ReplyPublished
    <3>3. UNCHANGED <<place, inbox, live, holds, mailed, excused, breaks>>
      BY <2>8 DEF ReplyPublished, brokerVars
    <3>4. at' \in [Goroutines -> Steps] /\ \A h \in Goroutines : holds'[h] # NoMail <=> at'[h] \in Handling
      BY <2>8, <3>3 DEF ReplyPublished
    <3> QED
      BY <3>2, <3>3, <3>4
  <2> QED
    BY <1>4, <2>1, <2>2, <2>3, <2>4, <2>5, <2>6, <2>7, <2>8 DEF Moves
<1>5. ASSUME NEW g \in Goroutines, Take(g) PROVE TypeOK'
  <2>1. Head(inbox[g]) \in Mail /\ Tail(inbox[g]) \in Seq(Mail)
    BY <1>5, TailFacts DEF Take
  <2>2. QED
    BY <1>1, <1>2, <1>5, <2>1 DEF Take, Go, Steps, Handling, history
<1>6. ASSUME NEW g \in Goroutines, Leave(g) PROVE TypeOK'
  BY <1>1, <1>2, <1>6 DEF Leave, Go, Reclaim, Steps, Handling, history
<1>7. ASSUME NEW g \in Goroutines, Settle(g) PROVE TypeOK'
  BY <1>1, <1>2, <1>7 DEF Settle, Go, Steps, Handling
<1>8. ASSUME NEW m \in Mail, Push(m) PROVE TypeOK'
  <2>1. QueueOf[m] \in Goroutines
    OBVIOUS
  <2>2. Append(inbox[QueueOf[m]], m) \in Seq(Mail)
    BY <2>1, AppendFacts
  <2>3. QED
    BY <1>1, <1>2, <1>8, <2>1, <2>2 DEF Push, history
<1>9. CASE LinkLost
  BY <1>1, <1>2, <1>9 DEF LinkLost, Reclaim, history
<1>10. CASE Exit
  BY <1>1, <1>2, <1>10 DEF Exit, End, Reclaim, Steps, Handling, history
<1>11. CASE Crash
  BY <1>1, <1>2, <1>11 DEF Crash, End, Reclaim, Steps, Handling
<1> QED
  BY <1>3, <1>4, <1>5, <1>6, <1>7, <1>8, <1>9, <1>10, <1>11, NextCases


-----------------------------------------------------------------------------
(* What each step does to the deliveries.                                  *)

\* The other goroutine notices nothing.
Apart(g) ==
  \A h \in Goroutines \ {g} : /\ inbox'[h] = inbox[h] /\ holds'[h] = holds[h]
                             /\ at'[h] = at[h] /\ live'[h] = live[h]

LEMMA MovesEffect ==
  ASSUME IInv, NEW g \in Goroutines, Moves(g)
  PROVE  /\ Apart(g) /\ UNCHANGED <<place, inbox, holds>>
         /\ at'[g] \in {"calls", "restarts", "done"} =>
               at[g] \in {"calls", "restarts"} /\ live'[g] = live[g]
         /\ live[g] => live'[g]
         /\ live'[g] # live[g] => at[g] = "calls"
<1> USE DEF IInv, TypeOK, Go, brokerVars, Apart
<1>1. CASE ChannelOpens(g)
  BY <1>1 DEF ChannelOpens
<1>2. CASE ChannelFails(g)
  BY <1>2 DEF ChannelFails
<1>3. CASE StartAgain(g)
  BY <1>3 DEF StartAgain
<1>4. CASE (\E m \in Mail : SmtpAccepts(g, m)) \/ SmtpBreaks(g) \/ SmtpRefuses(g) \/ LoginRefused(g)
  BY <1>4 DEF SmtpAccepts, SmtpBreaks, SmtpRefuses, LoginRefused
<1>5. CASE ReplyPublished(g) \/ ReplyFails(g)
  BY <1>5 DEF ReplyPublished, ReplyFails
<1> QED
  BY <1>1, <1>2, <1>3, <1>4, <1>5 DEF Moves

LEMMA TakeEffect ==
  ASSUME IInv, NEW g \in Goroutines, Take(g)
  PROVE  /\ Apart(g) /\ UNCHANGED <<place, live, mailed, replied, excused>>
         /\ at[g] = "waits" /\ at'[g] = "sends"
         /\ holds[g] = NoMail /\ holds'[g] \in Waiting(g) /\ holds'[g] \in Mail
         /\ Waiting(g) = Waiting(g)' \cup {holds'[g]} /\ holds'[g] \notin Waiting(g)'
         /\ IsInjective(inbox'[g])
<1> USE DEF IInv, TypeOK
<1>1. /\ Apart(g) /\ UNCHANGED <<place, live, mailed, replied, excused>>
      /\ at[g] = "waits" /\ at'[g] = "sends" /\ holds[g] = NoMail
      /\ inbox[g] # << >> /\ inbox[g] \in Seq(Mail)
      /\ inbox'[g] = Tail(inbox[g]) /\ holds'[g] = Head(inbox[g])
  BY DEF Take, Go, Apart, history, Handling
<1>2. IsInjective(inbox[g])
  BY DEF HandsAreOwn, HandsOf
<1> QED
  BY <1>1, <1>2, TailFacts DEF Waiting

LEMMA LeaveEffect ==
  ASSUME IInv, NEW g \in Goroutines, Leave(g)
  PROVE  /\ Apart(g) /\ UNCHANGED <<mailed, replied, excused>> /\ Reclaim({g})
         /\ at[g] = "waits" /\ at'[g] = "restarts" /\ ~live'[g]
         /\ holds[g] = NoMail /\ holds'[g] = NoMail
         /\ inbox'[g] = << >> /\ Waiting(g)' = {} /\ IsInjective(inbox'[g])
  BY EmptyFacts DEF Leave, IInv, TypeOK, Go, Apart, Waiting, history, Handling

LEMMA SettleEffect ==
  ASSUME IInv, NEW g \in Goroutines, Settle(g)
  PROVE  /\ Apart(g) /\ UNCHANGED <<inbox, live, mailed, replied>>
         /\ at[g] \in {"acks", "requeues", "drops"} /\ at'[g] = "waits"
         /\ holds[g] \in Mail /\ QueueOf[holds[g]] = g /\ holds'[g] = NoMail
         /\ \A m \in Mail \ {holds[g]} : place'[m] = place[m] /\ excused'[m] = excused[m]
         /\ live[g] /\ at[g] = "requeues" => place'[holds[g]] = "ready"
         /\ live[g] /\ at[g] # "requeues" => place'[holds[g]] = "gone"
         /\ ~live[g] => place'[holds[g]] = place[holds[g]]
         /\ excused'[holds[g]] = IF at[g] = "acks" /\ ~live[g]
                                 THEN excused[holds[g]] + 1 ELSE excused[holds[g]]
<1> USE DEF IInv, TypeOK
<1>1. /\ at[g] \in {"acks", "requeues", "drops"} /\ holds[g] \in Mail
      /\ UNCHANGED <<inbox, live, mailed, replied>>
  BY DEF Settle, Handling
<1>2. QueueOf[holds[g]] = g
  BY <1>1 DEF HandsAreOwn, HandsOf
<1>3. Apart(g) /\ at'[g] = "waits" /\ holds'[g] = NoMail
  BY DEF Settle, Go, Apart
<1>4. /\ \A m \in Mail \ {holds[g]} : place'[m] = place[m]
      /\ live[g] /\ at[g] = "requeues" => place'[holds[g]] = "ready"
      /\ live[g] /\ at[g] # "requeues" => place'[holds[g]] = "gone"
      /\ ~live[g] => place'[holds[g]] = place[holds[g]]
  BY <1>1 DEF Settle
<1>5. /\ \A m \in Mail \ {holds[g]} : excused'[m] = excused[m]
      /\ excused'[holds[g]] = IF at[g] = "acks" /\ ~live[g]
                              THEN excused[holds[g]] + 1 ELSE excused[holds[g]]
  BY <1>1 DEF Settle
<1> QED
  BY <1>1, <1>2, <1>3, <1>4, <1>5

LEMMA PushEffect ==
  ASSUME IInv, NEW m \in Mail, Push(m)
  PROVE  /\ QueueOf[m] \in Goroutines /\ live[QueueOf[m]]
         /\ UNCHANGED <<holds, at, live, mailed, replied, excused>>
         /\ \A h \in Goroutines \ {QueueOf[m]} : inbox'[h] = inbox[h]
         /\ place[m] = "ready" /\ place'[m] = "pushed"
         /\ \A n \in Mail \ {m} : place'[n] = place[n]
         /\ ~InHand(m)
         /\ Waiting(QueueOf[m])' = Waiting(QueueOf[m]) \cup {m}
         /\ IsInjective(inbox'[QueueOf[m]])
<1> USE DEF IInv, TypeOK
<1> DEFINE g == QueueOf[m]
<1>1. /\ g \in Goroutines /\ live[g] /\ place[m] = "ready" /\ place'[m] = "pushed"
      /\ \A n \in Mail \ {m} : place'[n] = place[n]
      /\ UNCHANGED <<holds, at, live, mailed, replied, excused>>
  BY DEF Push, history
<1>2. /\ inbox'[g] = Append(inbox[g], m) /\ inbox[g] \in Seq(Mail)
      /\ \A h \in Goroutines \ {g} : inbox'[h] = inbox[h]
  BY <1>1 DEF Push
<1>3. ~InHand(m)
  BY <1>1 DEF BrokerKnows
<1>4. IsInjective(inbox[g]) /\ m \notin ToSet(inbox[g])
  BY <1>1, <1>3 DEF HandsAreOwn, HandsOf, InHand, Waiting
<1>5. ToSet(inbox'[g]) = ToSet(inbox[g]) \cup {m} /\ IsInjective(inbox'[g])
  BY <1>2, <1>4, AppendFacts
<1> QED
  BY <1>1, <1>2, <1>3, <1>5 DEF Waiting

LEMMA EndEffect ==
  ASSUME IInv, Exit \/ Crash
  PROVE  /\ UNCHANGED <<mailed, replied>> /\ Reclaim(Goroutines)
         /\ \A g \in Goroutines : /\ ~live'[g] /\ at'[g] = "calls" /\ holds'[g] = NoMail
                                  /\ Waiting(g)' = {} /\ IsInjective(inbox'[g])
  BY EmptyFacts DEF Exit, Crash, End, Waiting, history

-----------------------------------------------------------------------------
(* Who has what.                                                           *)

LEMMA HandsStay ==
  ASSUME NEW h \in Goroutines, HandsOf(h),
         inbox'[h] = inbox[h], holds'[h] = holds[h], at'[h] = at[h], live'[h] = live[h]
  PROVE  HandsOf(h)'
  BY DEF HandsOf, Waiting

LEMMA NextHands == ASSUME IInv, [Next]_vars PROVE HandsAreOwn'
<1> USE DEF HandsAreOwn
<1>0. \A h \in Goroutines : HandsOf(h)
  BY DEF IInv
<1>1. CASE UNCHANGED data
  BY <1>0, <1>1, HandsStay DEF data
<1>2. ASSUME NEW g \in Goroutines, Apart(g), HandsOf(g)' PROVE HandsAreOwn'
  BY <1>0, <1>2, HandsStay DEF Apart
<1>3. ASSUME NEW g \in Goroutines, Moves(g) PROVE HandsAreOwn'
  <2>1. HandsOf(g)'
    BY <1>0, <1>3, MovesEffect DEF HandsOf, Waiting
  <2> QED
    BY <1>2, <1>3, <2>1, MovesEffect
<1>4. ASSUME NEW g \in Goroutines, Take(g) PROVE HandsAreOwn'
  <2>1. HandsOf(g)'
    BY <1>0, <1>4, TakeEffect DEF HandsOf
  <2> QED
    BY <1>2, <1>4, <2>1, TakeEffect
<1>5. ASSUME NEW g \in Goroutines, Leave(g) PROVE HandsAreOwn'
  <2>1. HandsOf(g)'
    BY <1>5, LeaveEffect DEF HandsOf
  <2> QED
    BY <1>2, <1>5, <2>1, LeaveEffect
<1>6. ASSUME NEW g \in Goroutines, Settle(g) PROVE HandsAreOwn'
  <2>1. HandsOf(g)'
    BY <1>0, <1>6, SettleEffect DEF HandsOf, Waiting
  <2> QED
    BY <1>2, <1>6, <2>1, SettleEffect
<1>7. ASSUME NEW m \in Mail, Push(m) PROVE HandsAreOwn'
  <2> DEFINE g == QueueOf[m]
  <2>1. g \in Goroutines /\ Apart(g)
    BY <1>7, PushEffect DEF Apart
  <2>2. at[g] \notin {"calls", "restarts", "done"} /\ holds[g] # m
    BY <1>0, <1>7, <2>1, PushEffect DEF HandsOf, InHand
  <2>3. HandsOf(g)'
    BY <1>0, <1>7, <2>1, <2>2, PushEffect DEF HandsOf
  <2> QED
    BY <1>2, <2>1, <2>3
<1>8. CASE LinkLost
  BY <1>0, <1>8 DEF LinkLost, HandsOf, Waiting
<1>9. CASE Exit \/ Crash
  BY <1>9, EndEffect DEF HandsOf
<1> QED
  BY <1>1, <1>3, <1>4, <1>5, <1>6, <1>7, <1>8, <1>9, NextCases

\* What is in hand afterwards was so before, or has just been pushed.
LEMMA HandsGrow ==
  ASSUME IInv, NEW g \in Goroutines, Apart(g), NEW m \in Mail, InHand(m)',
         Waiting(g)' \subseteq Waiting(g),
         holds'[g] \in Waiting(g) \cup {holds[g], NoMail}
  PROVE  InHand(m)
<1>1. QueueOf[m] \in Goroutines
  OBVIOUS
<1>2. CASE QueueOf[m] = g
  BY <1>2 DEF InHand
<1>3. CASE QueueOf[m] # g
  BY <1>1, <1>3 DEF InHand, Apart, Waiting
<1> QED
  BY <1>2, <1>3

LEMMA NextKnows == ASSUME IInv, [Next]_vars PROVE BrokerKnows'
<1> USE DEF BrokerKnows
<1>0. \A m \in Mail : QueueOf[m] \in Goroutines
  OBVIOUS
<1>a. \A m \in Mail : InHand(m) => place[m] = IF live[QueueOf[m]] THEN "pushed" ELSE "ready"
  BY DEF IInv
<1>1. CASE UNCHANGED data
  BY <1>a, <1>1 DEF data, InHand, Waiting
<1>2. ASSUME NEW g \in Goroutines, Moves(g) PROVE BrokerKnows'
  <2>1. \A m \in Mail : InHand(m)' => InHand(m)
    BY <1>2, MovesEffect DEF InHand, Waiting
  <2>2. at[g] = "calls" => holds[g] = NoMail /\ Waiting(g) = {}
    BY DEF IInv, TypeOK, HandsAreOwn, HandsOf, Handling
  <2>3. ASSUME NEW m \in Mail, InHand(m) PROVE live'[QueueOf[m]] = live[QueueOf[m]]
    BY <1>0, <1>2, <2>2, <2>3, MovesEffect DEF InHand, Apart
  <2> QED
    BY <1>a, <1>2, <2>1, <2>3, MovesEffect
<1>3. ASSUME NEW g \in Goroutines, Take(g) PROVE BrokerKnows'
  <2>1. \A m \in Mail : InHand(m)' => InHand(m)
    BY <1>3, HandsGrow, TakeEffect
  <2> QED
    BY <1>a, <1>3, <2>1, TakeEffect
<1>4. ASSUME NEW g \in Goroutines, Leave(g) PROVE BrokerKnows'
  <2>1. ASSUME NEW m \in Mail, InHand(m)'
        PROVE  InHand(m) /\ QueueOf[m] # g /\ place'[m] = place[m]
               /\ live'[QueueOf[m]] = live[QueueOf[m]]
    <3>1. InHand(m)
      BY <1>4, <2>1, HandsGrow, LeaveEffect
    <3>2. QueueOf[m] # g
      BY <1>4, <2>1, LeaveEffect DEF InHand
    <3> QED
      BY <1>0, <1>4, <3>1, <3>2, LeaveEffect DEF Apart, Reclaim
  <2> QED
    BY <1>a, <2>1
<1>5. ASSUME NEW g \in Goroutines, Settle(g) PROVE BrokerKnows'
  <2>1. ASSUME NEW m \in Mail, m = holds[g] PROVE ~InHand(m)'
    <3>1. holds[g] \notin Waiting(g) /\ Waiting(g)' = Waiting(g)
      BY <1>5, SettleEffect DEF IInv, HandsAreOwn, HandsOf, Waiting
    <3> QED
      BY <1>5, <2>1, <3>1, SettleEffect DEF InHand
  <2>2. \A m \in Mail : InHand(m)' => InHand(m)
    <3>1. Waiting(g)' = Waiting(g)
      BY <1>5, SettleEffect DEF Waiting
    <3> QED
      BY <1>5, <3>1, HandsGrow, SettleEffect
  <2> QED
    BY <1>a, <1>5, <2>1, <2>2, SettleEffect
<1>6. ASSUME NEW m \in Mail, Push(m) PROVE BrokerKnows'
  <2>1. ASSUME NEW n \in Mail \ {m}, InHand(n)' PROVE InHand(n)
    <3>1. CASE QueueOf[n] = QueueOf[m]
      BY <1>6, <2>1, <3>1, PushEffect DEF InHand
    <3>2. CASE QueueOf[n] # QueueOf[m]
      BY <1>0, <1>6, <2>1, <3>2, PushEffect DEF InHand, Waiting
    <3> QED
      BY <3>1, <3>2
  <2> QED
    BY <1>a, <1>6, <2>1, PushEffect
<1>7. CASE LinkLost
  <2>1. \A m \in Mail : InHand(m)' => InHand(m)
    BY <1>7 DEF LinkLost, InHand, Waiting
  <2>2. \A m \in Mail : place'[m] = (IF place[m] = "pushed" THEN "ready" ELSE place[m])
                      /\ ~live'[QueueOf[m]]
    BY <1>0, <1>7 DEF LinkLost, Reclaim
  <2> QED
    BY <1>a, <2>1, <2>2
<1>8. CASE Exit \/ Crash
  BY <1>0, <1>8, EndEffect DEF InHand
<1> QED
  BY <1>1, <1>2, <1>3, <1>4, <1>5, <1>6, <1>7, <1>8, NextCases

-----------------------------------------------------------------------------
(* What has been done.                                                     *)

\* Outcomes are never taken back.
LEMMA OutcomesGrow ==
  ASSUME IInv, [Next]_vars, NEW m \in Mail
  PROVE  mailed'[m] >= mailed[m] /\ replied[m] \subseteq replied'[m]
<1> USE DEF IInv, TypeOK
<1>1. CASE UNCHANGED data
  BY <1>1 DEF data
<1>2. ASSUME NEW g \in Goroutines, Moves(g)
      PROVE  mailed'[m] >= mailed[m] /\ replied[m] \subseteq replied'[m]
  <2>1. CASE ChannelOpens(g) \/ ChannelFails(g) \/ StartAgain(g) \/ SmtpRefuses(g)
             \/ LoginRefused(g) \/ ReplyFails(g)
    BY <2>1 DEF ChannelOpens, ChannelFails, StartAgain, SmtpRefuses, LoginRefused, ReplyFails, history
  <2>2. CASE \E n \in Mail : SmtpAccepts(g, n)
    BY <2>2 DEF SmtpAccepts
  <2>3. CASE SmtpBreaks(g)
    BY <2>3 DEF SmtpBreaks
  <2>4. CASE ReplyPublished(g)
    BY <2>4 DEF ReplyPublished
  <2> QED
    BY <1>2, <2>1, <2>2, <2>3, <2>4 DEF Moves
<1>3. ASSUME NEW g \in Goroutines, Take(g) \/ Leave(g) \/ Settle(g)
      PROVE  UNCHANGED <<mailed, replied>>
  BY <1>3, TakeEffect, LeaveEffect, SettleEffect
<1>4. ASSUME (\E n \in Mail : Push(n)) \/ LinkLost \/ Exit \/ Crash
      PROVE  UNCHANGED <<mailed, replied>>
  BY <1>4, PushEffect, EndEffect DEF LinkLost, history
<1> QED
  BY <1>1, <1>2, <1>3, <1>4, NextCases

LEMMA EarnedStays ==
  ASSUME IInv, [Next]_vars, NEW h \in Goroutines, at'[h] = at[h], holds'[h] = holds[h]
  PROVE  Earned(h)'
<1>1. CASE at[h] \in Handling
  <2>1. holds[h] \in Mail /\ mailed[holds[h]] \in Nat /\ mailed'[holds[h]] \in Nat
    BY <1>1, NextTypes DEF IInv, TypeOK
  <2>2. mailed'[holds[h]] >= mailed[holds[h]] /\ replied[holds[h]] \subseteq replied'[holds[h]]
    BY <2>1, OutcomesGrow
  <2> QED
    BY <2>1, <2>2 DEF IInv, StepsAreEarned, Earned
<1>2. CASE at[h] \notin Handling
  BY <1>2 DEF Earned, Handling
<1> QED
  BY <1>1, <1>2

LEMMA NextEarned == ASSUME IInv, [Next]_vars PROVE StepsAreEarned'
<1> USE DEF StepsAreEarned
<1>1. CASE UNCHANGED data
  BY <1>1, EarnedStays DEF data
<1>2. ASSUME NEW g \in Goroutines, Apart(g), Earned(g)' PROVE StepsAreEarned'
  BY <1>2, EarnedStays DEF Apart
<1>3. ASSUME NEW g \in Goroutines, Moves(g) PROVE StepsAreEarned'
  <2> USE DEF IInv, TypeOK, Go, Earned
  <2>1. holds' = holds /\ Apart(g)
    BY <1>3, MovesEffect
  <2>2. CASE ChannelOpens(g) \/ ChannelFails(g) \/ StartAgain(g) \/ SmtpRefuses(g)
             \/ LoginRefused(g) \/ ReplyFails(g)
    BY <1>2, <2>1, <2>2
       DEF ChannelOpens, ChannelFails, StartAgain, SmtpRefuses, LoginRefused, ReplyFails
  <2>3. ASSUME NEW m \in Mail, SmtpAccepts(g, m) PROVE Earned(g)'
    BY <2>1, <2>3 DEF SmtpAccepts
  <2>4. CASE SmtpBreaks(g)
    BY <1>2, <2>1, <2>4 DEF SmtpBreaks
  <2>5. CASE ReplyPublished(g)
    <3>1. holds[g] \in Mail
      BY <2>5 DEF ReplyPublished, Handling
    <3> QED
      BY <1>2, <2>1, <2>5, <3>1 DEF ReplyPublished
  <2> QED
    BY <1>2, <1>3, <2>1, <2>2, <2>3, <2>4, <2>5 DEF Moves
<1>4. ASSUME NEW g \in Goroutines, Take(g) \/ Leave(g) \/ Settle(g) PROVE StepsAreEarned'
  BY <1>2, <1>4, TakeEffect, LeaveEffect, SettleEffect DEF Earned
<1>5. ASSUME NEW m \in Mail, Push(m) PROVE StepsAreEarned'
  BY <1>5, PushEffect, EarnedStays
<1>6. CASE LinkLost
  BY <1>6, EarnedStays DEF LinkLost
<1>7. CASE Exit \/ Crash
  BY <1>7, EndEffect DEF Earned
<1> QED
  BY <1>1, <1>3, <1>4, <1>5, <1>6, <1>7, NextCases

\* The three parts of NothingLost.
Vouched(m) ==
  \/ mailed[m] > 0 /\ (QueueOf[m] = "confirmations" => "success" \in replied[m])
  \/ QueueOf[m] = "confirmations" /\ "failure" \in replied[m]

GoneIsVouched    == \A m \in Mail : place[m] = "gone" => Vouched(m)
PushedIsInHand   == \A m \in Mail : place[m] = "pushed" => live[QueueOf[m]] /\ InHand(m)
SuccessIsMailed  == \A m \in Mail : "success" \in replied[m] => mailed[m] > 0

LEMMA NothingLostParts == NothingLost <=> GoneIsVouched /\ PushedIsInHand /\ SuccessIsMailed
  BY DEF NothingLost, Vouched, GoneIsVouched, PushedIsInHand, SuccessIsMailed

LEMMA NextVouched == ASSUME IInv, [Next]_vars PROVE GoneIsVouched'
<1>1. ASSUME NEW m \in Mail, Vouched(m) PROVE Vouched(m)'
  <2>1. mailed[m] \in Nat /\ mailed'[m] \in Nat
    BY NextTypes DEF IInv, TypeOK
  <2> QED
    BY <1>1, <2>1, OutcomesGrow DEF Vouched
<1>2. \A m \in Mail : place[m] = "gone" => Vouched(m)
  BY NothingLostParts DEF IInv, GoneIsVouched
<1>3. ASSUME \A m \in Mail : place'[m] = "gone" => place[m] = "gone" PROVE GoneIsVouched'
  BY <1>1, <1>2, <1>3 DEF GoneIsVouched
<1>4. CASE UNCHANGED data
  BY <1>3, <1>4 DEF data
<1>5. ASSUME NEW g \in Goroutines, Moves(g) \/ Take(g) PROVE GoneIsVouched'
  BY <1>3, <1>5, MovesEffect, TakeEffect
<1>6. ASSUME NEW g \in Goroutines, Leave(g) PROVE GoneIsVouched'
  BY <1>3, <1>6, LeaveEffect DEF Reclaim
<1>7. ASSUME NEW g \in Goroutines, Settle(g) PROVE GoneIsVouched'
  <2>1. ASSUME place'[holds[g]] = "gone", live[g] PROVE Vouched(holds[g])
    <3>1. at[g] \in {"acks", "drops"} /\ holds[g] \in Mail /\ QueueOf[holds[g]] = g
      BY <1>7, <2>1, SettleEffect
    <3> QED
      BY <3>1 DEF IInv, StepsAreEarned, Earned, Vouched
  <2>2. \A m \in Mail : place'[m] = "gone" => Vouched(m)
    BY <1>2, <1>7, <2>1, SettleEffect
  <2> QED
    BY <1>1, <2>2 DEF GoneIsVouched
<1>8. ASSUME NEW m \in Mail, Push(m) PROVE GoneIsVouched'
  BY <1>3, <1>8, PushEffect
<1>9. CASE LinkLost
  BY <1>3, <1>9 DEF LinkLost, Reclaim
<1>10. CASE Exit \/ Crash
  BY <1>3, <1>10, EndEffect DEF Reclaim
<1> QED
  BY <1>4, <1>5, <1>6, <1>7, <1>8, <1>9, <1>10, NextCases

LEMMA NextInHand == ASSUME IInv, [Next]_vars PROVE PushedIsInHand'
<1> USE DEF PushedIsInHand
<1>0. \A m \in Mail : QueueOf[m] \in Goroutines
  OBVIOUS
<1>a. \A m \in Mail : place[m] = "pushed" => live[QueueOf[m]] /\ InHand(m)
  BY NothingLostParts DEF IInv
<1>1. CASE UNCHANGED data
  BY <1>a, <1>1 DEF data, InHand, Waiting
<1>2. ASSUME NEW g \in Goroutines, Moves(g) PROVE PushedIsInHand'
  <2>1. \A m \in Mail : InHand(m) => InHand(m)'
    BY <1>2, MovesEffect DEF InHand, Waiting
  <2>2. \A h \in Goroutines : live[h] => live'[h]
    BY <1>2, MovesEffect DEF Apart
  <2> QED
    BY <1>0, <1>a, <1>2, <2>1, <2>2, MovesEffect
<1>3. ASSUME NEW g \in Goroutines, Take(g) PROVE PushedIsInHand'
  <2>1. ASSUME NEW m \in Mail, InHand(m) PROVE InHand(m)'
    <3>1. CASE QueueOf[m] = g
      BY <1>3, <2>1, <3>1, TakeEffect DEF InHand
    <3>2. CASE QueueOf[m] # g
      BY <1>0, <1>3, <2>1, <3>2, TakeEffect DEF InHand, Apart, Waiting
    <3> QED
      BY <3>1, <3>2
  <2> QED
    BY <1>a, <1>3, <2>1, TakeEffect
<1>4. ASSUME NEW g \in Goroutines, Leave(g) PROVE PushedIsInHand'
  <2>1. ASSUME NEW m \in Mail, place'[m] = "pushed"
        PROVE  place[m] = "pushed" /\ QueueOf[m] # g
    BY <1>4, <2>1, LeaveEffect DEF Reclaim
  <2> QED
    BY <1>0, <1>a, <1>4, <2>1, LeaveEffect DEF Apart, InHand, Waiting
<1>5. ASSUME NEW g \in Goroutines, Settle(g) PROVE PushedIsInHand'
  <2>1. ASSUME NEW m \in Mail \ {holds[g]}, InHand(m) PROVE InHand(m)'
    BY <1>0, <1>5, <2>1, SettleEffect DEF InHand, Apart, Waiting
  <2>2. place'[holds[g]] # "pushed"
    BY <1>a, <1>5, SettleEffect
  <2> QED
    BY <1>a, <1>5, <2>1, <2>2, SettleEffect
<1>6. ASSUME NEW m \in Mail, Push(m) PROVE PushedIsInHand'
  <2>1. ASSUME NEW n \in Mail, n = m \/ InHand(n) PROVE InHand(n)'
    <3>1. CASE QueueOf[n] = QueueOf[m]
      BY <1>6, <2>1, <3>1, PushEffect DEF InHand
    <3>2. CASE QueueOf[n] # QueueOf[m]
      BY <1>0, <1>6, <2>1, <3>2, PushEffect DEF InHand, Waiting
    <3> QED
      BY <3>1, <3>2
  <2> QED
    BY <1>a, <1>6, <2>1, PushEffect
<1>7. CASE LinkLost
  BY <1>0, <1>7 DEF LinkLost, Reclaim
<1>8. CASE Exit \/ Crash
  BY <1>0, <1>8, EndEffect DEF Reclaim
<1> QED
  BY <1>1, <1>2, <1>3, <1>4, <1>5, <1>6, <1>7, <1>8, NextCases

LEMMA NextSuccess == ASSUME IInv, [Next]_vars PROVE SuccessIsMailed'
<1>1. ASSUME NEW m \in Mail, "success" \in replied'[m], "success" \notin replied[m]
      PROVE  mailed[m] > 0
  <2>1. PICK g \in Goroutines : ReplyPublished(g)
    <3>1. ~(UNCHANGED data \/ LinkLost \/ Exit \/ Crash \/ \E n \in Mail : Push(n))
      BY <1>1, EndEffect, PushEffect DEF data, LinkLost, history
    <3>2. \A g \in Goroutines : ~(Take(g) \/ Leave(g) \/ Settle(g))
      BY <1>1, TakeEffect, LeaveEffect, SettleEffect
    <3>3. PICK g \in Goroutines : Moves(g)
      BY <3>1, <3>2, NextCases
    <3>4. ~(ChannelOpens(g) \/ ChannelFails(g) \/ StartAgain(g) \/ SmtpRefuses(g)
            \/ LoginRefused(g) \/ ReplyFails(g) \/ SmtpBreaks(g) \/ \E n \in Mail : SmtpAccepts(g, n))
      BY <1>1 DEF ChannelOpens, ChannelFails, StartAgain, SmtpRefuses, LoginRefused, ReplyFails,
                  SmtpBreaks, SmtpAccepts, history
    <3> QED
      BY <3>3, <3>4 DEF Moves
  <2>2. holds[g] \in Mail
    BY <2>1 DEF IInv, TypeOK, ReplyPublished, Handling
  <2>3. holds[g] = m /\ at[g] = "replies"
    BY <1>1, <2>1, <2>2 DEF IInv, TypeOK, ReplyPublished
  <2> QED
    BY <2>3 DEF IInv, StepsAreEarned, Earned
<1>2. ASSUME NEW m \in Mail, "success" \in replied[m] PROVE mailed[m] > 0
  BY <1>2, NothingLostParts DEF IInv, SuccessIsMailed
<1>3. \A m \in Mail : mailed[m] \in Nat /\ mailed'[m] \in Nat /\ mailed'[m] >= mailed[m]
  BY NextTypes, OutcomesGrow DEF IInv, TypeOK
<1> QED
  BY <1>1, <1>2, <1>3 DEF SuccessIsMailed

LEMMA NextLost == ASSUME IInv, [Next]_vars PROVE NothingLost'
  BY NextVouched, NextInHand, NextSuccess
     DEF NothingLost, Vouched, GoneIsVouched, PushedIsInHand, SuccessIsMailed

-----------------------------------------------------------------------------
(* How often it has been done.                                             *)

Counted(m) == mailed[m] <= excused[m] + IF Settled(m) THEN 1 ELSE 0

LEMMA CountStays ==
  ASSUME IInv, [Next]_vars, NEW m \in Mail,
         mailed'[m] = mailed[m], excused'[m] >= excused[m],
         Settled(m) => Settled(m)' \/ excused'[m] = excused[m] + 1
  PROVE  Counted(m)'
<1>1. /\ mailed[m] \in Nat /\ excused[m] \in Nat /\ excused'[m] \in Nat
  BY NextTypes DEF IInv, TypeOK
<1>2. Counted(m)
  BY DEF IInv, MailIsCounted, Counted
<1> QED
  BY <1>1, <1>2 DEF Counted

LEMMA NextCounted == ASSUME IInv, [Next]_vars PROVE \A m \in Mail : Counted(m)'
<1>0. \A m \in Mail : QueueOf[m] \in Goroutines /\ m # NoMail
  OBVIOUS
<1>b. \A m \in Mail : mailed[m] \in Nat /\ excused[m] \in Nat
  BY DEF IInv, TypeOK
<1>1. CASE UNCHANGED data
  BY <1>b, <1>1, CountStays DEF data, Settled
<1>2. ASSUME NEW g \in Goroutines, Moves(g) PROVE \A m \in Mail : Counted(m)'
  <2> USE DEF Go
  <2>0. UNCHANGED <<place, holds>> /\ at \in [Goroutines -> Steps]
    BY <1>2, MovesEffect DEF IInv, TypeOK
  <2>1. CASE ChannelOpens(g) \/ ChannelFails(g) \/ StartAgain(g) \/ SmtpRefuses(g) \/ LoginRefused(g)
    <3>1. at[g] \notin {"replies", "acks"} /\ at' = [at EXCEPT ![g] = at'[g]]
      BY <2>0, <2>1 DEF ChannelOpens, ChannelFails, StartAgain, SmtpRefuses, LoginRefused
    <3>2. UNCHANGED <<mailed, excused>>
      BY <2>1 DEF ChannelOpens, ChannelFails, StartAgain, SmtpRefuses, LoginRefused, history
    <3>3. \A m \in Mail : Settled(m) => Settled(m)'
      BY <1>0, <2>0, <3>1 DEF Settled
    <3> QED
      BY <1>b, <3>2, <3>3, CountStays
  <2>2. ASSUME NEW n \in Mail, SmtpAccepts(g, n) PROVE \A m \in Mail : Counted(m)'
    <3>1. holds[g] = n /\ at[g] = "sends" /\ at'[g] \in {"replies", "acks"} /\ QueueOf[n] = g
          /\ at' = [at EXCEPT ![g] = at'[g]]
      BY <2>0, <2>2, <1>0 DEF SmtpAccepts, IInv, HandsAreOwn, HandsOf
    <3>2. ~Settled(n)
      BY <3>1 DEF Settled, IInv, BrokerKnows, InHand
    <3>3. Settled(n)'
      BY <2>0, <3>1 DEF Settled
    <3>4. mailed'[n] = mailed[n] + 1 /\ excused' = excused
          /\ \A m \in Mail \ {n} : mailed'[m] = mailed[m]
      BY <2>2 DEF SmtpAccepts, IInv, TypeOK
    <3>5. Counted(n)'
      BY <1>b, <3>2, <3>3, <3>4 DEF Counted, IInv, MailIsCounted
    <3>6. \A m \in Mail \ {n} : Settled(m) => Settled(m)'
      BY <1>0, <2>0, <3>1 DEF Settled
    <3> QED
      BY <1>b, <3>4, <3>5, <3>6, CountStays
  <2>3. CASE SmtpBreaks(g)
    <3>1. at[g] = "sends" /\ at' = [at EXCEPT ![g] = "requeues"] /\ holds[g] \in Mail
      BY <2>3 DEF SmtpBreaks, IInv, TypeOK, Handling
    <3>2. \A m \in Mail : Settled(m)' <=> Settled(m)
      BY <1>0, <2>0, <3>1 DEF Settled
    <3>3. /\ mailed'[holds[g]] = mailed[holds[g]] + 1
          /\ excused'[holds[g]] = excused[holds[g]] + 1
          /\ \A m \in Mail \ {holds[g]} : mailed'[m] = mailed[m] /\ excused'[m] = excused[m]
      BY <2>3, <3>1 DEF SmtpBreaks, IInv, TypeOK
    <3>4. ASSUME NEW m \in Mail, m = holds[g] PROVE Counted(m)'
      BY <1>b, <3>2, <3>3, <3>4 DEF Counted, IInv, MailIsCounted
    <3> QED
      BY <1>b, <3>2, <3>3, <3>4, CountStays
  <2>4. CASE ReplyPublished(g)
    <3>1. /\ at[g] \in {"replies", "reports"} /\ at' = [at EXCEPT ![g] = at'[g]]
          /\ at[g] = "replies" => at'[g] = "acks"
          /\ UNCHANGED <<mailed, excused>>
      BY <2>0, <2>4 DEF ReplyPublished
    <3>2. \A m \in Mail : Settled(m) => Settled(m)'
      BY <1>0, <2>0, <3>1 DEF Settled
    <3> QED
      BY <1>b, <3>1, <3>2, CountStays
  <2>5. CASE ReplyFails(g)
    <3>1. /\ at[g] \in {"replies", "reports"} /\ at' = [at EXCEPT ![g] = "requeues"]
          /\ mailed' = mailed /\ holds[g] \in Mail
      BY <2>5 DEF ReplyFails, IInv, TypeOK, Handling
    <3>2. /\ \A m \in Mail \ {holds[g]} : excused'[m] = excused[m]
          /\ excused'[holds[g]] = IF at[g] = "replies" THEN excused[holds[g]] + 1
                                                       ELSE excused[holds[g]]
      BY <2>5, <3>1 DEF ReplyFails, IInv, TypeOK
    <3>3. \A m \in Mail : Settled(m) => Settled(m)' \/ excused'[m] = excused[m] + 1
      BY <1>0, <2>0, <3>1, <3>2 DEF Settled
    <3> QED
      BY <1>b, <3>1, <3>2, <3>3, CountStays
  <2> QED
    BY <1>2, <2>1, <2>2, <2>3, <2>4, <2>5 DEF Moves
<1>3. ASSUME NEW g \in Goroutines, Take(g) PROVE \A m \in Mail : Counted(m)'
  <2>1. \A m \in Mail : Settled(m) => Settled(m)'
    BY <1>0, <1>3, TakeEffect DEF Settled, Apart
  <2> QED
    BY <1>b, <1>3, <2>1, CountStays, TakeEffect
<1>4. ASSUME NEW g \in Goroutines, Leave(g) PROVE \A m \in Mail : Counted(m)'
  <2>1. \A m \in Mail : Settled(m) => Settled(m)'
    BY <1>0, <1>4, LeaveEffect DEF Settled, Apart, Reclaim
  <2> QED
    BY <1>b, <1>4, <2>1, CountStays, LeaveEffect
<1>5. ASSUME NEW g \in Goroutines, Settle(g) PROVE \A m \in Mail : Counted(m)'
  <2>1. \A m \in Mail \ {holds[g]} : Settled(m) => Settled(m)'
    BY <1>0, <1>5, SettleEffect DEF Settled, Apart
  <2>2. ASSUME NEW m \in Mail, m = holds[g], Settled(m)
        PROVE  Settled(m)' \/ excused'[m] = excused[m] + 1
    <3>1. place[m] # "gone"
      BY <1>5, <2>2, SettleEffect DEF IInv, BrokerKnows, InHand
    <3>2. at[g] = "acks"
      BY <1>5, <2>2, <3>1, SettleEffect DEF Settled
    <3> QED
      BY <1>5, <2>2, <3>2, SettleEffect DEF Settled
  <2>3. \A m \in Mail : excused'[m] >= excused[m]
    BY <1>b, <1>5, SettleEffect
  <2> QED
    BY <1>5, <2>1, <2>2, <2>3, CountStays, SettleEffect
<1>6. ASSUME NEW n \in Mail, Push(n) PROVE \A m \in Mail : Counted(m)'
  <2>1. \A m \in Mail : Settled(m) => Settled(m)'
    BY <1>6, PushEffect DEF Settled, InHand
  <2> QED
    BY <1>b, <1>6, <2>1, CountStays, PushEffect
<1>7. CASE LinkLost
  BY <1>b, <1>7, CountStays DEF LinkLost, Reclaim, Settled, history
<1>8. ASSUME Exit \/ Crash PROVE \A m \in Mail : Counted(m)'
  <2>1. \A m \in Mail : place[m] = "gone" => place'[m] = "gone"
    BY <1>8, EndEffect DEF Reclaim
  <2>2. CASE Exit
    <3>1. \A g \in Goroutines : at[g] = "done"
      BY <2>2 DEF Exit
    <3> QED
      BY <1>0, <1>b, <2>1, <2>2, <3>1, CountStays DEF Exit, Settled, history
  <2>3. CASE Crash
    <3>1. ASSUME NEW m \in Mail, Settled(m) PROVE Settled(m)' \/ excused'[m] = excused[m] + 1
      BY <1>0, <2>1, <2>3, <3>1 DEF Crash, Settled
    <3>2. \A m \in Mail : excused'[m] >= excused[m] /\ mailed'[m] = mailed[m]
      BY <1>b, <2>3 DEF Crash
    <3> QED
      BY <3>1, <3>2, CountStays
  <2> QED
    BY <1>8, <2>2, <2>3
<1> QED
  BY <1>1, <1>2, <1>3, <1>4, <1>5, <1>6, <1>7, <1>8, NextCases

-----------------------------------------------------------------------------
(* The theorems.                                                           *)

LEMMA InitIInv == Init => IInv
<1> SUFFICES ASSUME Init PROVE IInv
  OBVIOUS
<1> USE DEF Init, ConnInit
<1>1. TypeOK /\ ConnInv
  BY DEF TypeOK, ConnInv, ConnTypeOK, OneConnection, Steps, Handling
<1>2. EndIsDue /\ NobodyLeft
  BY DEF EndIsDue, NobodyLeft, Running
<1>3. \A g \in Goroutines : Waiting(g) = {} /\ IsInjective(inbox[g])
  BY EmptyFacts DEF Waiting
<1>4. HandsAreOwn
  BY <1>3 DEF HandsAreOwn, HandsOf
<1>5. BrokerKnows /\ NothingLost
  BY <1>3 DEF BrokerKnows, NothingLost, InHand
<1>6. StepsAreEarned /\ MailIsCounted
  BY DEF StepsAreEarned, Earned, MailIsCounted
<1> QED
  BY <1>1, <1>2, <1>4, <1>5, <1>6 DEF IInv

LEMMA NextIInv == IInv /\ [Next]_vars => IInv'
<1> SUFFICES ASSUME IInv, [Next]_vars PROVE IInv'
  OBVIOUS
<1>1. MailIsCounted'
  BY NextCounted DEF MailIsCounted, Counted
<1> QED
  BY <1>1, NextTypes, NextConnection, NextProcess, NextHands, NextKnows, NextEarned, NextLost DEF IInv

(* Whatever the number of messages, outages, ends of the process and SMTP  *)
(* failures: who is past the mutex is alone, a delivery is in one pair of  *)
(* hands and known to the broker while its channel lives, and each step of *)
(* its handling vouches for what the code did before.                      *)
THEOREM InvariantHolds == Spec => []IInv
  BY InitIInv, NextIInv, PTL DEF Spec

(* The variables keep their types; a goroutine holds a delivery exactly    *)
(* while it is inside handle.                                              *)
THEOREM TypesHold == Spec => []TypeOK
<1>1. IInv => TypeOK
  BY DEF IInv
<1> QED
  BY <1>1, InvariantHolds, PTL

(* Channel() never leaves the process with two connections, for any number *)
(* of outages: the connection is looked at under the mutex.                *)
THEOREM OneConnectionHolds == Spec => []OneConnection
<1>1. IInv => OneConnection
  BY DEF IInv, ConnInv
<1> QED
  BY <1>1, InvariantHolds, PTL

(* No delivery leaves its queue without its mail, or without a reply that  *)
(* says so, and none is forgotten by a consumer whose channel lives.       *)
THEOREM NothingIsLost == Spec => []NothingLost
<1>1. IInv => NothingLost
  BY DEF IInv
<1> QED
  BY <1>1, InvariantHolds, PTL

(* One mail for each message, and one more for each SMTP answer, reply or  *)
(* acknowledgement that was lost after the mail was taken.                 *)
THEOREM DuplicatesHaveReasons == Spec => []DuplicatesAreAccounted
<1>1. IInv => DuplicatesAreAccounted
  <2>1. ASSUME TypeOK, MailIsCounted, NEW m \in Mail PROVE mailed[m] <= 1 + excused[m]
    <3>1. mailed[m] \in Nat /\ excused[m] \in Nat
      BY <2>1 DEF TypeOK
    <3>2. mailed[m] <= excused[m] + IF Settled(m) THEN 1 ELSE 0
      BY <2>1 DEF MailIsCounted
    <3> QED
      BY <3>1, <3>2
  <2> QED
    BY <2>1 DEF IInv, DuplicatesAreAccounted
<1> QED
  BY <1>1, InvariantHolds, PTL
=============================================================================
