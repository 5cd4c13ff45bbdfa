-------------------------- MODULE KeepaliveProofs ---------------------------
(***************************************************************************)
(* Proof about Keepalive, for any KA_INTERVAL and KA_TIMEOUT, that on a    *)
(* good link without traffic a sign of life comes within KA_INTERVAL and   *)
(* one tick.  last_tx alone does not show that something was sent, since   *)
(* it is also assigned where nothing is queued; the argument is that this  *)
(* happens only around an event of a channel, so that later an old last_tx *)
(* means an old event, and a recent one a frame that was or will be read.  *)
(* Hence a link that carries no traffic at all is never timed out.         *)
(***************************************************************************)
EXTENDS Keepalive, SequenceTheorems, TLAPS

Control == {"F_PING", "F_PONG"}
Frames == Control \cup {"F_DATA"}

TypeOK ==
    /\ rx_age \in [Sides -> Nat]
    /\ tx_age \in [Sides -> Nat]
    /\ txq \in [Sides -> Seq(Frames)]
    /\ net \in [Sides -> Seq(Frames)]
    /\ disconnected \in [Sides -> BOOLEAN]
    /\ ran \in [Sides -> BOOLEAN]
    /\ cable \in BOOLEAN
    /\ quiet \in Nat

\* A frame of s is on its way.
Sending(s) == txq[s] # <<>> \/ net[s] # <<>>

Connected == cable /\ \A s \in Sides : ~disconnected[s]

\* An age counts no further than the timeout and one tick.
Capped == \A s \in Sides : rx_age[s] <= KA_TIMEOUT + 1

\* A tick after the latest event of a channel no data is on its way.
OnlyControl ==
    cable /\ quiet > 0 => \A s \in Sides : txq[s] \in Seq(Control) /\ net[s] \in Seq(Control)

\* last_tx of s is from the latest event of a channel or before, or stands for
\* a frame that the peer has read since or is yet to read.
Honest(s) ==
    \/ Sending(s) \/ rx_age[Peer(s)] <= tx_age[s]
    \/ tx_age[s] >= quiet \/ tx_age[s] > KA_TIMEOUT

\* The timers of s have run: it has sent within the interval, or does now.
Prompt(s) == ran[s] => tx_age[s] < KA_INTERVAL \/ Sending(s) \/ rx_age[Peer(s)] = 0

Heard(s) == quiet > KA_INTERVAL => rx_age[s] <= KA_INTERVAL + 1

Inv ==
    /\ TypeOK /\ Capped /\ OnlyControl
    /\ Connected => \A s \in Sides : Honest(s) /\ Prompt(s) /\ Heard(s)

-----------------------------------------------------------------------------
\* The two sides.
LEMMA Two ==
    ASSUME NEW s \in Sides
    PROVE  Peer(s) \in Sides /\ Peer(s) # s /\ Peer(Peer(s)) = s /\ Sides = {s, Peer(s)}
BY DEF Sides, Peer

\* How an age grows.
LEMMA OlderMeans ==
    ASSUME NEW age \in [Sides -> Nat]
    PROVE  /\ Older(age) \in [Sides -> Nat]
           /\ \A s \in Sides : \/ age[s] > KA_TIMEOUT /\ Older(age)[s] = age[s]
                               \/ age[s] <= KA_TIMEOUT /\ Older(age)[s] = age[s] + 1
BY TimesAssumption DEF Older

\* A step that leaves the ages, timers and events alone, and loses nothing that
\* is on its way.
LEMMA SendingKeeps ==
    ASSUME Inv, TypeOK', OnlyControl', Connected' => Connected,
           UNCHANGED <<rx_age, tx_age, quiet, ran>>,
           Connected' => \A s \in Sides : Sending(s) => Sending(s)'
    PROVE  Inv'
<1>1. Capped'
  BY DEF Inv, Capped
<1>2. ASSUME Connected', NEW s \in Sides PROVE Honest(s)' /\ Prompt(s)' /\ Heard(s)'
  <2>1. Honest(s) /\ Prompt(s) /\ Heard(s) /\ (Sending(s) => Sending(s)')
    BY <1>2 DEF Inv
  <2> QED  BY <2>1 DEF Honest, Prompt, Heard
<1> QED  BY <1>1, <1>2 DEF Inv

\* A tick of the clock, which waits for the timers of both sides.
LEMMA TickKeeps ==
    ASSUME Inv, Tick
    PROVE  Inv'
<1>1. /\ rx_age' = Older(rx_age) /\ tx_age' = Older(tx_age) /\ ran' = [s \in Sides |-> FALSE]
      /\ txq' = txq /\ net' = net /\ disconnected' = disconnected /\ cable' = cable
      /\ \A s \in Sides : ran[s]
      /\ cable => \A s \in Sides : txq[s] = <<>> /\ net[s] = <<>>
  BY DEF Tick
<1>2. /\ rx_age \in [Sides -> Nat] /\ tx_age \in [Sides -> Nat] /\ quiet \in Nat
      /\ KA_INTERVAL \in Nat /\ KA_TIMEOUT \in Nat
  BY TimesAssumption DEF Inv, TypeOK
<1>3. \/ quiet > KA_INTERVAL /\ quiet' = quiet
      \/ quiet <= KA_INTERVAL /\ quiet' = quiet + 1
  BY <1>2 DEF Tick
<1>4. /\ rx_age' \in [Sides -> Nat] /\ tx_age' \in [Sides -> Nat]
      /\ \A s \in Sides : /\ \/ rx_age[s] > KA_TIMEOUT /\ rx_age'[s] = rx_age[s]
                             \/ rx_age[s] <= KA_TIMEOUT /\ rx_age'[s] = rx_age[s] + 1
                          /\ \/ tx_age[s] > KA_TIMEOUT /\ tx_age'[s] = tx_age[s]
                             \/ tx_age[s] <= KA_TIMEOUT /\ tx_age'[s] = tx_age[s] + 1
  BY <1>1, <1>2, OlderMeans
<1>5. TypeOK'
  <2>1. quiet' \in Nat
    BY <1>2, <1>3
  <2>2. ran' \in [Sides -> BOOLEAN]
    BY <1>1
  <2> QED  BY <1>1, <1>4, <2>1, <2>2 DEF Inv, TypeOK
<1>6. Capped'
  <2>1. ASSUME NEW s \in Sides PROVE rx_age'[s] <= KA_TIMEOUT + 1
    <3>1. rx_age[s] \in Nat /\ rx_age[s] <= KA_TIMEOUT + 1
      BY <1>2 DEF Inv, Capped
    <3> QED  BY <1>2, <1>4, <3>1
  <2> QED  BY <2>1 DEF Capped
<1>7. OnlyControl'
  <2>1. <<>> \in Seq(Control)
    BY EmptySeq
  <2> QED  BY <1>1, <2>1, Zenon DEF OnlyControl
<1>8. ASSUME Connected', NEW s \in Sides PROVE Honest(s)' /\ Prompt(s)' /\ Heard(Peer(s))'
  <2> DEFINE p == Peer(s)
  <2>1. p \in Sides
    BY Two
  <2>2. Connected /\ ~Sending(s) /\ ran[s]
    BY <1>1, <1>8 DEF Connected, Sending
  <2>3. Honest(s) /\ Prompt(s) /\ rx_age[p] <= KA_TIMEOUT + 1
    BY <2>1, <2>2 DEF Inv, Capped
  <2>4. /\ rx_age[p] <= tx_age[s] \/ tx_age[s] >= quiet \/ tx_age[s] > KA_TIMEOUT
        /\ tx_age[s] < KA_INTERVAL \/ rx_age[p] = 0
    BY <2>2, <2>3 DEF Honest, Prompt
  <2>5. /\ \/ rx_age[p] > KA_TIMEOUT /\ rx_age'[p] = rx_age[p]
           \/ rx_age[p] <= KA_TIMEOUT /\ rx_age'[p] = rx_age[p] + 1
        /\ \/ tx_age[s] > KA_TIMEOUT /\ tx_age'[s] = tx_age[s]
           \/ tx_age[s] <= KA_TIMEOUT /\ tx_age'[s] = tx_age[s] + 1
        /\ rx_age[p] \in Nat /\ tx_age[s] \in Nat
    BY <1>2, <1>4, <2>1
  <2> HIDE DEF p
  <2>6. rx_age'[p] <= tx_age'[s] \/ tx_age'[s] >= quiet' \/ tx_age'[s] > KA_TIMEOUT
    BY <1>2, <1>3, <2>4, <2>5
  <2>7. quiet' > KA_INTERVAL => rx_age'[p] <= KA_INTERVAL + 1
    BY <1>2, <1>3, <2>3, <2>4, <2>5
  <2>8. ~ran'[s]
    BY <1>1
  <2> QED  BY <2>6, <2>7, <2>8 DEF Honest, Prompt, Heard, p
<1>9. ASSUME Connected', NEW s \in Sides PROVE Heard(s)'
  <2>1. Peer(s) \in Sides /\ Peer(Peer(s)) = s
    BY Two
  <2>2. Heard(Peer(Peer(s)))'
    BY <1>8, <1>9, <2>1
  <2> QED  BY <2>1, <2>2
<1> QED  BY <1>5, <1>6, <1>7, <1>8, <1>9 DEF Inv

\* The cable is cut.
LEMMA CutKeeps ==
    ASSUME Inv, Cut
    PROVE  Inv'
<1>1. <<>> \in Seq(Frames)
  BY EmptySeq
<1>2. TypeOK'
  BY <1>1, Zenon DEF Inv, TypeOK, Cut
<1>3. ~cable'
  BY DEF Cut
<1> QED  BY <1>2, <1>3 DEF Inv, Cut, Capped, OnlyControl, Connected

\* The timers.
LEMMA TimersKeep ==
    ASSUME Inv, NEW s \in Sides, tick_keepalive(s)
    PROVE  Inv'
<1> DEFINE p == Peer(s)
<1>1. /\ rx_age' = rx_age /\ net' = net /\ cable' = cable /\ quiet' = quiet
      /\ ran' = [ran EXCEPT ![s] = TRUE] /\ ~disconnected[s]
  BY DEF tick_keepalive
<1>2. /\ rx_age \in [Sides -> Nat] /\ tx_age \in [Sides -> Nat] /\ quiet \in Nat
      /\ txq \in [Sides -> Seq(Frames)] /\ net \in [Sides -> Seq(Frames)]
      /\ disconnected \in [Sides -> BOOLEAN] /\ ran \in [Sides -> BOOLEAN] /\ cable \in BOOLEAN
      /\ KA_INTERVAL \in Nat /\ KA_TIMEOUT \in Nat
  BY TimesAssumption DEF Inv, TypeOK
<1>3. p \in Sides /\ p # s /\ Peer(p) = s /\ Sides = {s, p}
  BY Two
<1>4. ran' \in [Sides -> BOOLEAN]
  BY <1>1, <1>2
<1>5. Capped'
  BY <1>1 DEF Inv, Capped
<1>6. CASE expired(s)
  <2>1. /\ disconnected' = [disconnected EXCEPT ![s] = TRUE]
        /\ txq' = [txq EXCEPT ![s] = <<>>] /\ tx_age' = tx_age
    BY <1>6 DEF tick_keepalive
  <2>2. <<>> \in Seq(Frames) /\ <<>> \in Seq(Control)
    BY EmptySeq
  <2>3. TypeOK'
    BY <1>1, <1>2, <1>4, <2>1, <2>2 DEF TypeOK
  <2>4. OnlyControl'
    BY <1>1, <1>2, <2>1, <2>2 DEF Inv, OnlyControl
  <2>5. ~Connected'
    BY <1>2, <2>1 DEF Connected
  <2> QED  BY <1>5, <2>3, <2>4, <2>5 DEF Inv
<1>7. CASE ~expired(s)
  <2>1. /\ disconnected' = disconnected
        /\ txq' = IF idle(s) THEN [txq EXCEPT ![s] = <<"F_PING">>] ELSE txq
        /\ tx_age' = IF txq'[s] # <<>> THEN [tx_age EXCEPT ![s] = 0] ELSE tx_age
    BY <1>7 DEF tick_keepalive
  <2>2. <<"F_PING">> \in Seq(Frames) /\ <<"F_PING">> \in Seq(Control) /\ <<"F_PING">> # <<>>
    BY DEF Frames, Control
  <2>3. /\ txq' \in [Sides -> Seq(Frames)] /\ tx_age' \in [Sides -> Nat] /\ txq'[p] = txq[p]
        /\ tx_age'[p] = tx_age[p] /\ (txq[s] # <<>> => txq'[s] # <<>>)
        /\ txq'[s] \in {<<"F_PING">>, txq[s]}
    BY <1>2, <1>3, <2>1, <2>2
  <2>4. TypeOK'
    BY <1>1, <1>2, <1>4, <2>1, <2>3 DEF TypeOK
  <2>5. OnlyControl'
    BY <1>1, <1>3, <2>2, <2>3, Zenon DEF Inv, OnlyControl
  <2>6. ASSUME Connected' PROVE \A t \in Sides : Honest(t)' /\ Prompt(t)' /\ Heard(t)'
    <3>1. Connected
      BY <1>1, <2>1, <2>6 DEF Connected
    <3>2. \A t \in Sides : Honest(t) /\ Prompt(t) /\ Heard(t)
      BY <3>1 DEF Inv
    <3>3. Honest(p)' /\ Prompt(p)'
      <4>1. ran'[p] = ran[p]
        BY <1>1, <1>2, <1>3
      <4>2. Honest(p) /\ Prompt(p)
        BY <1>3, <3>2
      <4> QED  BY <1>1, <1>3, <2>3, <4>1, <4>2 DEF Honest, Prompt, Sending
    <3>4. CASE txq'[s] # <<>>
      <4>1. Honest(s)' /\ Prompt(s)'
        BY <3>4 DEF Honest, Prompt, Sending
      <4> QED  BY <1>1, <1>3, <3>2, <3>3, <4>1 DEF Heard
    <3>5. CASE txq'[s] = <<>>
      <4>1. tx_age' = tx_age /\ txq[s] = <<>> /\ ~idle(s)
        BY <1>2, <2>1, <2>2, <3>5
      <4>2. tx_age[s] < KA_INTERVAL
        BY <1>2, <4>1 DEF idle
      <4>3. Prompt(s)'
        BY <4>1, <4>2 DEF Prompt
      <4>4. Honest(s)
        BY <3>2
      <4>5. Honest(s)'
        BY <1>1, <3>5, <4>1, <4>4 DEF Honest, Sending
      <4> QED  BY <1>1, <1>3, <3>2, <3>3, <4>3, <4>5 DEF Heard
    <3> QED  BY <3>4, <3>5
  <2> QED  BY <1>5, <2>4, <2>5, <2>6 DEF Inv
<1> QED  BY <1>6, <1>7

\* The timers of a side that is disconnected do nothing.
LEMMA DisconnectedKeeps ==
    ASSUME Inv, NEW s \in Sides, tick_disconnected(s)
    PROVE  Inv'
<1>1. UNCHANGED <<rx_age, tx_age, txq, net, disconnected, cable, quiet>> /\ disconnected[s]
      /\ ran' = [ran EXCEPT ![s] = TRUE]
  BY DEF tick_disconnected
<1>2. TypeOK'
  BY <1>1 DEF Inv, TypeOK
<1>3. ~Connected'
  BY <1>1 DEF Connected
<1> QED  BY <1>1, <1>2, <1>3 DEF Inv, Capped, OnlyControl

\* What is queued is written, and stays on its way.
LEMMA WriteKeeps ==
    ASSUME Inv, NEW s \in Sides, link_write(s)
    PROVE  Inv'
<1> DEFINE n == net[s] \o txq[s]
<1>1. /\ UNCHANGED <<rx_age, tx_age, quiet, ran, cable, disconnected>>
      /\ txq[s] # <<>> /\ txq' = [txq EXCEPT ![s] = <<>>]
      /\ net' = IF cable THEN [net EXCEPT ![s] = n] ELSE net
  BY DEF link_write
<1>2. txq \in [Sides -> Seq(Frames)] /\ net \in [Sides -> Seq(Frames)]
  BY DEF Inv, TypeOK
<1>3. n \in Seq(Frames) /\ n # <<>>
  BY <1>1, <1>2, ConcatProperties
<1>4. txq[s] \in Seq(Control) /\ net[s] \in Seq(Control) => n \in Seq(Control)
  BY ConcatProperties
<1>5. <<>> \in Seq(Frames) /\ <<>> \in Seq(Control)
  BY EmptySeq
<1> HIDE DEF n
<1>6. TypeOK'
  BY <1>1, <1>2, <1>3, <1>5 DEF Inv, TypeOK
<1>7. OnlyControl'
  BY <1>1, <1>2, <1>4, <1>5 DEF Inv, OnlyControl
<1>8. Connected' => Connected
  BY <1>1 DEF Connected
<1>9. ASSUME Connected', NEW t \in Sides, Sending(t) PROVE Sending(t)'
  <2>1. cable
    BY <1>1, <1>9 DEF Connected
  <2>2. CASE t = s
    BY <1>1, <1>2, <1>3, <2>1, <2>2 DEF Sending
  <2>3. CASE t # s
    BY <1>1, <1>2, <1>9, <2>1, <2>3 DEF Sending
  <2> QED  BY <2>2, <2>3
<1> QED  BY <1>1, <1>6, <1>7, <1>8, <1>9, SendingKeeps

\* A frame is read.
LEMMA ReadKeeps ==
    ASSUME Inv, NEW s \in Sides, link_read(s)
    PROVE  Inv'
<1> DEFINE p == Peer(s)
           f == Head(net[p])
           t == Tail(net[p])
           q == txq[s] \o reply(f)
<1>1. p \in Sides /\ p # s /\ Peer(p) = s /\ Sides = {s, p}
  BY Two
<1>2. /\ rx_age \in [Sides -> Nat] /\ tx_age \in [Sides -> Nat] /\ quiet \in Nat
      /\ txq \in [Sides -> Seq(Frames)] /\ net \in [Sides -> Seq(Frames)]
      /\ KA_INTERVAL \in Nat /\ KA_TIMEOUT \in Nat
  BY TimesAssumption DEF Inv, TypeOK
<1>3. /\ net[p] # <<>> /\ txq' = [txq EXCEPT ![s] = q] /\ net' = [net EXCEPT ![p] = t]
      /\ tx_age' = IF touches_tx(f) THEN [tx_age EXCEPT ![s] = 0] ELSE tx_age
      /\ rx_age' = [rx_age EXCEPT ![s] = 0]
      /\ UNCHANGED <<disconnected, ran, cable, quiet>>
  BY DEF link_read
<1>4. f \in Frames /\ t \in Seq(Frames)
  BY <1>1, <1>2, <1>3, HeadTailProperties
<1>5. net[p] \in Seq(Control) => f \in Control /\ t \in Seq(Control)
  BY <1>3, HeadTailProperties
<1> HIDE DEF f, t
<1>6. reply(f) \in Seq(Control) /\ reply(f) \in Seq(Frames) /\ (f = "F_PING" => reply(f) # <<>>)
  BY DEF reply, Control, Frames
<1>7. /\ q \in Seq(Frames) /\ (txq[s] \in Seq(Control) => q \in Seq(Control))
      /\ (f = "F_PING" => q # <<>>) /\ (txq[s] # <<>> => q # <<>>)
  BY <1>2, <1>6, ConcatProperties
<1> HIDE DEF q, p
<1>8. /\ txq'[s] = q /\ txq'[p] = txq[p] /\ net'[p] = t /\ net'[s] = net[s]
      /\ rx_age'[s] = 0 /\ rx_age'[p] = rx_age[p] /\ tx_age'[p] = tx_age[p]
      /\ tx_age'[s] = IF touches_tx(f) THEN 0 ELSE tx_age[s]
  BY <1>1, <1>2, <1>3
<1>9. TypeOK'
  BY <1>1, <1>2, <1>3, <1>4, <1>7 DEF Inv, TypeOK
<1>10. Capped'
  BY <1>1, <1>2, <1>8 DEF Inv, Capped
<1>11. OnlyControl'
  BY <1>1, <1>3, <1>5, <1>7, <1>8 DEF Inv, OnlyControl
<1>12. ASSUME Connected' PROVE \A x \in Sides : Honest(x)' /\ Prompt(x)' /\ Heard(x)'
  <2>1. Connected
    BY <1>3, <1>12 DEF Connected
  <2>2. \A x \in Sides : Honest(x) /\ Prompt(x) /\ Heard(x)
    BY <2>1 DEF Inv
  <2>3. Heard(s)' /\ Heard(p)'
    BY <1>1, <1>2, <1>3, <1>8, <2>2 DEF Heard
  <2>4. Honest(p)' /\ Prompt(p)'
    BY <1>1, <1>2, <1>8 DEF Honest, Prompt
  <2>5. Prompt(s)'
    <3>1. Sending(s) => Sending(s)'
      BY <1>7, <1>8 DEF Sending
    <3>2. Peer(s) = p
      BY DEF p
    <3>3. CASE tx_age'[s] = tx_age[s]
      BY <1>3, <1>8, <2>2, <3>1, <3>2, <3>3 DEF Prompt
    <3>4. CASE tx_age'[s] = 0
      <4>1. CASE KA_INTERVAL > 0
        BY <1>2, <3>4, <4>1 DEF Prompt
      <4>2. CASE KA_INTERVAL = 0
        <5>1. ~(tx_age[s] < KA_INTERVAL)
          BY <1>2, <4>2
        <5> QED  BY <1>3, <1>8, <2>2, <3>1, <3>2, <5>1 DEF Prompt
      <4> QED  BY <1>2, <4>1, <4>2
    <3> QED  BY <1>8, <3>3, <3>4
  <2>6. Honest(s)'
    <3>1. Sending(s) => Sending(s)'
      BY <1>7, <1>8 DEF Sending
    <3>2. Peer(s) = p
      BY DEF p
    <3>3. CASE ~touches_tx(f)
      BY <1>3, <1>8, <2>2, <3>1, <3>2, <3>3 DEF Honest
    <3>4. CASE quiet = 0
      <4>1. tx_age'[s] >= quiet'
        BY <1>2, <1>3, <1>8, <3>4
      <4> QED  BY <4>1 DEF Honest
    <3>5. CASE touches_tx(f) /\ quiet > 0
      <4>1. f \in Control
        BY <1>1, <1>5, <2>1, <3>5 DEF Inv, OnlyControl, Connected
      <4>2. f = "F_PING"
        BY <3>5, <4>1 DEF Control, touches_tx
      <4> QED  BY <1>7, <1>8, <4>2 DEF Honest, Sending
    <3> QED  BY <1>2, <3>3, <3>4, <3>5
  <2> QED  BY <1>1, <2>3, <2>4, <2>5, <2>6
<1> QED  BY <1>9, <1>10, <1>11, <1>12 DEF Inv

\* An event of a channel.
LEMMA EventKeeps ==
    ASSUME Inv, NEW s \in Sides, channel_event(s)
    PROVE  Inv'
<1>1. /\ tx_age' = [tx_age EXCEPT ![s] = 0] /\ quiet' = 0
      /\ UNCHANGED <<rx_age, net, disconnected, ran, cable>>
  BY DEF channel_event
<1>2. PICK d \in {<<>>, <<"F_DATA">>} : txq' = [txq EXCEPT ![s] = txq[s] \o d]
  BY Zenon DEF channel_event
<1>3. /\ rx_age \in [Sides -> Nat] /\ tx_age \in [Sides -> Nat] /\ txq \in [Sides -> Seq(Frames)]
      /\ KA_INTERVAL \in Nat /\ KA_TIMEOUT \in Nat
  BY TimesAssumption DEF Inv, TypeOK
<1>4. d \in Seq(Frames)
  <2>1. <<"F_DATA">> \in Seq(Frames) /\ <<>> \in Seq(Frames)
    BY DEF Frames
  <2> QED  BY <2>1, Zenon
<1>5. txq[s] \o d \in Seq(Frames) /\ (txq[s] # <<>> => txq[s] \o d # <<>>)
  BY <1>3, <1>4, ConcatProperties
<1>6. TypeOK'
  BY <1>1, <1>2, <1>3, <1>5 DEF Inv, TypeOK
<1>7. Capped' /\ OnlyControl'
  BY <1>1 DEF Inv, Capped, OnlyControl
<1>8. ASSUME Connected', NEW t \in Sides PROVE Honest(t)' /\ Prompt(t)' /\ Heard(t)'
  <2>1. Prompt(t)
    BY <1>1, <1>8 DEF Inv, Connected
  <2>2. Sending(t) => Sending(t)'
    BY <1>1, <1>2, <1>3, <1>5 DEF Sending
  <2>3. tx_age'[t] \in Nat /\ tx_age'[t] <= tx_age[t] /\ tx_age[t] \in Nat
    BY <1>1, <1>3
  <2>4. tx_age'[t] >= quiet' /\ ~(quiet' > KA_INTERVAL)
    BY <1>1, <1>3, <2>3
  <2>5. tx_age[t] < KA_INTERVAL => tx_age'[t] < KA_INTERVAL
    BY <1>3, <2>3
  <2> QED  BY <1>1, <2>1, <2>2, <2>4, <2>5 DEF Honest, Prompt, Heard
<1> QED  BY <1>6, <1>7, <1>8 DEF Inv

-----------------------------------------------------------------------------
\* The invariant holds in every behaviour.
LEMMA Always == Spec => []Inv
<1>1. Init => Inv
  <2> SUFFICES ASSUME Init PROVE Inv
    OBVIOUS
  <2>1. <<>> \in Seq(Frames) /\ <<>> \in Seq(Control)
    BY EmptySeq
  <2>2. \A s \in Sides : Peer(s) \in Sides
    BY Two
  <2> QED  BY <2>1, <2>2, TimesAssumption
           DEF Init, Inv, TypeOK, Capped, OnlyControl, Honest, Prompt, Heard
<1>2. Inv /\ [Next]_vars => Inv'
  <2> SUFFICES ASSUME Inv, [Next]_vars PROVE Inv'
    OBVIOUS
  <2>1. CASE UNCHANGED vars
    BY <2>1 DEF vars, Inv, TypeOK, Capped, OnlyControl, Connected, Honest, Prompt, Heard, Sending
  <2> QED  BY <2>1, TickKeeps, CutKeeps, TimersKeep, DisconnectedKeeps, WriteKeeps, ReadKeeps,
              EventKeeps DEF Next
<1> QED  BY <1>1, <1>2, PTL DEF Spec

\* Once both sides have been without traffic for longer than KA_INTERVAL, each
\* hears of the other within KA_INTERVAL and a tick, whatever came before
\* (tick_keepalive, dispatch_frame, and every place that assigns last_tx).
THEOREM QuietLinkIsHeard == Spec => []HeardWithinInterval
<1>1. Inv => HeardWithinInterval
  BY DEF Inv, Connected, Heard, HeardWithinInterval
<1> QED  BY <1>1, Always, PTL

\* Until the interval is over no age can have passed it.
Young == quiet <= KA_INTERVAL => \A s \in Sides : rx_age[s] <= quiet

\* Without traffic on the channels a timeout never closes a good link
\* (tick_keepalive): that it does so under one-way traffic is due to last_tx
\* being assigned for frames that are received, not to the intervals.
THEOREM IdleLinkStaysUp ==
    ASSUME Busy = {}, KA_INTERVAL < KA_TIMEOUT
    PROVE  Spec => []GoodLinkStaysUp
<1>0. KA_INTERVAL \in Nat /\ KA_TIMEOUT \in Nat
  BY TimesAssumption
<1>1. Init => Young /\ GoodLinkStaysUp
  BY <1>0 DEF Init, Young, GoodLinkStaysUp
<1>2. Inv /\ Young /\ GoodLinkStaysUp /\ [Next]_vars => Young' /\ GoodLinkStaysUp'
  <2> SUFFICES ASSUME Inv, Young, GoodLinkStaysUp, [Next]_vars PROVE Young' /\ GoodLinkStaysUp'
    OBVIOUS
  <2>1. rx_age \in [Sides -> Nat] /\ quiet \in Nat
    BY DEF Inv, TypeOK
  <2>2. CASE Tick
    <3>1. /\ \A s \in Sides : rx_age'[s] <= rx_age[s] + 1 /\ rx_age'[s] \in Nat
          /\ UNCHANGED <<cable, disconnected>>
      <4>1. rx_age' = Older(rx_age) /\ UNCHANGED <<cable, disconnected>>
        BY <2>2, Zenon DEF Tick
      <4>2. ASSUME NEW s \in Sides PROVE rx_age'[s] <= rx_age[s] + 1 /\ rx_age'[s] \in Nat
        <5> DEFINE a == rx_age[s]
                   b == rx_age'[s]
        <5>1. a \in Nat /\ (b = a \/ b = a + 1)
          BY <2>1, <4>1, OlderMeans, Zenon
        <5> HIDE DEF a, b
        <5>2. b <= a + 1 /\ b \in Nat
          BY <5>1
        <5> QED  BY <5>2, Zenon DEF a, b
      <4> QED  BY <4>1, <4>2, Zenon
    <3>2. quiet' <= KA_INTERVAL => quiet <= KA_INTERVAL /\ quiet' = quiet + 1
      BY <1>0, <2>1, <2>2 DEF Tick
    <3>3. Young'
      BY <1>0, <2>1, <3>1, <3>2 DEF Young
    <3> QED  BY <3>1, <3>3 DEF GoodLinkStaysUp
  <2>3. ASSUME NEW s \in Sides, tick_keepalive(s) PROVE Young' /\ GoodLinkStaysUp'
    <3>1. UNCHANGED <<rx_age, quiet, cable>>
      BY <2>3 DEF tick_keepalive
    <3>2. CASE cable
      <4>1. Heard(s)
        BY <3>2 DEF Inv, Connected, GoodLinkStaysUp
      <4>2. rx_age[s] \in Nat /\ (quiet <= KA_INTERVAL => rx_age[s] <= quiet)
        BY <2>1 DEF Young
      <4>3. ~expired(s)
        BY <1>0, <2>1, <4>1, <4>2 DEF Heard, expired
      <4> QED  BY <2>3, <3>1, <4>3 DEF tick_keepalive, Young, GoodLinkStaysUp
    <3>3. CASE ~cable
      BY <3>1, <3>3 DEF Young, GoodLinkStaysUp
    <3> QED  BY <3>2, <3>3
  <2>4. ASSUME NEW s \in Sides, link_read(s) PROVE Young' /\ GoodLinkStaysUp'
    <3>1. rx_age' = [rx_age EXCEPT ![s] = 0] /\ UNCHANGED <<quiet, cable, disconnected>>
      BY <2>4 DEF link_read
    <3>2. \A t \in Sides : rx_age'[t] = rx_age[t] \/ rx_age'[t] = 0
      BY <2>1, <3>1
    <3>3. Young'
      BY <2>1, <3>1, <3>2 DEF Young
    <3> QED  BY <3>1, <3>3 DEF GoodLinkStaysUp
  <2>5. CASE Cut
    BY <2>5 DEF Cut, Young, GoodLinkStaysUp
  <2>6. ASSUME NEW s \in Sides, tick_disconnected(s) \/ link_write(s) PROVE Young' /\ GoodLinkStaysUp'
    <3>1. UNCHANGED <<rx_age, quiet, cable, disconnected>>
      BY <2>6, Zenon DEF tick_disconnected, link_write
    <3> QED  BY <3>1 DEF Young, GoodLinkStaysUp
  <2>7. ASSUME NEW s \in Sides, channel_event(s) PROVE FALSE
    BY <2>7 DEF channel_event
  <2>8. CASE UNCHANGED vars
    BY <2>8 DEF vars, Young, GoodLinkStaysUp
  <2> QED  BY <2>2, <2>3, <2>4, <2>5, <2>6, <2>7, <2>8 DEF Next
<1> QED  BY <1>1, <1>2, Always, PTL DEF Spec
=============================================================================
