---------------------------- MODULE DetectorProofs ----------------------------
(***************************************************************************)
(* Theorems about the detectors arp_spoof, for any addresses, MACs and      *)
(* cooldown, and ml_anomaly, for any buffer, warm-up and retraining         *)
(* interval.  The two have no state in common.                              *)
(***************************************************************************)
EXTENDS ArpSpoof, MlAnomaly, SequenceTheorems, TLAPS

-----------------------------------------------------------------------------
(* ArpSpoof *)

Claim == [mac : Macs, time : Nat]
Binding == [mac : Macs \cup {NoMac}, seen_count : Nat]
Alert == [ip : IPs, old : Macs, old_count : Nat, new : Macs, time : Nat,
          severity : {"critical", "high"}]

\* The binding b agrees with the replies s: TableIsLatest for one address.
SameMac(s, n) == \A i \in Len(s) - n + 1 .. Len(s) : s[i].mac = Last(s).mac

Latest(b, s) ==
  IF s = <<>> THEN b = Unbound
  ELSE /\ b.mac = Last(s).mac
       /\ b.seen_count \in 1 .. Len(s)
       /\ SameMac(s, b.seen_count)
       /\ b.seen_count < Len(s) => ~SameMac(s, b.seen_count + 1)

-----------------------------------------------------------------------------
(* Lemmas about sequences of replies *)

\* What Append does to a sequence of replies.
LEMMA AppendClaim ==
  ASSUME NEW s \in Seq(Claim), NEW c \in Claim
  PROVE  /\ Append(s, c) \in Seq(Claim)
         /\ Len(s) \in Nat
         /\ Len(Append(s, c)) = Len(s) + 1
         /\ \A i \in 1 .. Len(s) : Append(s, c)[i] = s[i]
         /\ Append(s, c)[Len(s) + 1] = c
         /\ Last(Append(s, c)) = c
         /\ Append(s, c) # <<>>
         /\ s # <<>> => Len(s) >= 1 /\ s[Len(s)] = Last(s) /\ Last(s) \in Claim
         /\ s = <<>> => Len(s) = 0
<1>1. /\ Append(s, c) \in Seq(Claim) /\ Len(s) \in Nat
      /\ Len(Append(s, c)) = Len(s) + 1
      /\ \A i \in 1 .. Len(s) : Append(s, c)[i] = s[i]
      /\ Append(s, c)[Len(s) + 1] = c
  OBVIOUS
<1>2. Append(s, c) # <<>>
  BY <1>1
<1>3. s # <<>> => Len(s) >= 1
  BY EmptySeq, <1>1
<1>4. s # <<>> => s[Len(s)] = Last(s) /\ Last(s) \in Claim
  BY <1>1, <1>3 DEF Last
<1> QED
  BY <1>1, <1>2, <1>3, <1>4, EmptySeq DEF Last

\* MacTable.observe() keeps a binding in agreement with the replies: the count
\* goes on under the same MAC and begins again under another.
LEMMA ObservedIsLatest ==
  ASSUME NEW s \in Seq(Claim), NEW c \in Claim, NEW b \in Binding, Latest(b, s)
  PROVE  Latest(Observed(b, c.mac), Append(s, c))
<1> DEFINE t == Append(s, c)
           o == Observed(b, c.mac)
<1>1. /\ Len(s) \in Nat /\ Len(t) = Len(s) + 1 /\ t # <<>> /\ Last(t) = c
      /\ t[Len(s) + 1] = c /\ \A i \in 1 .. Len(s) : t[i] = s[i]
  BY AppendClaim
<1>2. o.mac = c.mac
  BY DEF Observed
<1> HIDE DEF t
<1>3. CASE b.mac # c.mac
  <2>1. o.seen_count = 1
    BY <1>3 DEF Observed
  <2>2. SameMac(t, 1)
    BY <1>1 DEF SameMac
  <2>3. ASSUME 1 < Len(t) PROVE ~SameMac(t, 2)
    <3>1. s # <<>> /\ Len(s) >= 1
      BY <2>3, <1>1, AppendClaim
    <3>2. Last(s).mac # c.mac /\ s[Len(s)] = Last(s)
      BY <3>1, <1>3, AppendClaim DEF Latest
    <3>3. t[Len(s)].mac # Last(t).mac /\ Len(s) \in Len(t) - 2 + 1 .. Len(t)
      BY <3>1, <3>2, <1>1
    <3> QED
      BY <3>3 DEF SameMac
  <2> QED
    BY <1>1, <1>2, <2>1, <2>2, <2>3 DEF Latest, t
<1>4. CASE b.mac = c.mac
  <2> DEFINE n == b.seen_count
  <2>1. o.seen_count = n + 1
    BY <1>4 DEF Observed
  <2>2. /\ s # <<>> /\ Len(s) >= 1 /\ s[Len(s)] = Last(s)
        /\ Last(s).mac = c.mac /\ n \in 1 .. Len(s) /\ SameMac(s, n)
        /\ n < Len(s) => ~SameMac(s, n + 1)
    <3>1. s # <<>>
      BY <1>4, MacAssumption DEF Latest, Unbound, Claim
    <3> QED
      BY <3>1, <1>4, AppendClaim DEF Latest
  <2> HIDE DEF n
  <2>3. SameMac(t, n + 1)
    <3> SUFFICES ASSUME NEW i \in Len(t) - (n + 1) + 1 .. Len(t) PROVE t[i].mac = Last(t).mac
      BY DEF SameMac
    <3>1. CASE i = Len(s) + 1
      BY <3>1, <1>1
    <3>2. CASE i \in Len(s) - n + 1 .. Len(s)
      <4>1. i \in 1 .. Len(s)
        BY <3>2, <2>2, <1>1
      <4>2. s[i].mac = Last(s).mac
        BY <3>2, <2>2 DEF SameMac
      <4> QED
        BY <4>1, <4>2, <2>2, <1>1
    <3> QED
      BY <3>1, <3>2, <1>1, <2>2
  <2>4. ASSUME n + 1 < Len(t) PROVE ~SameMac(t, n + 2)
    <3>1. n < Len(s)
      BY <2>4, <1>1, <2>2
    <3>2. PICK i \in Len(s) - (n + 1) + 1 .. Len(s) : s[i].mac # Last(s).mac
      BY <3>1, <2>2 DEF SameMac
    <3>3. i \in 1 .. Len(s) /\ i \in Len(t) - (n + 2) + 1 .. Len(t)
      BY <3>1, <2>2, <1>1
    <3>4. t[i].mac # Last(t).mac
      BY <3>2, <3>3, <2>2, <1>1
    <3> QED
      BY <3>3, <3>4 DEF SameMac
  <2>5. /\ n + 1 \in 1 .. Len(t)
        /\ n + 1 < Len(t) => ~SameMac(t, (n + 1) + 1)
    <3>1. n + 1 \in 1 .. Len(t) /\ (n + 1) + 1 = n + 2
      BY <1>1, <2>2
    <3> QED
      BY <3>1, <2>4
  <2> QED
    BY <1>1, <1>2, <2>1, <2>3, <2>5 DEF Latest, t
<1> QED
  BY <1>3, <1>4

-----------------------------------------------------------------------------
(* The inductive invariant *)

ArpTypes ==
  /\ now \in Nat /\ now >= Start
  /\ bindings \in [IPs -> Binding] /\ last_alert \in [IPs -> Nat]
  /\ claims \in [IPs -> Seq(Claim)] /\ alerts \in SUBSET Alert /\ sent \in Nat

Agreed == \A ip \in IPs : Latest(bindings[ip], claims[ip])

\* A cooldown runs from an alert, unless there has been none.
CooldownFromAlert ==
  \A ip \in IPs :
    /\ last_alert[ip] <= now
    /\ last_alert[ip] = 0 \/ \E a \in alerts : a.ip = ip /\ a.time = last_alert[ip]

MovesCovered == \A ip \in IPs : \A i \in Moves(ip) : \E a \in alerts : Covers(a, ip, i)
AlertsTell == \A a \in alerts : \E i \in Moves(a.ip) : Tells(a, i)

ArpInv == ArpTypes /\ Agreed /\ CooldownFromAlert /\ MovesCovered /\ AlertsTell

\* A new scan has an empty table and no alerts.
LEMMA ArpInit == Init => ArpInv
<1> SUFFICES ASSUME Init PROVE ArpInv
  OBVIOUS
<1>1. ArpTypes
  <2>1. Unbound \in Binding /\ <<>> \in Seq(Claim)
    BY EmptySeq DEF Unbound, Binding
  <2> QED
    BY <2>1, ArpAssumption DEF Init, ArpTypes
<1>2. Agreed /\ CooldownFromAlert
  BY ArpAssumption DEF Init, Agreed, Latest, CooldownFromAlert
<1>3. MovesCovered
  BY EmptySeq DEF Init, MovesCovered, Moves
<1>4. AlertsTell
  BY DEF Init, AlertsTell
<1> QED
  BY <1>1, <1>2, <1>3, <1>4 DEF ArpInv

-----------------------------------------------------------------------------
(* What a reply does to the table and to what was said before *)

\* The table and the record of replies after a reply.
LEMMA ReplyTakesIn ==
  ASSUME ArpInv, NEW ip \in IPs, NEW mac \in Macs, Reply(ip, mac)
  PROVE  LET c == [mac |-> mac, time |-> now] IN
         /\ c \in Claim
         /\ claims' = [claims EXCEPT ![ip] = Append(@, c)]
         /\ claims' \in [IPs -> Seq(Claim)] /\ bindings' \in [IPs -> Binding]
         /\ claims'[ip] = Append(claims[ip], c)
         /\ \A jp \in IPs \ {ip} : claims'[jp] = claims[jp]
         /\ now' = now /\ sent' \in Nat
         /\ Agreed'
<1> DEFINE c == [mac |-> mac, time |-> now]
<1>1. c \in Claim
  BY DEF ArpInv, ArpTypes, Claim
<1>2. /\ claims' = [claims EXCEPT ![ip] = Append(@, c)]
      /\ bindings' = [bindings EXCEPT ![ip] = Observed(@, mac)]
      /\ now' = now /\ sent' = sent + 1
  BY DEF Reply, Packet
<1>3. /\ claims[ip] \in Seq(Claim) /\ bindings[ip] \in Binding
      /\ claims \in [IPs -> Seq(Claim)] /\ bindings \in [IPs -> Binding] /\ sent \in Nat
  BY DEF ArpInv, ArpTypes
<1>4. Append(claims[ip], c) \in Seq(Claim)
  BY <1>1, <1>3, AppendClaim
<1>5. Observed(bindings[ip], mac) \in Binding
  BY <1>3 DEF Observed, Binding
<1>6. /\ claims'[ip] = Append(claims[ip], c) /\ bindings'[ip] = Observed(bindings[ip], mac)
      /\ \A jp \in IPs \ {ip} : claims'[jp] = claims[jp] /\ bindings'[jp] = bindings[jp]
  BY <1>2, <1>3
<1>7. claims' \in [IPs -> Seq(Claim)] /\ bindings' \in [IPs -> Binding]
  BY <1>2, <1>3, <1>4, <1>5
<1>8. Latest(Observed(bindings[ip], mac), Append(claims[ip], c))
  <2>1. Latest(bindings[ip], claims[ip]) /\ c.mac = mac
    BY DEF ArpInv, Agreed
  <2> HIDE DEF c
  <2> QED
    BY <2>1, <1>1, <1>3, ObservedIsLatest
<1>9. Agreed'
  <2> SUFFICES ASSUME NEW jp \in IPs PROVE Latest(bindings'[jp], claims'[jp])
    BY DEF Agreed
  <2>1. Latest(bindings[jp], claims[jp])
    BY DEF ArpInv, Agreed
  <2> QED
    BY <2>1, <1>6, <1>8
<1> QED
  BY <1>1, <1>2, <1>3, <1>6, <1>7, <1>9

\* Earlier replies and moves stay as they are; a reply adds at most one move,
\* its own, and does so exactly if it is in conflict with the table.
LEMMA ReplyMoves ==
  ASSUME ArpInv, NEW ip \in IPs, NEW mac \in Macs, Reply(ip, mac)
  PROVE  LET n == Len(claims[ip]) + 1 IN
         /\ \A jp \in IPs : Len(claims[jp]) \in Nat /\ Len(claims[jp]) <= Len(claims'[jp])
         /\ \A jp \in IPs : \A i \in 1 .. Len(claims[jp]) : claims'[jp][i] = claims[jp][i]
         /\ n \in Nat /\ claims'[ip][n] = [mac |-> mac, time |-> now]
         /\ \A jp \in IPs : Moves(jp) \subseteq Moves(jp)'
         /\ \A jp \in IPs : \A i \in Moves(jp)' : i \in Moves(jp) \/ (jp = ip /\ i = n)
         /\ Conflict(ip, mac) <=> n \in Moves(ip)'
<1> DEFINE n == Len(claims[ip]) + 1
           c == [mac |-> mac, time |-> now]
<1>1. /\ c \in Claim /\ claims'[ip] = Append(claims[ip], c)
      /\ \A jp \in IPs \ {ip} : claims'[jp] = claims[jp]
  BY ReplyTakesIn
<1>2. \A jp \in IPs : claims[jp] \in Seq(Claim) /\ Len(claims[jp]) \in Nat
  BY DEF ArpInv, ArpTypes
<1>3. /\ Len(claims'[ip]) = n /\ claims'[ip][n] = c
      /\ \A i \in 1 .. Len(claims[ip]) : claims'[ip][i] = claims[ip][i]
      /\ n \in Nat
  <2> HIDE DEF c
  <2> QED
    BY <1>1, <1>2, AppendClaim
<1>4. \A jp \in IPs : /\ Len(claims[jp]) <= Len(claims'[jp])
                       /\ \A i \in 1 .. Len(claims[jp]) : claims'[jp][i] = claims[jp][i]
  BY <1>1, <1>2, <1>3
<1>5. ASSUME NEW jp \in IPs, NEW i \in Moves(jp) PROVE i \in Moves(jp)'
  <2>1. i \in 2 .. Len(claims[jp]) /\ claims[jp][i].mac # claims[jp][i - 1].mac
    BY DEF Moves
  <2>2. /\ i \in 2 .. Len(claims'[jp]) /\ i \in 1 .. Len(claims[jp])
        /\ i - 1 \in 1 .. Len(claims[jp])
    <3>1. Len(claims'[jp]) \in Nat
      BY <1>1, <1>2, <1>3
    <3> QED
      BY <2>1, <3>1, <1>2, <1>4
  <2>3. claims'[jp][i].mac # claims'[jp][i - 1].mac
    BY <2>1, <2>2, <1>4
  <2> QED
    BY <2>2, <2>3 DEF Moves
<1>6. ASSUME NEW jp \in IPs, NEW i \in Moves(jp)'
      PROVE  i \in Moves(jp) \/ (jp = ip /\ i = n)
  <2>1. i \in 2 .. Len(claims'[jp]) /\ claims'[jp][i].mac # claims'[jp][i - 1].mac
    BY DEF Moves
  <2>2. CASE i \in 2 .. Len(claims[jp])
    <3>1. i \in 1 .. Len(claims[jp]) /\ i - 1 \in 1 .. Len(claims[jp])
      BY <2>2, <1>2
    <3>2. claims[jp][i].mac # claims[jp][i - 1].mac
      BY <2>1, <3>1, <1>4
    <3> QED
      BY <2>2, <3>2 DEF Moves
  <2>3. CASE jp = ip /\ i = n
    BY <2>3
  <2>4. i \in 2 .. Len(claims[jp]) \/ (jp = ip /\ i = n)
    BY <2>1, <1>1, <1>2, <1>3
  <2> QED
    BY <2>2, <2>3, <2>4
<1>7. Conflict(ip, mac) <=> n \in Moves(ip)'
  <2>1. Latest(bindings[ip], claims[ip]) /\ claims[ip] \in Seq(Claim)
    BY <1>2 DEF ArpInv, Agreed
  <2>2. CASE claims[ip] = <<>>
    <3>1. ~Conflict(ip, mac)
      BY <2>1, <2>2 DEF Latest, Conflict
    <3>2. n = 1
      BY <2>2, EmptySeq
    <3>3. n \notin Moves(ip)'
      BY <3>2 DEF Moves
    <3> QED
      BY <3>1, <3>3
  <2>3. CASE claims[ip] # <<>>
    <3>1. /\ n - 1 \in 1 .. Len(claims[ip]) /\ n \in 2 .. Len(claims'[ip])
          /\ claims[ip][n - 1] = Last(claims[ip])
          /\ Last(claims[ip]).mac = bindings[ip].mac /\ Last(claims[ip]) \in Claim
      <4>1. /\ Len(claims[ip]) >= 1 /\ claims[ip][Len(claims[ip])] = Last(claims[ip])
            /\ Last(claims[ip]) \in Claim
        BY <1>1, <1>2, <2>3, AppendClaim
      <4>2. n - 1 = Len(claims[ip])
        BY <1>2
      <4>3. Last(claims[ip]).mac = bindings[ip].mac
        BY <2>1, <2>3 DEF Latest
      <4> QED
        BY <4>1, <4>2, <4>3, <1>2, <1>3
    <3>2. claims'[ip][n].mac = mac /\ claims'[ip][n - 1].mac = bindings[ip].mac
      BY <3>1, <1>3, <1>4
    <3>3. bindings[ip] # Unbound
      BY <3>1, MacAssumption DEF Unbound, Claim
    <3>4. Conflict(ip, mac) <=> claims'[ip][n].mac # claims'[ip][n - 1].mac
      BY <3>2, <3>3 DEF Conflict
    <3> QED
      BY <3>1, <3>4 DEF Moves
  <2> QED
    BY <2>2, <2>3
<1> QED
  BY <1>2, <1>3, <1>4, <1>5, <1>6, <1>7

\* What was said of earlier moves stays true after a reply, whatever it does to
\* the alerts but withdraw one.
LEMMA ReplyKeepsReports ==
  ASSUME ArpInv, NEW ip \in IPs, NEW mac \in Macs, Reply(ip, mac)
  PROVE  /\ \A jp \in IPs : \A i \in Moves(jp) : \E a \in alerts : Covers(a, jp, i)'
         /\ \A a \in alerts : \E i \in Moves(a.ip)' : Tells(a, i)'
<1>1. /\ \A jp \in IPs : Len(claims[jp]) \in Nat
      /\ \A jp \in IPs : \A i \in 1 .. Len(claims[jp]) : claims'[jp][i] = claims[jp][i]
      /\ \A jp \in IPs : Moves(jp) \subseteq Moves(jp)'
  BY ReplyMoves
<1>2. ASSUME NEW jp \in IPs, NEW i \in Moves(jp)
      PROVE  \E a \in alerts : Covers(a, jp, i)'
  <2>1. PICK a \in alerts : Covers(a, jp, i)
    BY DEF ArpInv, MovesCovered
  <2>2. i \in 1 .. Len(claims[jp])
    BY <1>1 DEF Moves
  <2>3. Covers(a, jp, i)'
    BY <2>1, <2>2, <1>1 DEF Covers
  <2> QED
    BY <2>3
<1>3. ASSUME NEW a \in alerts PROVE \E i \in Moves(a.ip)' : Tells(a, i)'
  <2>1. PICK i \in Moves(a.ip) : Tells(a, i)
    BY DEF ArpInv, AlertsTell
  <2>2. a.ip \in IPs /\ a.old_count \in Nat
    BY DEF ArpInv, ArpTypes, Alert
  <2> DEFINE s == claims[a.ip]
             t == claims'[a.ip]
  <2>3. /\ Len(s) \in Nat /\ i \in 2 .. Len(s)
        /\ \A j \in 1 .. Len(s) : t[j] = s[j]
    BY <1>1, <2>2 DEF Moves
  <2>4. /\ s[i].time = a.time /\ s[i].mac = a.new /\ s[i - 1].mac = a.old
        /\ a.old_count \in 1 .. i - 1
        /\ \A j \in i - a.old_count .. i - 1 : s[j].mac = a.old
        /\ i - a.old_count > 1 => s[i - a.old_count - 1].mac # a.old
    BY <2>1 DEF Tells
  <2> HIDE DEF s, t
  <2>5. t[i] = s[i] /\ t[i - 1] = s[i - 1]
    BY <2>3
  <2>6. \A j \in i - a.old_count .. i - 1 : t[j] = s[j]
    BY <2>2, <2>3, <2>4
  <2>7. i - a.old_count > 1 => t[i - a.old_count - 1] = s[i - a.old_count - 1]
    BY <2>2, <2>3, <2>4
  <2>8. /\ t[i].time = a.time /\ t[i].mac = a.new /\ t[i - 1].mac = a.old
        /\ a.old_count \in 1 .. i - 1
        /\ \A j \in i - a.old_count .. i - 1 : t[j].mac = a.old
        /\ i - a.old_count > 1 => t[i - a.old_count - 1].mac # a.old
    BY <2>4, <2>5, <2>6, <2>7
  <2>9. Tells(a, i)'
    BY <2>8 DEF Tells, t
  <2> QED
    BY <2>9, <1>1, <2>2
<1> QED
  BY <1>2, <1>3

\* A reply without an alert: it is no move, or a cooldown runs, and that began
\* with an alert, because the clock has left the first cooldown behind.
LEMMA UnreportedReply ==
  ASSUME ArpInv, NEW ip \in IPs, NEW mac \in Macs, Reply(ip, mac),
         ~Conflict(ip, mac) \/ InCooldown(ip), UNCHANGED <<last_alert, alerts>>
  PROVE  ArpInv'
<1> PICK n : n = Len(claims[ip]) + 1
  OBVIOUS
<1>1. /\ claims' \in [IPs -> Seq(Claim)] /\ bindings' \in [IPs -> Binding]
      /\ now' = now /\ sent' \in Nat /\ Agreed'
  BY ReplyTakesIn
<1>2. ArpTypes' /\ CooldownFromAlert'
  BY <1>1 DEF ArpInv, ArpTypes, CooldownFromAlert
<1>3. AlertsTell'
  BY ReplyKeepsReports DEF AlertsTell
<1>4. ASSUME n \in Moves(ip)' PROVE \E a \in alerts : Covers(a, ip, n)'
  <2>1. InCooldown(ip)
    BY <1>4, ReplyMoves
  <2>2. /\ now \in Nat /\ now >= Start /\ last_alert[ip] \in Nat /\ last_alert[ip] <= now
        /\ last_alert[ip] = 0 \/ \E a \in alerts : a.ip = ip /\ a.time = last_alert[ip]
    BY DEF ArpInv, ArpTypes, CooldownFromAlert
  <2>3. last_alert[ip] # 0 /\ now < last_alert[ip] + Cooldown
    BY <2>1, <2>2, ArpAssumption DEF InCooldown
  <2>4. PICK a \in alerts : a.ip = ip /\ a.time = last_alert[ip]
    BY <2>2, <2>3
  <2>5. claims'[ip][n].time = now
    <3>1. claims'[ip][n] = [mac |-> mac, time |-> now]
      BY ReplyMoves
    <3> QED
      BY <3>1
  <2>6. Covers(a, ip, n)'
    BY <2>2, <2>3, <2>4, <2>5 DEF Covers
  <2> QED
    BY <2>6
<1>5. MovesCovered'
  <2> SUFFICES ASSUME NEW jp \in IPs, NEW i \in Moves(jp)'
               PROVE  \E a \in alerts : Covers(a, jp, i)'
    BY DEF MovesCovered
  <2>1. CASE i \in Moves(jp)
    BY <2>1, ReplyKeepsReports
  <2>2. CASE jp = ip /\ i = n
    BY <2>2, <1>4
  <2> QED
    BY <2>1, <2>2, ReplyMoves
<1> QED
  BY <1>1, <1>2, <1>3, <1>5 DEF ArpInv

\* The alert that report builds from the table tells the move that its reply is.
LEMMA AlarmTells ==
  ASSUME ArpInv, NEW ip \in IPs, NEW mac \in Macs, Reply(ip, mac), Conflict(ip, mac),
         NEW n, n = Len(claims[ip]) + 1, NEW a, a = Alarm(ip, mac)
  PROVE  a \in Alert /\ a.ip = ip /\ a.time = now /\ n \in Moves(ip)' /\ Tells(a, n)'
<1> DEFINE s == claims[ip]
           t == claims'[ip]
           m == bindings[ip].seen_count
           old == bindings[ip].mac
<1>0. n = Len(s) + 1
  OBVIOUS
<1>1. s \in Seq(Claim) /\ bindings[ip] \in Binding /\ now \in Nat /\ Latest(bindings[ip], s)
  BY DEF ArpInv, ArpTypes, Agreed
<1>2. s # <<>>
  BY <1>1 DEF Latest, Conflict
<1>3. [mac |-> mac, time |-> now] \in Claim
  BY ReplyTakesIn
<1>4. /\ Len(s) \in Nat /\ Len(s) >= 1 /\ s[Len(s)] = Last(s) /\ Last(s) \in Claim
  BY <1>1, <1>2, <1>3, AppendClaim
<1>5. old = Last(s).mac /\ m \in 1 .. Len(s) /\ SameMac(s, m) /\ (m < Len(s) => ~SameMac(s, m + 1))
  BY <1>1, <1>2 DEF Latest
<1>6. a = [ip |-> ip, old |-> old, old_count |-> m, new |-> mac, time |-> now,
           severity |-> Severity(ip)]
  BY DEF Alarm
<1>7. a \in Alert
  <2>1. old \in Macs /\ m \in Nat /\ Severity(ip) \in {"critical", "high"}
    BY <1>4, <1>5 DEF Claim, Severity
  <2> HIDE DEF old, m
  <2> QED
    BY <2>1, <1>1, <1>6 DEF Alert
<1>8. a.ip = ip /\ a.old = old /\ a.old_count = m /\ a.new = mac /\ a.time = now
  BY <1>6
<1>9. /\ n \in Moves(ip)' /\ t[n] = [mac |-> mac, time |-> now]
      /\ \A i \in 1 .. Len(s) : t[i] = s[i]
  BY ReplyMoves
<1> HIDE DEF old, m, s, t
<1>10. t[n].time = a.time /\ t[n].mac = a.new
  BY <1>8, <1>9
<1>11. n - 1 = Len(s) /\ t[n - 1].mac = a.old /\ a.old_count \in 1 .. n - 1
  BY <1>0, <1>4, <1>5, <1>8, <1>9
<1>12. ASSUME NEW j \in n - a.old_count .. n - 1 PROVE t[j].mac = a.old
  <2>1. j \in Len(s) - m + 1 .. Len(s) /\ j \in 1 .. Len(s)
    BY <1>0, <1>4, <1>5, <1>8
  <2> QED
    BY <2>1, <1>5, <1>8, <1>9 DEF SameMac
<1>13. ASSUME n - a.old_count > 1 PROVE t[n - a.old_count - 1].mac # a.old
  <2>1. m < Len(s)
    BY <1>13, <1>0, <1>4, <1>5, <1>8
  <2>2. PICK i \in Len(s) - (m + 1) + 1 .. Len(s) : s[i].mac # Last(s).mac
    BY <2>1, <1>5 DEF SameMac
  <2>3. i \notin Len(s) - m + 1 .. Len(s)
    BY <2>2, <1>5 DEF SameMac
  <2>4. i = Len(s) - m /\ i \in 1 .. Len(s) /\ i = n - a.old_count - 1
    BY <2>1, <2>2, <2>3, <1>0, <1>4, <1>5, <1>8
  <2> QED
    BY <2>2, <2>4, <1>5, <1>8, <1>9
<1>14. Tells(a, n)'
  BY <1>8, <1>10, <1>11, <1>12, <1>13 DEF Tells, t
<1> QED
  BY <1>7, <1>8, <1>9, <1>14 DEF t

\* The alert of a move covers it and starts the cooldown, and it tells that move.
LEMMA ReportedReply ==
  ASSUME ArpInv, NEW ip \in IPs, NEW mac \in Macs, Report(ip, mac)
  PROVE  ArpInv'
<1> PICK n : n = Len(claims[ip]) + 1
  OBVIOUS
<1> PICK a : a = Alarm(ip, mac)
  OBVIOUS
<1>1. /\ Reply(ip, mac) /\ Conflict(ip, mac)
      /\ last_alert' = [last_alert EXCEPT ![ip] = now] /\ alerts' = alerts \cup {a}
  BY DEF Report
<1>2. /\ claims' \in [IPs -> Seq(Claim)] /\ bindings' \in [IPs -> Binding]
      /\ now' = now /\ sent' \in Nat /\ Agreed'
  BY <1>1, ReplyTakesIn
<1>3. a \in Alert /\ a.ip = ip /\ a.time = now /\ n \in Moves(ip)' /\ Tells(a, n)'
  BY <1>1, AlarmTells
<1>4. ArpTypes'
  BY <1>1, <1>2, <1>3 DEF ArpInv, ArpTypes
<1>5. CooldownFromAlert'
  <2> SUFFICES ASSUME NEW jp \in IPs
               PROVE  /\ last_alert'[jp] <= now'
                      /\ last_alert'[jp] = 0
                           \/ \E b \in alerts' : b.ip = jp /\ b.time = last_alert'[jp]
    BY DEF CooldownFromAlert
  <2>1. /\ now \in Nat /\ last_alert \in [IPs -> Nat] /\ last_alert[jp] <= now
        /\ last_alert[jp] = 0 \/ \E b \in alerts : b.ip = jp /\ b.time = last_alert[jp]
    BY DEF ArpInv, ArpTypes, CooldownFromAlert
  <2>2. CASE jp = ip
    <3>1. last_alert'[jp] = now /\ now <= now'
      BY <1>1, <1>2, <2>1, <2>2
    <3> QED
      BY <3>1, <1>1, <1>2, <1>3, <2>2
  <2>3. CASE jp # ip
    <3>1. last_alert'[jp] = last_alert[jp]
      BY <1>1, <2>1, <2>3
    <3> QED
      BY <3>1, <1>1, <1>2, <2>1
  <2> QED
    BY <2>2, <2>3
<1>6. AlertsTell'
  <2> SUFFICES ASSUME NEW b \in alerts' PROVE \E i \in Moves(b.ip)' : Tells(b, i)'
    BY DEF AlertsTell
  <2>1. CASE b = a
    BY <2>1, <1>3
  <2>2. CASE b \in alerts
    BY <2>2, <1>1, ReplyKeepsReports
  <2> QED
    BY <2>1, <2>2, <1>1
<1>7. MovesCovered'
  <2> SUFFICES ASSUME NEW jp \in IPs, NEW i \in Moves(jp)'
               PROVE  \E b \in alerts' : Covers(b, jp, i)'
    BY DEF MovesCovered
  <2>1. CASE i \in Moves(jp)
    BY <2>1, <1>1, ReplyKeepsReports
  <2>2. CASE jp = ip /\ i = n
    <3>1. claims'[ip][n] = [mac |-> mac, time |-> now] /\ now \in Nat
      BY <1>1, ReplyMoves DEF ArpInv, ArpTypes
    <3>2. Covers(a, ip, n)'
      BY <3>1, <1>3 DEF Covers
    <3> QED
      BY <2>2, <3>2, <1>1
  <2> QED
    BY <2>1, <2>2, <1>1, ReplyMoves
<1> QED
  BY <1>2, <1>4, <1>5, <1>6, <1>7 DEF ArpInv

-----------------------------------------------------------------------------
(* The theorems *)

\* A step without a reply changes nothing that was said.
LEMMA SilentStep ==
  ASSUME ArpInv, UNCHANGED <<bindings, claims, alerts>>
  PROVE  Agreed' /\ MovesCovered' /\ AlertsTell'
<1>1. Agreed'
  BY DEF ArpInv, Agreed
<1>2. \A ip : Moves(ip)' = Moves(ip)
  BY DEF Moves
<1>3. \A a, ip, i : Covers(a, ip, i) => Covers(a, ip, i)'
  BY DEF Covers
<1>4. \A a, i : Tells(a, i) => Tells(a, i)'
  BY DEF Tells
<1>5. MovesCovered'
  BY <1>2, <1>3 DEF ArpInv, MovesCovered
<1>6. AlertsTell'
  BY <1>2, <1>4 DEF ArpInv, AlertsTell
<1> QED
  BY <1>1, <1>5, <1>6

\* Every packet, and the clock, keep the invariant.
LEMMA ArpStep == ArpInv /\ [Next]_vars => ArpInv'
<1> SUFFICES ASSUME ArpInv, [Next]_vars PROVE ArpInv'
  OBVIOUS
<1>1. CASE Tick
  <2>1. ArpTypes' /\ CooldownFromAlert'
    BY <1>1, ArpAssumption DEF Tick, ArpInv, ArpTypes, CooldownFromAlert
  <2>2. Agreed' /\ MovesCovered' /\ AlertsTell'
    BY <1>1, SilentStep DEF Tick
  <2> QED
    BY <2>1, <2>2 DEF ArpInv
<1>2. ASSUME NEW ip \in IPs, NEW op \in {"who-has", "is-at"}, NEW mac \in Macs \cup {NoMac},
             Ignored(op, ip, mac)
      PROVE  ArpInv'
  <2>1. ArpTypes'
    BY <1>2 DEF Ignored, Packet, ArpInv, ArpTypes
  <2>2. CooldownFromAlert'
    BY <1>2 DEF Ignored, Packet, ArpInv, CooldownFromAlert
  <2>3. Agreed' /\ MovesCovered' /\ AlertsTell'
    BY <1>2, SilentStep DEF Ignored
  <2> QED
    BY <2>1, <2>2, <2>3 DEF ArpInv
<1>3. ASSUME NEW ip \in IPs, NEW mac \in Macs, Agree(ip, mac) \/ Suppress(ip, mac)
      PROVE  ArpInv'
  BY <1>3, UnreportedReply DEF Agree, Suppress
<1>4. ASSUME NEW ip \in IPs, NEW mac \in Macs, Report(ip, mac) PROVE ArpInv'
  BY <1>4, ReportedReply
<1>5. CASE UNCHANGED vars
  <2>1. ArpTypes' /\ CooldownFromAlert'
    BY <1>5 DEF vars, ArpInv, ArpTypes, CooldownFromAlert
  <2>2. Agreed' /\ MovesCovered' /\ AlertsTell'
    BY <1>5, SilentStep DEF vars
  <2> QED
    BY <2>1, <2>2 DEF ArpInv
<1> QED
  BY <1>1, <1>2, <1>3, <1>4, <1>5 DEF Next

\* TableIsLatest: the table always holds the latest reply's MAC and how often in
\* a row it was claimed.
THEOREM TableLatest == Spec => []TableIsLatest
<1>1. ArpInv => TableIsLatest
  BY DEF ArpInv, Agreed, Latest, SameMac, TableIsLatest, Unanimous
<1> QED
  BY <1>1, ArpInit, ArpStep, PTL DEF Spec

\* MovesReported: an address that moves is flagged then or within the cooldown
\* before, and every alert tells a move that happened.
THEOREM MovesFlagged == Spec => []MovesReported
<1>1. ArpInv => MovesReported
  BY DEF ArpInv, MovesCovered, AlertsTell, MovesReported
<1> QED
  BY <1>1, ArpInit, ArpStep, PTL DEF Spec

-----------------------------------------------------------------------------
(* MlAnomaly *)

Types ==
  /\ packets \in Nat /\ buffered \in Nat /\ since_retrain \in Nat
  /\ trained_at \in Nat /\ trained_on \in Nat /\ failed_at \in Nat
  /\ model \in {"none", "unfitted", "fitted"}

\* The buffer holds every packet until it is full.
Filled ==
  /\ packets <= BufferSize => buffered = packets
  /\ packets > BufferSize => buffered = BufferSize

\* The counter is the age of the fitted model, which had a full warm-up.
ModelAged ==
  model = "fitted" => /\ trained_on >= Warmup
                      /\ trained_at + since_retrain = packets

\* There is a model as soon as the buffer has been warm, and one that could not
\* be fitted is younger than the counter.
ModelSince ==
  /\ model = "none" => packets = 0 \/ buffered < Warmup
  /\ model # "none" => buffered >= Warmup
  /\ model = "unfitted" =>
       /\ failed_at <= packets /\ packets <= failed_at + since_retrain
       /\ packets < failed_at + RetrainEvery \/ packets = failed_at

MlInv == Types /\ Filled /\ ModelAged /\ ModelSince /\ FlaggedByFreshModel

\* The state of the detector before the first packet.
LEMMA MlStarts == MlInit => MlInv
  BY MlAssumption DEF MlInit, MlInv, Types, Filled, ModelAged, ModelSince, FlaggedByFreshModel

\* What a packet does to the buffer: it grows by one until it is full.
LEMMA TakeFills ==
  ASSUME MlInv, Take
  PROVE  /\ packets' = packets + 1 /\ packets' \in Nat
         /\ buffered' \in Nat /\ buffered' >= buffered
         /\ Filled'
  BY MlAssumption DEF MlInv, Types, Filled, Take

\* Every packet keeps the invariant, whichever way it takes through process().
LEMMA MlStep == MlInv /\ [MlNext]_mlVars => MlInv'
<1> SUFFICES ASSUME MlInv, [MlNext]_mlVars PROVE MlInv'
  OBVIOUS
<1> USE MlAssumption
<1>1. CASE Collect
  <2>1. Take /\ buffered' < Warmup /\ since_retrain' = since_retrain + 1
        /\ UNCHANGED <<model, trained_at, trained_on, failed_at, flagged>>
    BY <1>1 DEF Collect
  <2>2. model = "none"
    BY <2>1, TakeFills DEF MlInv, Types, ModelSince
  <2>3. Types' /\ ModelAged' /\ ModelSince' /\ FlaggedByFreshModel'
    BY <2>1, <2>2, TakeFills
    DEF MlInv, Types, ModelAged, ModelSince, FlaggedByFreshModel
  <2> QED
    BY <2>1, <2>3, TakeFills DEF MlInv
<1>2. CASE Train
  <2>1. Take /\ buffered' >= Warmup /\ model' = "fitted" /\ since_retrain' = 0
        /\ trained_at' = packets' /\ trained_on' = buffered' /\ UNCHANGED <<failed_at, flagged>>
    BY <1>2 DEF Train
  <2>2. Types' /\ ModelAged' /\ ModelSince' /\ FlaggedByFreshModel'
    BY <2>1, TakeFills DEF MlInv, Types, ModelAged, ModelSince, FlaggedByFreshModel
  <2> QED
    BY <2>1, <2>2, TakeFills DEF MlInv
<1>3. CASE TrainRaises
  <2>1. Take /\ buffered' >= Warmup /\ model' = "unfitted" /\ since_retrain' = since_retrain + 1
        /\ failed_at' = packets' /\ UNCHANGED <<trained_at, trained_on, flagged>>
    BY <1>3 DEF TrainRaises
  <2>2. Types' /\ ModelAged' /\ ModelSince' /\ FlaggedByFreshModel'
    BY <2>1, TakeFills DEF MlInv, Types, ModelAged, ModelSince, FlaggedByFreshModel
  <2> QED
    BY <2>1, <2>2, TakeFills DEF MlInv
<1>4. CASE Score
  <2>1. /\ Take /\ buffered' >= Warmup /\ model = "fitted"
        /\ since_retrain + 1 < RetrainEvery /\ since_retrain' = since_retrain + 1
        /\ UNCHANGED <<model, trained_at, trained_on, failed_at>>
        /\ \A f \in flagged' : \/ f \in flagged
                               \/ f.age = packets' - trained_at /\ f.on = trained_on
    BY <1>4 DEF Score, Due, MlInv, Types
  <2>2. Types' /\ ModelAged' /\ ModelSince'
    BY <2>1, TakeFills DEF MlInv, Types, ModelAged, ModelSince
  <2>3. packets' - trained_at = since_retrain + 1 /\ trained_on >= Warmup
    BY <2>1, TakeFills DEF MlInv, Types, ModelAged
  <2>4. FlaggedByFreshModel'
    BY <2>1, <2>3 DEF MlInv, Types, FlaggedByFreshModel
  <2> QED
    BY <2>1, <2>2, <2>4, TakeFills DEF MlInv
<1>5. CASE ScoreRaises
  <2>1. /\ Take /\ buffered' >= Warmup /\ model = "unfitted"
        /\ since_retrain + 1 < RetrainEvery /\ since_retrain' = since_retrain + 1
        /\ UNCHANGED <<model, trained_at, trained_on, failed_at, flagged>>
    BY <1>5 DEF ScoreRaises, Due, MlInv, Types
  <2>2. Types' /\ ModelAged' /\ ModelSince' /\ FlaggedByFreshModel'
    BY <2>1, TakeFills DEF MlInv, Types, ModelAged, ModelSince, FlaggedByFreshModel
  <2> QED
    BY <2>1, <2>2, TakeFills DEF MlInv
<1>6. CASE UNCHANGED mlVars
  BY <1>6 DEF mlVars, MlInv, Types, Filled, ModelAged, ModelSince, FlaggedByFreshModel
<1> QED
  BY <1>1, <1>2, <1>3, <1>4, <1>5, <1>6 DEF MlNext

\* FlaggedByFreshModel: no packet is reported by a model that is older than
\* retrain_every packets or saw less than the warm-up.
THEOREM FreshModels == MlSpec => []FlaggedByFreshModel
<1>1. MlInv => FlaggedByFreshModel
  BY DEF MlInv
<1> QED
  BY <1>1, MlStarts, MlStep, PTL DEF MlSpec

\* ReadyAfterWarmup: after the warm-up there is a fitted model, but for the
\* packets between a failed fit() and the next attempt.
THEOREM ReadyOnceWarm == MlSpec => []ReadyAfterWarmup
<1>1. MlInv => ReadyAfterWarmup
  <2> SUFFICES ASSUME MlInv, packets >= Warmup, packets > 0, Warmup <= BufferSize
               PROVE  \/ model = "fitted"
                      \/ model = "unfitted" /\ (packets - failed_at < RetrainEvery \/ packets = failed_at)
    BY DEF ReadyAfterWarmup
  <2>1. buffered >= Warmup
    BY MlAssumption DEF MlInv, Types, Filled
  <2> QED
    BY <2>1, MlAssumption DEF MlInv, Types, ModelSince
<1> QED
  BY <1>1, MlStarts, MlStep, PTL DEF MlSpec
=============================================================================
