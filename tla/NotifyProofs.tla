---------------------------- MODULE NotifyProofs ----------------------------
(***************************************************************************)
(* Proofs about Notify: a try that has come to its end has called every    *)
(* peer, and a peer is sent a message again only after a failed save.      *)
(***************************************************************************)
EXTENDS Notify, TLAPS

USE NotifyAssumption

Where == {"idle", "chat", "send", "save", "push"}
Fate == {"new", "held", "queued", "done", "abandoned", "lost"}

\* TypeOK, and that the history variables and the tries are what they are of.
Types ==
    /\ phase \in {"down", "run", "closed", "final"}
    /\ starts \in 0 .. MaxStarts
    /\ try \in [Goroutine -> [at : Where, msg : Message \cup {NoMsg}, todo : Seq(Peer)]]
    /\ asked \in [Goroutine -> SUBSET Peer]
    /\ fate \in [Message -> Fate]
    /\ attempts \in [Message -> Nat]
    /\ got \in [Message -> SUBSET Peer]
    /\ unsaved \in [Message -> BOOLEAN]

\* How far a try is: what it has called and what it is going to call.
Progress ==
    \A g \in Goroutine :
        /\ try[g].at = "idle" <=> try[g].msg = NoMsg
        /\ try[g].at = "send" <=> try[g].todo # << >>
        /\ try[g].at \in {"idle", "chat"} => asked[g] = {}
        /\ try[g].at = "send" => asked[g] \cup Range(try[g].todo) = Peer
        /\ try[g].at = "save" => asked[g] = Peer
        /\ try[g].at = "push" => asked[g] \in {{}, Peer}

\* A message is in one try at most.
OneTry ==
    /\ \A g \in Goroutine : try[g].at # "idle" => fate[try[g].msg] = "held"
    /\ \A g, h \in Goroutine :
           try[g].at # "idle" /\ try[g].msg = try[h].msg => g = h

\* Unless a save has failed, only the calls of the present try have reached a
\* peer with the message.
Fresh ==
    /\ \A g \in Goroutine :
           try[g].at # "idle" /\ ~ unsaved[try[g].msg] =>
               /\ got[try[g].msg] \subseteq asked[g]
               /\ try[g].at = "push" => asked[g] = {}
    /\ \A m \in Message : fate[m] # "held" /\ ~ unsaved[m] => got[m] = {}

NotifyInv == Types /\ Progress /\ OneTry /\ Fresh

LEMMA EmptyRange == Range(<< >>) = {}
BY DEF Range

LEMMA HeadAndTail ==
    ASSUME NEW S, NEW s \in Seq(S), s # << >>
    PROVE  /\ Head(s) \in S /\ Tail(s) \in Seq(S)
           /\ Range(s) = {Head(s)} \cup Range(Tail(s))
<1>1. Head(s) \in S /\ Tail(s) \in Seq(S)
  OBVIOUS
<1>2. Len(s) \in Nat \ {0} /\ Len(Tail(s)) = Len(s) - 1 /\ DOMAIN s = 1 .. Len(s)
      /\ DOMAIN Tail(s) = 1 .. Len(s) - 1 /\ Head(s) = s[1]
  OBVIOUS
<1>3. \A i \in 1 .. Len(s) - 1 : Tail(s)[i] = s[i + 1]
  OBVIOUS
<1>4. \A i \in 1 .. Len(s) : s[i] \in {Head(s)} \cup Range(Tail(s))
  <2> TAKE i \in 1 .. Len(s)
  <2>1. CASE i = 1
    BY <2>1, <1>2
  <2>2. CASE i # 1
    <3>1. i - 1 \in 1 .. Len(s) - 1 /\ s[i] = Tail(s)[i - 1]
      BY <2>2, <1>2, <1>3
    <3> QED
      BY <3>1, <1>2 DEF Range
  <2> QED BY <2>1, <2>2
<1>5. {Head(s)} \cup Range(Tail(s)) \subseteq Range(s)
  <2>1. Head(s) \in Range(s)
    <3>1. 1 \in DOMAIN s /\ Head(s) = s[1]
      BY <1>2
    <3> QED BY <3>1 DEF Range
  <2>2. ASSUME NEW i \in 1 .. Len(s) - 1 PROVE Tail(s)[i] \in Range(s)
    <3>1. i + 1 \in DOMAIN s /\ Tail(s)[i] = s[i + 1]
      BY <1>2, <1>3
    <3> QED BY <3>1 DEF Range
  <2> QED
    BY <2>1, <2>2, <1>2 DEF Range
<1> QED
  BY <1>1, <1>2, <1>4, <1>5 DEF Range

LEMMA RangeOfConcat ==
    ASSUME NEW S, NEW s \in Seq(S), NEW T, NEW t \in Seq(T)
    PROVE  /\ s \o t \in Seq(S \cup T)
           /\ Range(s) \subseteq Range(s \o t)
           /\ Range(t) \subseteq Range(s \o t)
<1>1. s \in Seq(S \cup T) /\ t \in Seq(S \cup T)
  OBVIOUS
<1>2. s \o t \in Seq(S \cup T)
  BY <1>1
<1>3. Len(s) \in Nat /\ Len(t) \in Nat
  OBVIOUS
<1>4. DOMAIN s = 1 .. Len(s) /\ DOMAIN t = 1 .. Len(t) /\ DOMAIN (s \o t) = 1 .. Len(s) + Len(t)
  BY <1>1, <1>2
<1>5. \A i \in 1 .. Len(s) : i \in DOMAIN (s \o t) /\ (s \o t)[i] = s[i]
  BY <1>1, <1>3, <1>4
<1>6. \A i \in 1 .. Len(t) : Len(s) + i \in DOMAIN (s \o t) /\ (s \o t)[Len(s) + i] = t[i]
  BY <1>1, <1>3, <1>4
<1> QED
  BY <1>2, <1>4, <1>5, <1>6 DEF Range

\* The calls of a try are to peers.
LEMMA PlanIsOfPeers == Plan \in Seq(Peer)
<1>1. PICK S : Plan \in Seq(S)
  <2> DEFINE d == IF DingTalkOn THEN <<DingTalk>> ELSE << >>
             f == IF FeishuOn THEN <<Feishu>> ELSE << >>
  <2>1. d \in Seq({DingTalk}) /\ f \in Seq({Feishu})
    <3>1. d \in {<< >>, <<DingTalk>>} /\ f \in {<< >>, <<Feishu>>}
      OBVIOUS
    <3>2. /\ << >> \in Seq({DingTalk}) /\ <<DingTalk>> \in Seq({DingTalk})
          /\ << >> \in Seq({Feishu}) /\ <<Feishu>> \in Seq({Feishu})
      OBVIOUS
    <3> HIDE DEF d, f
    <3> QED BY <3>1, <3>2
  <2>2. Plan = d \o f \o BarkKeys \o HarmonyUsers
    BY DEF Plan
  <2> HIDE DEF d, f
  <2>3. d \o f \in Seq({DingTalk} \cup {Feishu})
    BY <2>1, RangeOfConcat
  <2>4. d \o f \o BarkKeys \in Seq({DingTalk} \cup {Feishu} \cup Range(BarkKeys))
    BY <2>3, RangeOfConcat
  <2>5. Plan \in Seq({DingTalk} \cup {Feishu} \cup Range(BarkKeys) \cup Range(HarmonyUsers))
    BY <2>2, <2>4, RangeOfConcat
  <2> QED BY <2>5
<1>2. \A i \in 1 .. Len(Plan) : Plan[i] \in Range(Plan)
  BY <1>1 DEF Range
<1>3. Len(Plan) \in Nat /\ Plan = [i \in 1 .. Len(Plan) |-> Plan[i]]
  BY <1>1
<1> QED
  BY <1>2, <1>3 DEF Peer

-----------------------------------------------------------------------------

LEMMA InitNotify == Init => NotifyInv
<1> SUFFICES ASSUME Init PROVE NotifyInv
  OBVIOUS
<1>1. 0 \in 0 .. MaxStarts /\ << >> \in Seq(Peer)
  OBVIOUS
<1>2. Types
  <2>1. /\ phase = "down" /\ starts = 0
        /\ try = [g \in Goroutine |-> Idle]
        /\ asked = [g \in Goroutine |-> {}]
        /\ fate = [m \in Message |-> "new"]
        /\ attempts = [m \in Message |-> 0]
        /\ got = [m \in Message |-> {}]
        /\ unsaved = [m \in Message |-> FALSE]
    BY DEF Init
  <2>2. Idle \in [at : Where, msg : Message \cup {NoMsg}, todo : Seq(Peer)]
    BY <1>1 DEF Idle, Where
  <2>3. fate \in [Message -> Fate]
    BY <2>1 DEF Fate
  <2> HIDE DEF Idle
  <2>4. try \in [Goroutine -> [at : Where, msg : Message \cup {NoMsg}, todo : Seq(Peer)]]
    BY <2>1, <2>2
  <2> QED
    BY <1>1, <2>1, <2>3, <2>4 DEF Types
<1>3. Progress /\ OneTry /\ Fresh
  BY DEF Init, Idle, Progress, OneTry, Fresh
<1> QED BY <1>2, <1>3 DEF NotifyInv

\* A call to a peer.
LEMMA CallNotify ==
    ASSUME NotifyInv, NEW g \in Goroutine, try[g].at = "send",
           Request(g), Continue(g, Tail(try[g].todo)),
           UNCHANGED <<phase, starts, fate, attempts, unsaved>>
    PROVE  NotifyInv'
<1> DEFINE m == try[g].msg
           p == Head(try[g].todo)
           rest == Tail(try[g].todo)
           next == IF rest = << >> THEN "save" ELSE "send"
<1>1. /\ try[g].todo \in Seq(Peer) /\ try[g].todo # << >> /\ m \in Message
      /\ asked[g] \subseteq Peer /\ asked[g] \cup Range(try[g].todo) = Peer
  BY DEF NotifyInv, Types, Progress
<1>2. p \in Peer /\ rest \in Seq(Peer) /\ Range(try[g].todo) = {p} \cup Range(rest)
  BY <1>1, HeadAndTail
<1>3. try' = [try EXCEPT ![g] = [try[g] EXCEPT !.at = next, !.todo = rest]]
  BY DEF Continue
<1>4. asked' = [asked EXCEPT ![g] = asked[g] \cup {p}]
  BY DEF Request
<1>5. got' = got \/ got' = [got EXCEPT ![m] = got[m] \cup {p}]
  BY DEF Request
<1> HIDE DEF m, p, rest
<1>6. /\ try'[g].at = next /\ try'[g].msg = m /\ try'[g].todo = rest /\ try[g].msg = m
      /\ asked'[g] = asked[g] \cup {p}
      /\ \A h \in Goroutine \ {g} : try'[h] = try[h] /\ asked'[h] = asked[h]
  BY <1>3, <1>4 DEF NotifyInv, Types, m
<1>7. next \in {"save", "send"} /\ (next = "save" <=> rest = << >>)
  OBVIOUS
<1>8. Types'
  <2> HIDE DEF next
  <2>1. next \in Where
    BY <1>7 DEF Where
  <2>2. try[g] \in [at : Where, msg : Message \cup {NoMsg}, todo : Seq(Peer)]
    BY DEF NotifyInv, Types
  <2>3. [try[g] EXCEPT !.at = next, !.todo = rest] \in
            [at : Where, msg : Message \cup {NoMsg}, todo : Seq(Peer)]
    <3> HIDE DEF Types
    <3> QED BY <1>2, <2>1, <2>2
  <2>4. try' \in [Goroutine -> [at : Where, msg : Message \cup {NoMsg}, todo : Seq(Peer)]]
    BY <1>3, <2>3 DEF NotifyInv, Types
  <2>5. asked' \in [Goroutine -> SUBSET Peer]
    BY <1>1, <1>2, <1>4 DEF NotifyInv, Types
  <2>6. got' \in [Message -> SUBSET Peer]
    <3>1. got \in [Message -> SUBSET Peer]
      BY DEF NotifyInv, Types
    <3>2. got[m] \cup {p} \in SUBSET Peer
      BY <1>1, <1>2, <3>1
    <3> QED BY <1>5, <3>1, <3>2
  <2> QED
    BY <2>4, <2>5, <2>6 DEF NotifyInv, Types
<1> HIDE DEF next
<1>9. Progress'
  <2>1. next = "save" => asked'[g] = Peer
    BY <1>1, <1>2, <1>6, <1>7, EmptyRange
  <2>2. asked'[g] \cup Range(rest) = Peer
    BY <1>1, <1>2, <1>6
  <2>3. m # NoMsg
    BY <1>1 DEF m
  <2> QED
    BY <1>6, <1>7, <2>1, <2>2, <2>3 DEF NotifyInv, Progress
<1>10. OneTry'
  BY <1>6, <1>7 DEF NotifyInv, OneTry
<1>11. Fresh'
  <2>1. fate[m] = "held" /\ m \in Message
    BY <1>1 DEF NotifyInv, OneTry, m
  <2>2. \A k \in Message \ {m} : got'[k] = got[k]
    BY <1>5 DEF NotifyInv, Types
  <2>3. got'[m] \subseteq got[m] \cup {p}
    BY <1>5, <2>1 DEF NotifyInv, Types
  <2>4. ~ unsaved[m] => got[m] \subseteq asked[g]
    BY DEF NotifyInv, Fresh, m
  <2>5. \A h \in Goroutine \ {g} : try[h].at # "idle" => try[h].msg \in Message \ {m}
    BY DEF NotifyInv, OneTry, Types, Progress, m
  <2>6. ASSUME NEW h \in Goroutine, try'[h].at # "idle", ~ unsaved'[try'[h].msg]
        PROVE  got'[try'[h].msg] \subseteq asked'[h] /\ (try'[h].at = "push" => asked'[h] = {})
    <3>1. CASE h = g
      BY <1>6, <1>7, <2>3, <2>4, <2>6, <3>1
    <3>2. CASE h # g
      BY <1>6, <2>2, <2>5, <2>6, <3>2 DEF NotifyInv, Fresh
    <3> QED BY <3>1, <3>2
  <2>7. ASSUME NEW k \in Message, fate'[k] # "held", ~ unsaved'[k] PROVE got'[k] = {}
    BY <2>1, <2>2, <2>7 DEF NotifyInv, Fresh
  <2> QED BY <2>6, <2>7 DEF Fresh
<1> QED BY <1>8, <1>9, <1>10, <1>11 DEF NotifyInv

\* A try that holds its message ends with an error, and keeps the message.
LEMMA FailNotify ==
    ASSUME NotifyInv, NEW g \in Goroutine, try[g].at # "idle", Fail(g),
           asked[g] \in {{}, Peer}, UNCHANGED <<phase, starts, asked, fate, got>>,
           \/ unsaved' = unsaved /\ asked[g] = {}
           \/ unsaved' = [unsaved EXCEPT ![try[g].msg] = TRUE]
    PROVE  NotifyInv'
<1> DEFINE m == try[g].msg
<1>1. m \in Message
  BY DEF NotifyInv, Types, Progress
<1>2. try' = [try EXCEPT ![g] = [try[g] EXCEPT !.at = "push", !.todo = << >>]]
  BY DEF Fail
<1>3. attempts' = [attempts EXCEPT ![m] = attempts[m] + 1]
  BY DEF Fail
<1>4. /\ try'[g].at = "push" /\ try'[g].msg = m /\ try'[g].todo = << >>
      /\ \A h \in Goroutine \ {g} : try'[h] = try[h]
  BY <1>2 DEF NotifyInv, Types
<1>5. \A k \in Message : ~ unsaved'[k] => ~ unsaved[k]
  BY DEF NotifyInv, Types
<1>6. ~ unsaved'[m] => asked[g] = {}
  BY <1>1 DEF NotifyInv, Types
<1>7. Types'
  <2>1. [try[g] EXCEPT !.at = "push", !.todo = << >>] \in
            [at : Where, msg : Message \cup {NoMsg}, todo : Seq(Peer)]
    <3>1. << >> \in Seq(Peer) /\ "push" \in Where
      BY DEF Where
    <3>2. try[g] \in [at : Where, msg : Message \cup {NoMsg}, todo : Seq(Peer)]
      BY DEF NotifyInv, Types
    <3> QED BY <3>1, <3>2
  <2>2. try' \in [Goroutine -> [at : Where, msg : Message \cup {NoMsg}, todo : Seq(Peer)]]
    BY <1>2, <2>1 DEF NotifyInv, Types
  <2>3. attempts' \in [Message -> Nat]
    BY <1>1, <1>3 DEF NotifyInv, Types
  <2>4. unsaved' \in [Message -> BOOLEAN]
    BY <1>1 DEF NotifyInv, Types
  <2> QED
    BY <2>2, <2>3, <2>4 DEF NotifyInv, Types
<1> HIDE DEF m
<1>8. Progress'
  <2>1. m # NoMsg
    BY <1>1
  <2> QED
    BY <1>4, <2>1 DEF NotifyInv, Progress
<1>9. OneTry'
  <2>1. try[g].msg = m
    BY DEF m
  <2> QED
    BY <1>4, <2>1 DEF NotifyInv, OneTry
<1>10. Fresh'
  <2>1. try[g].msg = m
    BY DEF m
  <2>2. \A h \in Goroutine : try[h].at # "idle" => try[h].msg \in Message
    BY DEF NotifyInv, Types, Progress
  <2> QED
    BY <1>1, <1>4, <1>5, <1>6, <2>1, <2>2 DEF NotifyInv, Fresh
<1> QED BY <1>7, <1>8, <1>9, <1>10 DEF NotifyInv

\* What Settle does to one message and to the others.
LEMMA SettleEffect ==
    ASSUME NotifyInv, NEW S \in SUBSET Message, NEW f \in Fate, Settle(S, f)
    PROVE  /\ fate' \in [Message -> Fate] /\ attempts' \in [Message -> Nat]
           /\ got' \in [Message -> SUBSET Peer] /\ unsaved' \in [Message -> BOOLEAN]
           /\ \A m \in S : fate'[m] = f /\ got'[m] = {} /\ ~ unsaved'[m]
           /\ \A m \in Message \ S : /\ fate'[m] = fate[m] /\ got'[m] = got[m]
                                    /\ unsaved'[m] = unsaved[m]
<1>1. fate' \in [Message -> Fate] /\ \A m \in Message : fate'[m] = IF m \in S THEN f ELSE fate[m]
  BY DEF Settle, NotifyInv, Types
<1>2. attempts' \in [Message -> Nat]
  BY DEF Settle, NotifyInv, Types
<1>3. got' \in [Message -> SUBSET Peer] /\ \A m \in Message : got'[m] = IF m \in S THEN {} ELSE got[m]
  BY DEF Settle, NotifyInv, Types
<1>4. unsaved' \in [Message -> BOOLEAN]
  BY DEF Settle
<1>5. \A m \in Message : unsaved'[m] = (m \notin S /\ unsaved[m])
  BY DEF Settle
<1>6. unsaved \in [Message -> BOOLEAN]
  BY DEF NotifyInv, Types
<1>7. \A m \in S : ~ unsaved'[m]
  BY <1>5
<1>8. \A m \in Message \ S : unsaved'[m] = unsaved[m]
  BY <1>5, <1>6
<1> QED BY <1>1, <1>2, <1>3, <1>4, <1>7, <1>8

\* A try has come to its end, and its message is nobody's.
LEMMA ReturnNotify ==
    ASSUME NotifyInv, NEW g \in Goroutine, try[g].at # "idle", Return(g),
           UNCHANGED <<phase, starts>>,
           \/ \E f \in Fate \ {"held"} : Settle({try[g].msg}, f)
           \/ /\ try[g].at = "push"
              /\ fate' = [fate EXCEPT ![try[g].msg] = "queued"]
              /\ UNCHANGED <<attempts, got, unsaved>>
    PROVE  NotifyInv'
<1> DEFINE m == try[g].msg
<1>1. m \in Message
  BY DEF NotifyInv, Types, Progress
<1>2. /\ fate' \in [Message -> Fate] /\ attempts' \in [Message -> Nat]
      /\ got' \in [Message -> SUBSET Peer] /\ unsaved' \in [Message -> BOOLEAN]
      /\ fate'[m] # "held" /\ (~ unsaved'[m] => got'[m] = {})
      /\ \A k \in Message \ {m} :
            fate'[k] = fate[k] /\ got'[k] = got[k] /\ unsaved'[k] = unsaved[k]
  <2>1. CASE \E f \in Fate \ {"held"} : Settle({m}, f)
    <3>1. PICK f \in Fate \ {"held"} : Settle({m}, f)
      BY <2>1
    <3>2. {m} \in SUBSET Message /\ m \in {m}
      BY <1>1
    <3> HIDE DEF m
    <3> QED BY <3>1, <3>2, SettleEffect
  <2>2. CASE /\ try[g].at = "push" /\ fate' = [fate EXCEPT ![m] = "queued"]
             /\ UNCHANGED <<attempts, got, unsaved>>
    <3>1. ~ unsaved[m] => got[m] = {}
      BY <2>2 DEF NotifyInv, Fresh
    <3> QED
      BY <1>1, <2>2, <3>1 DEF NotifyInv, Types, Fate
  <2> QED BY <2>1, <2>2
<1>3. /\ try'[g] = Idle /\ asked'[g] = {}
      /\ \A h \in Goroutine \ {g} : try'[h] = try[h] /\ asked'[h] = asked[h]
  BY DEF Return, NotifyInv, Types
<1>4. \A h \in Goroutine \ {g} : try[h].at # "idle" => try[h].msg \in Message \ {m}
  BY DEF NotifyInv, OneTry, Types, Progress
<1>5. Types'
  <2>1. Idle \in [at : Where, msg : Message \cup {NoMsg}, todo : Seq(Peer)]
    <3>1. << >> \in Seq(Peer) /\ "idle" \in Where
      BY DEF Where
    <3> QED BY <3>1 DEF Idle
  <2> HIDE DEF Idle
  <2>2. try' \in [Goroutine -> [at : Where, msg : Message \cup {NoMsg}, todo : Seq(Peer)]]
    BY <2>1 DEF Return, NotifyInv, Types
  <2>3. asked' \in [Goroutine -> SUBSET Peer]
    BY DEF Return, NotifyInv, Types
  <2> QED
    BY <1>2, <2>2, <2>3 DEF NotifyInv, Types
<1> HIDE DEF m
<1>6. Progress'
  <2>1. Idle.at = "idle" /\ Idle.msg = NoMsg /\ Idle.todo = << >>
    BY DEF Idle
  <2> DEFINE Sound(t, A) ==
        /\ t.at = "idle" <=> t.msg = NoMsg
        /\ t.at = "send" <=> t.todo # << >>
        /\ t.at \in {"idle", "chat"} => A = {}
        /\ t.at = "send" => A \cup Range(t.todo) = Peer
        /\ t.at = "save" => A = Peer
        /\ t.at = "push" => A \in {{}, Peer}
  <2>2. Sound(Idle, {})
    BY <2>1
  <2>3. \A h \in Goroutine : Sound(try[h], asked[h])
    BY DEF NotifyInv, Progress
  <2> HIDE DEF Sound
  <2>4. \A h \in Goroutine : Sound(try'[h], asked'[h])
    BY <1>3, <2>2, <2>3
  <2> QED
    BY <2>4 DEF Progress, Sound
<1>7. OneTry'
  <2>1. Idle.at = "idle" /\ Idle.msg = NoMsg
    BY DEF Idle
  <2>2. \A h \in Goroutine : try'[h].at # "idle" => h # g /\ try'[h] = try[h]
    BY <1>3, <2>1
  <2>3. \A h \in Goroutine : try'[h].at # "idle" => fate'[try'[h].msg] = "held"
    BY <1>2, <1>4, <2>2 DEF NotifyInv, OneTry
  <2>4. ASSUME NEW h \in Goroutine, NEW i \in Goroutine, try'[h].at # "idle",
               try'[h].msg = try'[i].msg
        PROVE  h = i
    <3>1. h # g /\ try'[h] = try[h] /\ try[h].msg \in Message
      BY <1>4, <2>2, <2>4
    <3>2. i # g
      BY <1>3, <2>1, <2>4, <3>1
    <3> QED
      BY <1>3, <2>4, <3>1, <3>2 DEF NotifyInv, OneTry
  <2> QED BY <2>3, <2>4 DEF OneTry
<1>8. Fresh'
  <2>1. ASSUME NEW h \in Goroutine, try'[h].at # "idle", ~ unsaved'[try'[h].msg]
        PROVE  got'[try'[h].msg] \subseteq asked'[h] /\ (try'[h].at = "push" => asked'[h] = {})
    <3>1. h # g /\ try'[h] = try[h] /\ asked'[h] = asked[h]
      BY <1>3, <2>1 DEF Idle
    <3>2. try[h].msg \in Message \ {m}
      BY <1>4, <2>1, <3>1
    <3>3. got'[try[h].msg] = got[try[h].msg] /\ ~ unsaved[try[h].msg]
      BY <1>2, <2>1, <3>1, <3>2
    <3> QED
      BY <2>1, <3>1, <3>3 DEF NotifyInv, Fresh
  <2>2. ASSUME NEW k \in Message, fate'[k] # "held", ~ unsaved'[k] PROVE got'[k] = {}
    BY <1>2, <2>2 DEF NotifyInv, Fresh
  <2> QED BY <2>1, <2>2 DEF Fresh
<1> QED BY <1>5, <1>6, <1>7, <1>8 DEF NotifyInv

\* A goroutine takes up a message.
LEMMA BeginNotify ==
    ASSUME NotifyInv, NEW g \in Goroutine, NEW m \in Message,
           try[g].at = "idle", fate[m] # "held",
           try' = [try EXCEPT ![g] = Begin(m)],
           fate' = [fate EXCEPT ![m] = "held"],
           UNCHANGED <<phase, starts, asked, attempts, got, unsaved>>
    PROVE  NotifyInv'
<1>1. /\ try'[g] = [at |-> "chat", msg |-> m, todo |-> << >>]
      /\ \A h \in Goroutine \ {g} : try'[h] = try[h]
  BY DEF NotifyInv, Types, Begin
<1>2. \A h \in Goroutine : try[h].at # "idle" => try[h].msg \in Message \ {m}
  BY DEF NotifyInv, Types, Progress, OneTry
<1>3. /\ fate'[m] = "held" /\ \A k \in Message \ {m} : fate'[k] = fate[k]
      /\ fate' \in [Message -> Fate]
  BY DEF NotifyInv, Types, Fate
<1>4. Types'
  <2>1. [at |-> "chat", msg |-> m, todo |-> << >>] \in
            [at : Where, msg : Message \cup {NoMsg}, todo : Seq(Peer)]
    <3>1. << >> \in Seq(Peer) /\ "chat" \in Where
      BY DEF Where
    <3> QED BY <3>1
  <2>2. try' \in [Goroutine -> [at : Where, msg : Message \cup {NoMsg}, todo : Seq(Peer)]]
    BY <1>1, <2>1 DEF NotifyInv, Types
  <2> QED
    BY <1>3, <2>2 DEF NotifyInv, Types
<1>5. Progress'
  <2>1. m # NoMsg /\ asked'[g] = {}
    BY DEF NotifyInv, Progress
  <2>2. asked' = asked /\ Progress
    BY DEF NotifyInv
  <2>3. try'[g].at = "chat" /\ try'[g].msg = m /\ try'[g].todo = << >>
    BY <1>1
  <2>4. ASSUME NEW h \in Goroutine
        PROVE  /\ try'[h].at = "idle" <=> try'[h].msg = NoMsg
               /\ try'[h].at = "send" <=> try'[h].todo # << >>
               /\ try'[h].at \in {"idle", "chat"} => asked'[h] = {}
               /\ try'[h].at = "send" => asked'[h] \cup Range(try'[h].todo) = Peer
               /\ try'[h].at = "save" => asked'[h] = Peer
               /\ try'[h].at = "push" => asked'[h] \in {{}, Peer}
    <3>1. CASE h = g
      BY <2>1, <2>3, <3>1
    <3>2. CASE h # g
      BY <1>1, <2>2, <3>2 DEF Progress
    <3> QED BY <3>1, <3>2
  <2> QED BY <2>4 DEF Progress
<1>6. OneTry'
  BY <1>1, <1>2, <1>3 DEF NotifyInv, OneTry, Types, Progress
<1>7. Fresh'
  <2>1. asked[g] = {} /\ (~ unsaved[m] => got[m] = {})
    BY DEF NotifyInv, Progress, Fresh
  <2> QED
    BY <1>1, <1>2, <1>3, <2>1 DEF NotifyInv, Fresh
<1> QED BY <1>4, <1>5, <1>6, <1>7 DEF NotifyInv

\* The goroutines end wherever they are.
LEMMA VanishNotify ==
    ASSUME NotifyInv, Vanish
    PROVE  NotifyInv'
<1> DEFINE S == {m \in Message : fate[m] = "held"}
<1>1. Settle(S, "lost") /\ "lost" \in Fate /\ S \in SUBSET Message
  BY DEF Vanish, Fate
<1>2. /\ fate' \in [Message -> Fate] /\ attempts' \in [Message -> Nat]
      /\ got' \in [Message -> SUBSET Peer] /\ unsaved' \in [Message -> BOOLEAN]
      /\ \A m \in S : fate'[m] = "lost" /\ got'[m] = {} /\ ~ unsaved'[m]
      /\ \A m \in Message \ S : /\ fate'[m] = fate[m] /\ got'[m] = got[m]
                               /\ unsaved'[m] = unsaved[m]
  <2> HIDE DEF S
  <2> QED BY <1>1, SettleEffect
<1>3. try' = [g \in Goroutine |-> Idle] /\ asked' = [g \in Goroutine |-> {}]
      /\ phase' = "down" /\ starts' = starts
  BY DEF Vanish
<1>4. Idle.at = "idle" /\ Idle.msg = NoMsg /\ Idle.todo = << >>
      /\ Idle \in [at : Where, msg : Message \cup {NoMsg}, todo : Seq(Peer)]
  <2>1. << >> \in Seq(Peer) /\ "idle" \in Where
    BY DEF Where
  <2> QED BY <2>1 DEF Idle
<1>5. Types'
  BY <1>2, <1>3, <1>4 DEF NotifyInv, Types
<1>6. Progress' /\ OneTry'
  BY <1>3, <1>4 DEF Progress, OneTry
<1>7. Fresh'
  <2>1. \A m \in Message : ~ unsaved'[m] => got'[m] = {}
    BY <1>2 DEF NotifyInv, Fresh
  <2> QED
    BY <1>3, <1>4, <2>1 DEF Fresh
<1> QED BY <1>5, <1>6, <1>7 DEF NotifyInv

\* GetChat answers: the calls begin.
LEMMA GetChatNotify ==
    ASSUME NotifyInv, NEW g \in Goroutine, GetChat(g)
    PROVE  NotifyInv'
<1> DEFINE next == IF Plan = << >> THEN "save" ELSE "send"
<1>1. try[g].at = "chat" /\ asked[g] = {}
      /\ UNCHANGED <<phase, starts, asked, fate, attempts, got, unsaved>>
  BY DEF GetChat, NotifyInv, Progress
<1>2. try' = [try EXCEPT ![g] = [try[g] EXCEPT !.at = next, !.todo = Plan]]
  BY DEF GetChat, Continue
<1>3. next \in {"save", "send"} /\ (next = "save" <=> Plan = << >>)
  OBVIOUS
<1> HIDE DEF next
<1>4. /\ try'[g].at = next /\ try'[g].msg = try[g].msg /\ try'[g].todo = Plan
      /\ \A h \in Goroutine \ {g} : try'[h] = try[h]
  BY <1>2 DEF NotifyInv, Types
<1>5. Types'
  <2>1. [try[g] EXCEPT !.at = next, !.todo = Plan] \in
            [at : Where, msg : Message \cup {NoMsg}, todo : Seq(Peer)]
    <3>1. try[g] \in [at : Where, msg : Message \cup {NoMsg}, todo : Seq(Peer)]
      BY DEF NotifyInv, Types
    <3>2. next \in Where
      BY <1>3 DEF Where
    <3> QED BY <3>1, <3>2, PlanIsOfPeers
  <2>2. try' \in [Goroutine -> [at : Where, msg : Message \cup {NoMsg}, todo : Seq(Peer)]]
    BY <1>2, <2>1 DEF NotifyInv, Types
  <2> QED BY <1>1, <2>2 DEF NotifyInv, Types
<1>6. Progress'
  <2>1. Plan = << >> => Peer = {}
    BY EmptyRange DEF Peer
  <2>2. Range(Plan) = Peer
    BY DEF Peer
  <2> QED
    BY <1>1, <1>3, <1>4, <2>1, <2>2 DEF NotifyInv, Progress
<1>7. OneTry' /\ Fresh'
  BY <1>1, <1>3, <1>4 DEF NotifyInv, OneTry, Fresh
<1> QED BY <1>5, <1>6, <1>7 DEF NotifyInv

LEMMA StepNotify ==
    NotifyInv /\ [Next]_vars => NotifyInv'
<1> SUFFICES ASSUME NotifyInv, [Next]_vars PROVE NotifyInv'
  OBVIOUS
<1> USE DEF Calls
<1>1. ASSUME NEW m \in Message, Receive(m) PROVE NotifyInv'
  BY <1>1, BeginNotify DEF Receive
<1>2. ASSUME NEW g \in Goroutine, NEW m \in Message, Pop(g, m) PROVE NotifyInv'
  <2>1. CASE Settle({m}, "abandoned") /\ UNCHANGED <<phase, starts, try, asked>>
    <3>1. /\ fate' \in [Message -> Fate] /\ attempts' \in [Message -> Nat]
          /\ got' \in [Message -> SUBSET Peer] /\ unsaved' \in [Message -> BOOLEAN]
          /\ fate'[m] = "abandoned" /\ got'[m] = {} /\ ~ unsaved'[m]
          /\ \A k \in Message \ {m} : /\ fate'[k] = fate[k] /\ got'[k] = got[k]
                                     /\ unsaved'[k] = unsaved[k]
      <4>1. {m} \in SUBSET Message /\ "abandoned" \in Fate /\ m \in {m}
        BY DEF Fate
      <4>2. /\ fate' \in [Message -> Fate] /\ attempts' \in [Message -> Nat]
            /\ got' \in [Message -> SUBSET Peer] /\ unsaved' \in [Message -> BOOLEAN]
            /\ \A k \in {m} : fate'[k] = "abandoned" /\ got'[k] = {} /\ ~ unsaved'[k]
            /\ \A k \in Message \ {m} : /\ fate'[k] = fate[k] /\ got'[k] = got[k]
                                       /\ unsaved'[k] = unsaved[k]
        BY <2>1, <4>1, SettleEffect
      <4> QED BY <4>1, <4>2
    <3>2. \A h \in Goroutine : try[h].at # "idle" => try[h].msg \in Message \ {m}
      BY <1>2 DEF Pop, NotifyInv, Types, Progress, OneTry
    <3>3. Types' /\ Progress' /\ OneTry'
      BY <2>1, <3>1, <3>2 DEF NotifyInv, Types, Progress, OneTry
    <3>4. Fresh'
      BY <2>1, <3>1, <3>2 DEF NotifyInv, Fresh
    <3> QED BY <3>3, <3>4 DEF NotifyInv
  <2>2. CASE /\ fate' = [fate EXCEPT ![m] = "held"]
             /\ try' = [try EXCEPT ![g] = Begin(m)]
             /\ UNCHANGED <<phase, starts, asked, attempts, got, unsaved>>
    BY <1>2, <2>2, BeginNotify DEF Pop
  <2> QED BY <1>2, <2>1, <2>2 DEF Pop
<1>3. ASSUME NEW g \in Goroutine, GetChat(g) PROVE NotifyInv'
  BY <1>3, GetChatNotify
<1>4. ASSUME NEW g \in Goroutine, GetChatError(g) PROVE NotifyInv'
  <2>1. asked[g] = {}
    BY <1>4 DEF GetChatError, NotifyInv, Progress
  <2> QED
    BY <1>4, <2>1, FailNotify DEF GetChatError
<1>5. ASSUME NEW g \in Goroutine,
             SendDingTalk(g) \/ SendFeishu(g) \/ SendBark(g) \/ SendHarmony(g)
      PROVE  NotifyInv'
  <2>1. /\ try[g].at = "send" /\ Request(g) /\ Continue(g, Tail(try[g].todo))
        /\ UNCHANGED <<phase, starts, fate, attempts, unsaved>>
    BY <1>5 DEF SendDingTalk, SendFeishu, SendBark, SendHarmony
  <2> QED BY <2>1, CallNotify
<1>6. ASSUME NEW g \in Goroutine, Save(g) PROVE NotifyInv'
  <2>1. "done" \in Fate \ {"held"}
    BY DEF Fate
  <2> QED
    BY <1>6, <2>1, ReturnNotify DEF Save
<1>7. ASSUME NEW g \in Goroutine, SaveError(g) PROVE NotifyInv'
  <2>1. asked[g] = Peer
    BY <1>7 DEF SaveError, NotifyInv, Progress
  <2> QED
    BY <1>7, <2>1, FailNotify DEF SaveError
<1>8. ASSUME NEW g \in Goroutine, Push(g) PROVE NotifyInv'
  <2>1. "lost" \in Fate \ {"held"}
    BY DEF Fate
  <2> QED
    BY <1>8, <2>1, ReturnNotify DEF Push
<1>9. CASE End \/ \E g \in Goroutine : BarkPanic(g)
  BY <1>9, VanishNotify DEF End, BarkPanic
<1>10. CASE StartProcess
  BY <1>10 DEF StartProcess, NotifyInv, Types, Progress, OneTry, Fresh
<1>11. CASE Close
  BY <1>11 DEF Close, NotifyInv, Types, Progress, OneTry, Fresh
<1>12. CASE UNCHANGED vars
  BY <1>12 DEF vars, NotifyInv, Types, Progress, OneTry, Fresh
<1> QED
  BY <1>1, <1>2, <1>3, <1>4, <1>5, <1>6, <1>7, <1>8, <1>9, <1>10, <1>11, <1>12
     DEF Next, Try, TimedStep

LEMMA NotifyInvariant == Spec => []NotifyInv
BY InitNotify, StepNotify, PTL DEF Spec

-----------------------------------------------------------------------------

\* Types.
THEOREM NotifyTypes == Spec => []TypeOK
<1>1. NotifyInv => TypeOK
  BY DEF NotifyInv, Types, Progress, TypeOK, Where, Fate
<1> QED BY <1>1, NotifyInvariant, PTL

\* A try that saves has called every peer of the configuration, one that goes
\* back to the queue every peer or none, whichever clients failed before
\* (processMessage only logs their errors).
THEOREM EveryPeerOrNone == Spec => []AllOrNone
<1>1. NotifyInv => AllOrNone
  BY DEF NotifyInv, Progress, AllOrNone
<1> QED BY <1>1, NotifyInvariant, PTL

\* A peer is sent a message again only after a try that sent it could not save
\* it (SaveMessage is the last call of processMessage, and its error the only
\* one after the calls that makes a message go back to the queue).
THEOREM DuplicatesOnlyBySave == Spec => AgainOnlyIfUnsaved
<1>1. NotifyInv => \A g \in Goroutine : Resent(g) => unsaved[try[g].msg]
  BY DEF NotifyInv, Types, Progress, Fresh, Resent
<1> QED BY <1>1, NotifyInvariant, PTL DEF AgainOnlyIfUnsaved

=============================================================================
