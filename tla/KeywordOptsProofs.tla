------------------------- MODULE KeywordOptsProofs -------------------------
(***************************************************************************)
(* Theorems about KeywordOpts, for option lists of any length, with any    *)
(* terms: that a call fails exactly for a bad option, which of the options *)
(* given twice counts, and that every documented option is applied.        *)
(***************************************************************************)
EXTENDS KeywordOpts, TLAPS

\* A term is not taken and kept alike, and an arm that keeps keeps nil.
Apart(arm) == arm.takes \cap {Unset, "nil"} = {} /\ arm.keeps \subseteq {"nil"}
Plain(terms) == terms \cap {Unset, "nil"} = {}
Decoders == {Bool, Timestamp, Text, Binary, Millis, CongestionControl, Priority,
             QueryTarget, QueryConsolidation, ReplyKeyExpr, Locality}
Arm == {Must(terms) : terms \in Decoders} \cup {Option(terms) : terms \in Decoders}

LEMMA DecodersPlain == \A terms \in Decoders : Plain(terms)
<1>1. Plain(Bool) /\ Plain(Timestamp) /\ Plain(Text) /\ Plain(Binary) /\ Plain(Millis)
  BY DEF Plain, Unset, Bool, Timestamp, Text, Binary, Millis
<1>2. Plain(CongestionControl) /\ Plain(Priority) /\ Plain(QueryTarget)
  BY DEF Plain, Unset, CongestionControl, Priority, QueryTarget
<1>3. Plain(QueryConsolidation) /\ Plain(ReplyKeyExpr) /\ Plain(Locality)
  BY DEF Plain, Unset, QueryConsolidation, ReplyKeyExpr, Locality
<1> QED
  BY <1>1, <1>2, <1>3 DEF Decoders

LEMMA ArmsApart == \A arm \in Arm : Apart(arm)
BY DecodersPlain DEF Arm, Must, Option, Apart, Plain

\* No key is that of NotAPair, or :final?.
Sound(arms) == /\ DOMAIN arms \cap {"", "final?"} = {}
               /\ \A k \in DOMAIN arms : arms[k] \in Arm

LEMMA BuildersSound == \A n \in DOMAIN Builders : Sound(Builders[n])
<1> USE DEF Sound, Arm, Decoders
<1>1. Sound(SessionPut)
  BY DEF SessionPut
<1>2. Sound(SessionDelete)
  BY DEF SessionDelete
<1>3. Sound(PublisherPut)
  BY DEF PublisherPut
<1>4. Sound(PublisherDelete)
  BY DEF PublisherDelete
<1>5. Sound(SessionGet)
  BY DEF SessionGet
<1>6. Sound(PublisherBuilder)
  BY DEF PublisherBuilder
<1>7. Sound(SubscriberBuilder)
  BY DEF SubscriberBuilder
<1>8. Sound(QueryableBuilder)
  BY DEF QueryableBuilder
<1>9. Sound(QuerierBuilder)
  BY DEF QuerierBuilder
<1>10. Sound(QuerierGet)
  BY DEF QuerierGet
<1>11. Sound(ReplyPut)
  BY DEF ReplyPut
<1>12. Sound(ReplyErr)
  BY DEF ReplyErr
<1>13. Sound(ReplyDelete)
  BY DEF ReplyDelete
<1>14. Sound(LivelinessGet)
  BY DEF LivelinessGet
<1>15. Sound(LivelinessSubscriber)
  BY DEF LivelinessSubscriber
<1> HIDE DEF Sound
<1> QED
  BY <1>1, <1>2, <1>3, <1>4, <1>5, <1>6, <1>7, <1>8, <1>9, <1>10, <1>11, <1>12, <1>13, <1>14, <1>15
     DEF Builders

\* Each documented term is one the arm takes or keeps.
Understands(arms, keys) ==
  \A k \in keys : k \in DOMAIN arms /\ DocumentedTerms[k] \subseteq arms[k].takes \cup arms[k].keeps

LEMMA TermsTaken ==
  /\ DocumentedTerms["accept_replies"] = ReplyKeyExpr
  /\ DocumentedTerms["allowed_destination"] = Locality
  /\ DocumentedTerms["allowed_origin"] = Locality
  /\ DocumentedTerms["attachment"] = Binary \cup {"nil"}
  /\ DocumentedTerms["complete"] = Bool
  /\ DocumentedTerms["congestion_control"] = CongestionControl
  /\ DocumentedTerms["consolidation"] = QueryConsolidation
  /\ DocumentedTerms["encoding"] = Text
  /\ DocumentedTerms["express"] = Bool
  /\ DocumentedTerms["history"] = Bool
  /\ DocumentedTerms["parameters"] = Text
  /\ DocumentedTerms["payload"] = Binary \cup {"nil"}
  /\ DocumentedTerms["priority"] = Priority
  /\ DocumentedTerms["query_timeout"] = Millis
  /\ DocumentedTerms["target"] = QueryTarget
  /\ DocumentedTerms["timestamp"] = Timestamp
BY DEF DocumentedTerms, ReplyKeyExpr, Locality, CongestionControl, QueryConsolidation, Priority, QueryTarget

LEMMA AllUnderstood == \A n \in DOMAIN Builders : Understands(Builders[n], DocumentedKeys[n])
<1> USE TermsTaken DEF Understands, Must, Option
<1>1. Understands(SessionPut, DocumentedKeys["session_put"])
  BY DEF SessionPut, DocumentedKeys
<1>2. Understands(SessionDelete, DocumentedKeys["session_delete"])
  BY DEF SessionDelete, DocumentedKeys
<1>3. Understands(SessionGet, DocumentedKeys["session_get"])
  BY DEF SessionGet, DocumentedKeys
<1>4. Understands(PublisherPut, DocumentedKeys["publisher_put"])
  BY DEF PublisherPut, DocumentedKeys
<1>5. Understands(PublisherDelete, DocumentedKeys["publisher_delete"])
  BY DEF PublisherDelete, DocumentedKeys
<1>6. Understands(QuerierGet, DocumentedKeys["querier_get"])
  BY DEF QuerierGet, DocumentedKeys
<1>7. Understands(ReplyPut, DocumentedKeys["query_reply"])
  BY DEF ReplyPut, DocumentedKeys
<1>8. Understands(ReplyErr, DocumentedKeys["query_reply_error"])
  BY DEF ReplyErr, DocumentedKeys
<1>9. Understands(ReplyDelete, DocumentedKeys["query_reply_delete"])
  BY DEF ReplyDelete, DocumentedKeys
<1>10. Understands(PublisherBuilder, DocumentedKeys["session_declare_publisher"])
  BY DEF PublisherBuilder, DocumentedKeys
<1>11. Understands(SubscriberBuilder, DocumentedKeys["session_declare_subscriber"])
  BY DEF SubscriberBuilder, DocumentedKeys
<1>12. Understands(QueryableBuilder, DocumentedKeys["session_declare_queryable"])
  BY DEF QueryableBuilder, DocumentedKeys
<1>13. Understands(QuerierBuilder, DocumentedKeys["session_declare_querier"])
  BY DEF QuerierBuilder, DocumentedKeys
<1>14. Understands(LivelinessGet, DocumentedKeys["liveliness_get"])
  BY DEF LivelinessGet, DocumentedKeys
<1>15. Understands(LivelinessSubscriber, DocumentedKeys["liveliness_declare_subscriber"])
  BY DEF LivelinessSubscriber, DocumentedKeys
<1> HIDE DEF Understands
<1> QED
  BY <1>1, <1>2, <1>3, <1>4, <1>5, <1>6, <1>7, <1>8, <1>9, <1>10, <1>11, <1>12, <1>13, <1>14, <1>15
     DEF Builders

\* The timestamp of a reply may be documented as nil, which its arm keeps.
LEMMA TimestampKeeps ==
  \A n \in Replies : "timestamp" \in DocumentedKeys[n] =>
    "timestamp" \in DOMAIN Builders[n] /\ "nil" \in Builders[n]["timestamp"].keeps
BY DEF Replies, Builders, DocumentedKeys, ReplyPut, ReplyErr, ReplyDelete, Option
-----------------------------------------------------------------------------
Pair(o) == o = [key |-> o.key, value |-> o.value]

\* The types, but that the terms are strings.
Shape ==
  /\ nif \in DOMAIN Builders
  /\ opts \in Seq(Offered) /\ at \in 1 .. Len(opts) + 1
  /\ builder = [k \in DOMAIN Arms |-> builder[k]]

\* What the search has passed, what the fold has passed, and how a call ended.
Passed ==
  /\ phase = "list" => at = 1
  /\ phase \in {"list", "search"} => builder = [k \in DOMAIN Arms |-> Unset]
  /\ phase = "search" =>
       nif \in Replies /\ \A j \in 1 .. at - 1 : opts[j] # NotAPair /\ opts[j].key # "final?"
  /\ phase \in {"fold", "ok"} => \A j \in 1 .. at - 1 : ~Bad(opts[j])
  /\ phase \in {"fold", "ok"} /\ nif \in Replies => is_final \in Bool
  /\ phase = "ok" => at = Len(opts) + 1
  /\ phase = "error" => BadFinal \/ \E i \in 1 .. Len(opts) : Bad(opts[i])

OptsInv == Shape /\ Passed /\ LastWins /\ FinalIsFirst

LEMMA ArmsFacts ==
  ASSUME nif \in DOMAIN Builders
  PROVE  /\ DOMAIN Arms \cap {"", "final?"} = {}
         /\ \A k \in DOMAIN Arms : Apart(Arms[k])
         /\ Understands(Arms, DocumentedKeys[nif])
BY BuildersSound, ArmsApart, AllUnderstood DEF Sound, Arms

LEMMA NoKey == NotAPair.key = ""
BY DEF NotAPair

LEMMA OfferedPairs == \A o \in Offered : Pair(o)
<1>1. Pair(NotAPair)
  BY DEF NotAPair, Pair
<1>2. ASSUME NEW K, NEW V, NEW o \in [key : K, value : V] PROVE Pair(o)
  BY DEF Pair
<1> DEFINE Documented == UNION {[key : {k}, value : DocumentedTerms[k] \cup Wrong] : k \in DocumentedKeys[nif]}
           Others == [key : {"final?"}, value : Bool \cup Wrong] \cup [key : {"other"}, value : Wrong]
<1>3. Offered = {NotAPair} \cup Documented \cup Others
  BY DEF Offered
<1>4. ASSUME NEW o \in Documented PROVE Pair(o)
  <2>1. PICK k \in DocumentedKeys[nif] : o \in [key : {k}, value : DocumentedTerms[k] \cup Wrong]
    OBVIOUS
  <2> QED
    BY <1>2, <2>1
<1>5. ASSUME NEW o \in Others PROVE Pair(o)
  BY <1>2
<1> HIDE DEF Documented, Others
<1> QED
  BY <1>1, <1>3, <1>4, <1>5

\* The call stays the same.
LEMMA SameCall == nif' = nif => Offered' = Offered /\ Arms' = Arms
BY DEF Offered, Arms

LEMMA InitOpts == Init => OptsInv
<1> SUFFICES ASSUME Init PROVE OptsInv
  OBVIOUS
<1>1. /\ nif \in DOMAIN Builders /\ opts = <<>> /\ at = 1 /\ phase = "list" /\ is_final = Unset
      /\ builder = [k \in DOMAIN Arms |-> Unset]
  BY DEF Init
<1>2. Shape
  BY <1>1 DEF Shape
<1> QED
  BY <1>1, <1>2 DEF OptsInv, Passed, LastWins, FinalIsFirst

\* The element a step looks at.
LEMMA HereFacts ==
  ASSUME OptsInv, at <= Len(opts)
  PROVE  /\ at \in 1 .. Len(opts) /\ Here = [key |-> Here.key, value |-> Here.value]
         /\ at + 1 \in 1 .. Len(opts) + 1 /\ (at + 1) - 1 = at
         /\ 1 .. at = (1 .. at - 1) \cup {at}
<1>1. opts \in Seq(Offered) /\ at \in 1 .. Len(opts) + 1 /\ Len(opts) \in Nat
  BY DEF OptsInv, Shape
<1>2. at \in 1 .. Len(opts) /\ opts[at] \in Offered
  BY <1>1
<1>3. Pair(Here)
  BY <1>2, OfferedPairs DEF Here
<1> QED
  BY <1>1, <1>2, <1>3 DEF Pair

LEMMA OptsStep == OptsInv /\ [Next]_vars => OptsInv'
<1> SUFFICES ASSUME OptsInv, [Next]_vars PROVE OptsInv'
  OBVIOUS
<1>0. /\ nif \in DOMAIN Builders /\ opts \in Seq(Offered) /\ at \in 1 .. Len(opts) + 1
      /\ builder = [k \in DOMAIN Arms |-> builder[k]] /\ Len(opts) \in Nat
  BY DEF OptsInv, Shape
<1>1. ASSUME NEW o \in Offered, Offer(o) PROVE OptsInv'
  <2>1. /\ phase = "list" /\ phase' = "list" /\ opts' = Append(opts, o) /\ at = 1
        /\ UNCHANGED <<nif, at, is_final, builder>>
    BY <1>1 DEF Offer, OptsInv, Passed
  <2>2. opts' \in Seq(Offered) /\ Len(opts') \in Nat
    BY <1>0, <2>1
  <2>3. Shape'
    BY <1>0, <2>1, <2>2, SameCall DEF Shape
  <2> QED
    BY <2>1, <2>3 DEF OptsInv, Passed, LastWins, FinalIsFirst, Arms
<1>2. CASE Call
  <2>1. /\ phase = "list" /\ phase' = IF nif \in Replies THEN "search" ELSE "fold"
        /\ UNCHANGED <<nif, opts, at, is_final, builder>>
    BY <1>2 DEF Call
  <2>2. at = 1 /\ builder = [k \in DOMAIN Arms |-> Unset]
    BY <2>1 DEF OptsInv, Passed
  <2>3. Shape' /\ FinalIsFirst'
    BY <2>1, SameCall DEF OptsInv, Shape, FinalIsFirst
  <2>4. Passed'
    BY <2>1, <2>2 DEF Passed, Arms
  <2>5. LastWins'
    BY <2>1, <2>2 DEF LastWins, NoneOf, Arms
  <2> QED
    BY <2>3, <2>4, <2>5 DEF OptsInv
<1>3. CASE SearchOn
  <2>1. /\ phase = "search" /\ at <= Len(opts) /\ Here # NotAPair /\ Here.key # "final?"
        /\ at' = at + 1 /\ UNCHANGED <<nif, opts, phase, is_final, builder>>
    BY <1>3 DEF SearchOn
  <2>2. Shape' /\ FinalIsFirst' /\ LastWins'
    BY <2>1, HereFacts, SameCall DEF OptsInv, Shape, FinalIsFirst, LastWins
  <2>3. Passed'
    BY <2>1, HereFacts DEF OptsInv, Passed, Here, Arms
  <2> QED
    BY <2>2, <2>3 DEF OptsInv
<1>4. CASE SearchFails
  <2>1. /\ phase = "search" /\ at <= Len(opts) /\ phase' = "error"
        /\ Here = NotAPair \/ (Here.key = "final?" /\ Here.value \notin Bool)
        /\ UNCHANGED <<nif, opts, at, is_final, builder>>
    BY <1>4 DEF SearchFails
  <2>2. Shape' /\ FinalIsFirst' /\ LastWins'
    BY <2>1, SameCall DEF OptsInv, Shape, FinalIsFirst, LastWins
  <2>3. BadFinal \/ \E i \in 1 .. Len(opts) : Bad(opts[i])
    BY <2>1, HereFacts DEF OptsInv, Passed, Here, BadFinal, Bad
  <2>4. Passed'
    BY <2>1, <2>3 DEF Passed, BadFinal, Bad, Known, Arms
  <2> QED
    BY <2>2, <2>4 DEF OptsInv
<1>5. ASSUME phase = "search", phase' = "fold", at' = 1, UNCHANGED <<nif, opts, builder>>,
             is_final' \in Bool, FinalIsFirst'
      PROVE  OptsInv'
  <2>1. builder = [k \in DOMAIN Arms |-> Unset]
    BY <1>5 DEF OptsInv, Passed
  <2>2. Shape'
    BY <1>0, <1>5, SameCall DEF Shape
  <2>3. Passed' /\ LastWins'
    BY <1>5, <2>1 DEF Passed, LastWins, NoneOf, Arms
  <2> QED
    BY <1>5, <2>2, <2>3 DEF OptsInv
<1>6. CASE Found
  <2>1. /\ phase = "search" /\ at <= Len(opts) /\ Here.key = "final?" /\ Here.value \in Bool
        /\ is_final' = Here.value /\ phase' = "fold" /\ at' = 1 /\ UNCHANGED <<nif, opts, builder>>
    BY <1>6 DEF Found
  <2>2. FinalIsFirst'
    BY <2>1, HereFacts DEF OptsInv, Passed, FinalIsFirst, Here
  <2> QED
    BY <1>5, <2>1, <2>2
<1>7. CASE NotFound
  <2>1. /\ phase = "search" /\ at > Len(opts) /\ is_final' = "true"
        /\ phase' = "fold" /\ at' = 1 /\ UNCHANGED <<nif, opts, builder>>
    BY <1>7 DEF NotFound
  <2>2. at - 1 = Len(opts)
    BY <1>0, <2>1
  <2>3. FinalIsFirst'
    BY <2>1, <2>2 DEF OptsInv, Passed, FinalIsFirst
  <2> QED
    BY <1>5, <2>1, <2>3 DEF Bool
<1>8. CASE Skip
  <2>1. /\ phase = "fold" /\ at <= Len(opts) /\ Skips(Here)
        /\ at' = at + 1 /\ UNCHANGED <<nif, opts, phase, is_final, builder>>
    BY <1>8 DEF Skip
  <2>2. Shape' /\ FinalIsFirst'
    BY <2>1, HereFacts, SameCall DEF OptsInv, Shape, FinalIsFirst
  <2>3. ~Bad(opts[at])
    BY <2>1 DEF Skips, Bad, Known, Here
  <2>4. Passed'
    BY <2>1, <2>3, HereFacts DEF OptsInv, Passed, Bad, Known, Arms
  <2>5. ASSUME NEW k \in DOMAIN Arms
        PROVE  LastOf(k, builder[k], at) \/ (builder[k] = Unset /\ NoneOf(k, at))
    <3>1. opts[at].key = k => opts[at].value \in Arms[k].keeps
      BY <2>1 DEF Skips, Known, Here
    <3>2. LastOf(k, builder[k], at - 1) \/ (builder[k] = Unset /\ NoneOf(k, at - 1))
      BY <2>1 DEF OptsInv, LastWins
    <3> QED
      BY <2>1, <3>1, <3>2, HereFacts DEF LastOf, NoneOf
  <2>6. LastWins'
    BY <2>1, <2>5, HereFacts DEF LastWins, LastOf, NoneOf, Arms
  <2> QED
    BY <2>2, <2>4, <2>6 DEF OptsInv
<1>9. CASE Set
  <2>1. /\ phase = "fold" /\ at <= Len(opts) /\ Sets(Here)
        /\ builder' = [builder EXCEPT ![Here.key] = Here.value]
        /\ at' = at + 1 /\ UNCHANGED <<nif, opts, phase, is_final>>
    BY <1>9 DEF Set
  <2>2. /\ Here.key \in DOMAIN Arms /\ Here.value \in Arms[Here.key].takes
        /\ Here.value \notin Arms[Here.key].keeps /\ Here # NotAPair
    <3>1. Here.key \in DOMAIN Arms /\ Here.value \in Arms[Here.key].takes
      BY <2>1 DEF Sets, Known
    <3>2. Apart(Arms[Here.key]) /\ Here.key # ""
      BY <1>0, <3>1, ArmsFacts
    <3>3. Here # NotAPair
      BY <3>2, NoKey
    <3> QED
      BY <3>1, <3>2, <3>3 DEF Apart
  <2>3. Shape' /\ FinalIsFirst'
    BY <2>1, <2>2, HereFacts, SameCall DEF OptsInv, Shape, FinalIsFirst
  <2>4. ~Bad(opts[at])
    BY <2>2 DEF Bad, Here
  <2>5. Passed'
    BY <2>1, <2>4, HereFacts DEF OptsInv, Passed, Bad, Known, Arms
  <2>6. ASSUME NEW k \in DOMAIN Arms
        PROVE  LastOf(k, builder'[k], at) \/ (builder'[k] = Unset /\ NoneOf(k, at))
    <3>1. CASE k = Here.key
      <4>1. builder'[k] = Here.value /\ opts[at] = [key |-> k, value |-> Here.value]
        BY <1>0, <2>1, <3>1, HereFacts DEF Here
      <4> QED
        BY <2>1, <2>2, <3>1, <4>1, HereFacts DEF LastOf
    <3>2. CASE k # Here.key
      <4>1. builder'[k] = builder[k] /\ opts[at].key # k
        BY <1>0, <2>1, <3>2 DEF Here
      <4>2. LastOf(k, builder[k], at - 1) \/ (builder[k] = Unset /\ NoneOf(k, at - 1))
        BY <2>1 DEF OptsInv, LastWins
      <4>3. 1 .. at = (1 .. at - 1) \cup {at} /\ at \in Nat
        BY <1>0, <2>1, HereFacts
      <4>4. LastOf(k, builder[k], at - 1) => LastOf(k, builder[k], at)
        BY <4>1, <4>3 DEF LastOf
      <4>5. NoneOf(k, at - 1) => NoneOf(k, at)
        BY <4>1, <4>3 DEF NoneOf
      <4> QED
        BY <4>1, <4>2, <4>4, <4>5
    <3> QED
      BY <3>1, <3>2
  <2>7. LastWins'
    BY <2>1, <2>6, HereFacts DEF LastWins, LastOf, NoneOf, Arms
  <2> QED
    BY <2>3, <2>5, <2>7 DEF OptsInv
<1>10. CASE Fail
  <2>1. /\ phase = "fold" /\ at <= Len(opts) /\ ~Skips(Here) /\ ~Sets(Here)
        /\ phase' = "error" /\ UNCHANGED <<nif, opts, at, is_final, builder>>
    BY <1>10 DEF Fail
  <2>2. Bad(opts[at])
    BY <2>1 DEF Skips, Sets, Bad, Here
  <2>3. Passed'
    BY <2>1, <2>2, HereFacts DEF Passed, Bad, Known, Arms
  <2> QED
    BY <2>1, <2>3, SameCall DEF OptsInv, Shape, FinalIsFirst, LastWins
<1>11. CASE Done
  <2>1. /\ phase = "fold" /\ at > Len(opts) /\ phase' = "ok"
        /\ UNCHANGED <<nif, opts, at, is_final, builder>>
    BY <1>11 DEF Done
  <2>2. at = Len(opts) + 1
    BY <1>0, <2>1
  <2>3. Shape' /\ FinalIsFirst'
    BY <2>1, SameCall DEF OptsInv, Shape, FinalIsFirst
  <2>4. Passed'
    BY <2>1, <2>2 DEF OptsInv, Passed, Bad, Known, Arms
  <2>5. LastWins'
    BY <2>1 DEF OptsInv, LastWins, LastOf, NoneOf, Arms
  <2> QED
    BY <2>3, <2>4, <2>5 DEF OptsInv
<1>12. CASE UNCHANGED vars
  BY <1>12, SameCall DEF vars, OptsInv, Shape, Passed, FinalIsFirst, LastWins, LastOf, NoneOf, Bad, BadFinal, Known
<1> QED
  BY <1>1, <1>2, <1>3, <1>4, <1>6, <1>7, <1>8, <1>9, <1>10, <1>11, <1>12 DEF Next

LEMMA OptsAlways == Spec => []OptsInv
BY InitOpts, OptsStep, PTL DEF Spec
-----------------------------------------------------------------------------
\* In a list of any length, the last term but nil that is given for an option
\* counts, and the first :final?.
THEOREM LastOptionCounts == Spec => []RepeatedOpts
<1>1. OptsInv => RepeatedOpts
  BY DEF OptsInv, RepeatedOpts
<1> QED
  BY <1>1, OptsAlways, PTL

\* A reply that reached the fold has no bad :final?.
LEMMA FinalIsGood ==
  ASSUME OptsInv, phase \in {"fold", "ok"}
  PROVE  ~BadFinal
<1> SUFFICES ASSUME BadFinal PROVE FALSE
  OBVIOUS
<1>1. PICK i \in 1 .. Len(opts) : /\ opts[i].key = "final?" /\ opts[i].value \notin Bool
                                  /\ \A j \in 1 .. i - 1 : opts[j].key # "final?"
  BY DEF BadFinal
<1>2. nif \in Replies /\ Len(opts) \in Nat
  BY DEF BadFinal, OptsInv, Shape
<1>3. is_final \in Bool
  BY <1>2 DEF OptsInv, Passed
<1>4. PICK n \in 1 .. Len(opts) : /\ opts[n] = [key |-> "final?", value |-> is_final]
                                  /\ \A j \in 1 .. n - 1 : opts[j].key # "final?"
  BY <1>1, <1>2 DEF OptsInv, FinalIsFirst
<1>5. i = n
  BY <1>1, <1>2, <1>4
<1> QED
  BY <1>1, <1>3, <1>4, <1>5

\* Wherever a bad option is in the list, and whatever another says: the call
\* fails, and for nothing else.
THEOREM FailsExactlyIfBad == Spec => []FailsIfBad
<1>1. ASSUME OptsInv, phase = "ok"
      PROVE  ~BadFinal /\ \A i \in 1 .. Len(opts) : ~Bad(opts[i])
  <2>1. at - 1 = Len(opts)
    BY <1>1 DEF OptsInv, Passed, Shape
  <2> QED
    BY <1>1, <2>1, FinalIsGood DEF OptsInv, Passed
<1>2. OptsInv => FailsIfBad
  BY <1>1 DEF OptsInv, Passed, FailsIfBad
<1> QED
  BY <1>2, OptsAlways, PTL

\* A documented option is good,
LEMMA DocumentedIsGood ==
  ASSUME OptsInv, NEW o, IsDocumented(o)
  PROVE  /\ ~Bad(o) /\ (o.key = "final?" => o.value \in Bool)
         /\ o.value = "nil" \/ o.key = "final?" \/ (o.key \in DOMAIN Arms /\ o.value \in Arms[o.key].takes)
<1>1. nif \in DOMAIN Builders
  BY DEF OptsInv, Shape
<1>2. ~(o.key \in DOMAIN Arms) => ~Known(o)
  BY DEF Known
<1>3. CASE o.key \in DocumentedKeys[nif] /\ o.value \in DocumentedTerms[o.key]
  <2>1. PICK k : k = o.key
    OBVIOUS
  <2>2. k \in DOMAIN Arms /\ o.value \in Arms[k].takes \cup Arms[k].keeps
    BY <1>1, <1>3, <2>1, ArmsFacts DEF Understands
  <2>3. Apart(Arms[k]) /\ k # "" /\ k # "final?"
    BY <1>1, <2>2, ArmsFacts
  <2>4. o # NotAPair
    BY <2>1, <2>3, NoKey
  <2>5. ~Bad(o)
    BY <2>1, <2>2, <2>4 DEF Bad
  <2> QED
    BY <2>1, <2>2, <2>3, <2>5 DEF Apart
<1>4. CASE nif \in Replies /\ o.key = "timestamp" /\ "timestamp" \in DocumentedKeys[nif] /\ o.value = "nil"
  <2>1. "timestamp" \in DOMAIN Arms /\ "nil" \in Arms["timestamp"].keeps
    BY <1>4, TimestampKeeps DEF Arms
  <2>2. o # NotAPair
    BY <1>4, NoKey
  <2>3. ~Bad(o)
    BY <1>4, <2>1, <2>2 DEF Bad
  <2> QED
    BY <1>4, <2>3
<1>5. CASE nif \in Replies /\ o.key = "final?" /\ o.value \in Bool
  <2>1. o # NotAPair
    BY <1>5, NoKey
  <2>2. ~(o.key \in DOMAIN Arms)
    BY <1>1, <1>5, ArmsFacts
  <2>3. ~Bad(o)
    BY <1>2, <2>1, <2>2 DEF Bad
  <2> QED
    BY <1>5, <2>3
<1> QED
  BY <1>3, <1>4, <1>5 DEF IsDocumented

\* and an option that was taken is in the builder, or a later one of its key.
LEMMA TakenIsSet ==
  ASSUME OptsInv, phase = "ok", NEW i \in 1 .. Len(opts),
         opts[i].key \in DOMAIN Arms, opts[i].value \in Arms[opts[i].key].takes
  PROVE  opts[i].key \in DOMAIN builder /\ builder[opts[i].key] # Unset
<1>1. PICK k \in DOMAIN Arms : k = opts[i].key /\ Apart(Arms[k])
  BY ArmsFacts DEF OptsInv, Shape
<1>2. at - 1 = Len(opts) /\ DOMAIN builder = DOMAIN Arms
  BY DEF OptsInv, Passed, Shape
<1>3. ~NoneOf(k, at - 1)
  BY <1>1, <1>2 DEF NoneOf, Apart
<1>4. LastOf(k, builder[k], at - 1)
  BY <1>3 DEF OptsInv, LastWins
<1>5. PICK j \in 1 .. Len(opts) : opts[j] = [key |-> k, value |-> builder[k]] /\ builder[k] \notin Arms[k].keeps
  BY <1>2, <1>4 DEF LastOf
<1>6. ~Bad(opts[j])
  BY <1>2, <1>5 DEF OptsInv, Passed
<1>7. builder[k] \in Arms[k].takes
  BY <1>5, <1>6 DEF Bad, Known
<1> QED
  BY <1>1, <1>2, <1>7 DEF Apart

\* For every call: options that are all documented do not make it fail, and
\* none is lost.
THEOREM DocumentedOptionsApply == Spec => []DocumentedOptsApply
<1>1. ASSUME OptsInv, \A i \in 1 .. Len(opts) : IsDocumented(opts[i])
      PROVE  /\ phase # "error"
             /\ phase = "ok" => \A i \in 1 .. Len(opts) :
                  \/ opts[i].value = "nil" \/ opts[i].key = "final?"
                  \/ opts[i].key \in DOMAIN builder /\ builder[opts[i].key] # Unset
  <2>1. phase # "error"
    BY <1>1, DocumentedIsGood DEF OptsInv, Passed, BadFinal
  <2> QED
    BY <1>1, <2>1, DocumentedIsGood, TakenIsSet
<1>2. OptsInv => DocumentedOptsApply
  BY <1>1 DEF DocumentedOptsApply
<1> QED
  BY <1>2, OptsAlways, PTL
=============================================================================
