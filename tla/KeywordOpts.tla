--------------------------- MODULE KeywordOpts ---------------------------
(***************************************************************************)
(* The options of one call: apply_opts of each zenoh builder (builder.rs)  *)
(* folds a keyword list into the builder; a reply first searches the same  *)
(* list for :final? (helper/keyword.rs, handle_reply).  Elixir terms are   *)
(* strings, one for all the terms the decoders do not tell apart.          *)
(***************************************************************************)
EXTENDS Naturals, Sequences

CONSTANTS
  MaxOpts,  \* bound: the length of the list
  Wrong     \* terms offered for every key, beside the documented ones

ASSUME BoundsAssumption == MaxOpts \in Nat /\ Wrong \subseteq STRING
-----------------------------------------------------------------------------
(* The decoders: the terms each takes.  &str and String take UTF-8, Binary *)
(* takes any.                                                              *)
Bool == {"true", "false"}
Timestamp == {"2025-07-16T01:34:56Z/2"}
Text == {"text"} \cup Timestamp
Binary == {"bytes"} \cup Text
Millis == {"0", "5000"}
CongestionControl == {"drop", "block", "block_first"}
Priority == {"real_time", "interactive_high", "interactive_low", "data_high",
             "data", "data_low", "background"}
QueryTarget == {"best_matching", "all", "all_complete"}
QueryConsolidation == {"auto", "none", "monotonic", "latest"}
ReplyKeyExpr == {"any", "matching_query"}
Locality == {"session_local", "remote", "any"}

Must(terms) == [takes |-> terms, keeps |-> {}]
Option(terms) == [takes |-> terms, keeps |-> {"nil"}]

(* The arms of each builder's match.                                       *)
SessionPut ==
  [attachment |-> Option(Binary), congestion_control |-> Must(CongestionControl),
   encoding |-> Must(Text), express |-> Must(Bool), priority |-> Must(Priority),
   timestamp |-> Option(Timestamp)]
SessionDelete ==
  [attachment |-> Option(Binary), congestion_control |-> Must(CongestionControl),
   express |-> Must(Bool), priority |-> Must(Priority), timestamp |-> Option(Timestamp)]
PublisherPut ==
  [attachment |-> Option(Binary), encoding |-> Must(Text), timestamp |-> Option(Timestamp)]
PublisherDelete ==
  [attachment |-> Option(Binary), timestamp |-> Option(Timestamp)]
SessionGet ==
  [attachment |-> Option(Binary), accept_replies |-> Must(ReplyKeyExpr),
   allowed_destination |-> Must(Locality), congestion_control |-> Must(CongestionControl),
   consolidation |-> Must(QueryConsolidation), express |-> Must(Bool),
   encoding |-> Must(Text), payload |-> Option(Binary), priority |-> Must(Priority),
   target |-> Must(QueryTarget), query_timeout |-> Must(Millis)]
PublisherBuilder ==
  [allowed_destination |-> Must(Locality), congestion_control |-> Must(CongestionControl),
   encoding |-> Must(Text), express |-> Must(Bool), priority |-> Must(Priority)]
SubscriberBuilder ==
  [allowed_origin |-> Must(Locality)]
QueryableBuilder ==
  [allowed_origin |-> Must(Locality), complete |-> Must(Bool)]
QuerierBuilder ==
  [accept_replies |-> Must(ReplyKeyExpr), allowed_destination |-> Must(Locality),
   congestion_control |-> Must(CongestionControl), consolidation |-> Must(QueryConsolidation),
   express |-> Must(Bool), priority |-> Must(Priority), query_timeout |-> Must(Millis),
   target |-> Must(QueryTarget)]
QuerierGet ==
  [attachment |-> Option(Binary), encoding |-> Must(Text), parameters |-> Must(Text),
   payload |-> Option(Binary)]
ReplyPut ==
  [attachment |-> Option(Binary), encoding |-> Must(Text), express |-> Must(Bool),
   timestamp |-> Option(Timestamp)]
ReplyErr ==
  [encoding |-> Must(Text)]
ReplyDelete_Copied == PublisherDelete
ReplyDelete ==
  [attachment |-> Option(Binary), express |-> Must(Bool), timestamp |-> Option(Timestamp)]
LivelinessGet ==
  [query_timeout |-> Must(Millis)]
LivelinessSubscriber ==
  [history |-> Must(Bool)]

Builders ==
  [session_put |-> SessionPut, session_delete |-> SessionDelete, session_get |-> SessionGet,
   publisher_put |-> PublisherPut, publisher_delete |-> PublisherDelete,
   querier_get |-> QuerierGet, query_reply |-> ReplyPut, query_reply_error |-> ReplyErr,
   query_reply_delete |-> ReplyDelete, session_declare_publisher |-> PublisherBuilder,
   session_declare_subscriber |-> SubscriberBuilder,
   session_declare_queryable |-> QueryableBuilder,
   session_declare_querier |-> QuerierBuilder, liveliness_get |-> LivelinessGet,
   liveliness_declare_subscriber |-> LivelinessSubscriber]
Replies == {"query_reply", "query_reply_error", "query_reply_delete"}
(* What callers pass: the option types of session.ex, publisher.ex,        *)
(* querier.ex, query.ex and liveliness.ex.                                 *)
DocumentedKeys ==
  LET Qos == {"congestion_control", "express", "priority"}
      Querying == Qos \cup {"accept_replies", "allowed_destination", "consolidation",
                            "query_timeout", "target"}
  IN  [session_put |-> Qos \cup {"attachment", "encoding", "timestamp"},
       session_delete |-> Qos \cup {"attachment", "timestamp"},
       session_get |-> Querying \cup {"attachment", "encoding", "payload"},
       publisher_put |-> {"attachment", "encoding", "timestamp"},
       publisher_delete |-> {"attachment", "timestamp"},
       querier_get |-> {"attachment", "encoding", "parameters", "payload"},
       query_reply |-> {"attachment", "encoding", "express", "timestamp"},
       query_reply_error |-> {"encoding"},
       query_reply_delete |-> {"attachment", "express", "timestamp"},
       session_declare_publisher |-> Qos \cup {"allowed_destination", "encoding"},
       session_declare_subscriber |-> {"allowed_origin"},
       session_declare_queryable |-> {"allowed_origin", "complete"},
       session_declare_querier |-> Querying,
       liveliness_get |-> {"query_timeout"},
       liveliness_declare_subscriber |-> {"history"}]
DocumentedTerms ==
  LET Somewhere == {"session_local", "remote", "any"}
  IN  [accept_replies |-> {"matching_query", "any"}, allowed_destination |-> Somewhere,
       allowed_origin |-> Somewhere, attachment |-> Binary \cup {"nil"}, complete |-> Bool,
       congestion_control |-> {"drop", "block", "block_first"},
       consolidation |-> {"auto", "none", "monotonic", "latest"}, encoding |-> Text,
       express |-> Bool, history |-> Bool, parameters |-> Text, payload |-> Binary \cup {"nil"},
       priority |-> {"real_time", "interactive_high", "interactive_low", "data_high", "data",
                     "data_low", "background"},
       query_timeout |-> Millis, target |-> {"best_matching", "all", "all_complete"},
       timestamp |-> Timestamp]
-----------------------------------------------------------------------------
VARIABLES
  nif,      \* the call
  opts,     \* its keyword list
  at,       \* the element it comes to next
  phase,    \* "list" while the caller makes the list, "search", "fold", "ok", "error"
  is_final, \* what the search found
  builder   \* what was set: a term for each of the builder's keys, or Unset

vars == <<nif, opts, at, phase, is_final, builder>>

Unset == "unset"
NotAPair == [key |-> "", value |-> ""]

Arms == Builders[nif]
Offered ==
  {NotAPair}
  \cup (UNION {[key : {k}, value : DocumentedTerms[k] \cup Wrong] : k \in DocumentedKeys[nif]})
  \cup [key : {"final?"}, value : Bool \cup Wrong] \cup [key : {"other"}, value : Wrong]

TypeOK ==
  /\ nif \in DOMAIN Builders
  /\ opts \in Seq([key : STRING, value : STRING])
  /\ at \in 1 .. Len(opts) + 1
  /\ phase \in {"list", "search", "fold", "ok", "error"}
  /\ is_final \in Bool \cup {Unset}
  /\ builder \in [DOMAIN Arms -> STRING]

Init ==
  /\ nif \in DOMAIN Builders
  /\ opts = <<>> /\ at = 1 /\ phase = "list" /\ is_final = Unset
  /\ builder = [k \in DOMAIN Arms |-> Unset]

\* The caller.
Offer(o) ==
  /\ phase = "list" /\ Len(opts) < MaxOpts
  /\ opts' = Append(opts, o)
  /\ UNCHANGED <<nif, at, phase, is_final, builder>>

Call ==
  /\ phase = "list"
  /\ phase' = IF nif \in Replies THEN "search" ELSE "fold"
  /\ UNCHANGED <<nif, opts, at, is_final, builder>>

(* get_value(opts, :final?) and its decoding in handle_reply.              *)
Here == opts[at]

SearchOn ==
  /\ phase = "search" /\ at <= Len(opts) /\ Here # NotAPair /\ Here.key # "final?"
  /\ at' = at + 1
  /\ UNCHANGED <<nif, opts, phase, is_final, builder>>

SearchFails ==
  /\ phase = "search" /\ at <= Len(opts)
  /\ Here = NotAPair \/ (Here.key = "final?" /\ Here.value \notin Bool)
  /\ phase' = "error"
  /\ UNCHANGED <<nif, opts, at, is_final, builder>>

Found ==
  /\ phase = "search" /\ at <= Len(opts) /\ Here.key = "final?" /\ Here.value \in Bool
  /\ is_final' = Here.value /\ phase' = "fold" /\ at' = 1
  /\ UNCHANGED <<nif, opts, builder>>

NotFound ==
  /\ phase = "search" /\ at > Len(opts)
  /\ is_final' = "true" /\ phase' = "fold" /\ at' = 1
  /\ UNCHANGED <<nif, opts, builder>>

(* apply_opts: try_fold.                                                   *)
Known(o) == o.key \in DOMAIN Arms
Skips(o) == o # NotAPair /\ (Known(o) => o.value \in Arms[o.key].keeps)
Sets(o) == Known(o) /\ o.value \in Arms[o.key].takes

Skip ==
  /\ phase = "fold" /\ at <= Len(opts) /\ Skips(Here)
  /\ at' = at + 1
  /\ UNCHANGED <<nif, opts, phase, is_final, builder>>

Set_First ==
  /\ phase = "fold" /\ at <= Len(opts) /\ Sets(Here)
  /\ builder' = [builder EXCEPT ![Here.key] = IF @ = Unset THEN Here.value ELSE @]
  /\ at' = at + 1
  /\ UNCHANGED <<nif, opts, phase, is_final>>
Set ==
  /\ phase = "fold" /\ at <= Len(opts) /\ Sets(Here)
  /\ builder' = [builder EXCEPT ![Here.key] = Here.value]
  /\ at' = at + 1
  /\ UNCHANGED <<nif, opts, phase, is_final>>

Fail_Stops ==
  /\ phase = "fold" /\ at <= Len(opts) /\ ~Skips(Here) /\ ~Sets(Here)
  /\ phase' = "ok"
  /\ UNCHANGED <<nif, opts, at, is_final, builder>>
Fail ==
  /\ phase = "fold" /\ at <= Len(opts) /\ ~Skips(Here) /\ ~Sets(Here)
  /\ phase' = "error"
  /\ UNCHANGED <<nif, opts, at, is_final, builder>>

Done ==
  /\ phase = "fold" /\ at > Len(opts)
  /\ phase' = "ok"
  /\ UNCHANGED <<nif, opts, at, is_final, builder>>

Next ==
  \/ \E o \in Offered : Offer(o)
  \/ Call \/ SearchOn \/ SearchFails \/ Found \/ NotFound
  \/ Skip \/ Set \/ Fail \/ Done

Spec == Init /\ [][Next]_vars
-----------------------------------------------------------------------------
\* What a builder has is the last term but nil that was given for the key.
LastOf(k, v, n) ==
  \E i \in 1 .. n :
    /\ opts[i] = [key |-> k, value |-> v] /\ v \notin Arms[k].keeps
    /\ \A j \in i + 1 .. n : opts[j].key = k => opts[j].value \in Arms[k].keeps
NoneOf(k, n) == \A i \in 1 .. n : opts[i].key = k => opts[i].value \in Arms[k].keeps
LastWins ==
  phase \in {"fold", "ok"} =>
    \A k \in DOMAIN Arms : LastOf(k, builder[k], at - 1) \/ (builder[k] = Unset /\ NoneOf(k, at - 1))

\* A reply that goes on is as final as its first :final? says, or just final.
FinalIsFirst ==
  nif \in Replies /\ phase \in {"fold", "ok"} =>
    \/ \E i \in 1 .. Len(opts) :
         /\ opts[i] = [key |-> "final?", value |-> is_final]
         /\ \A j \in 1 .. i - 1 : opts[j].key # "final?"
    \/ is_final = "true" /\ \A i \in 1 .. Len(opts) : opts[i].key # "final?"

\* An option given twice takes its last value, and nil takes nothing back; but
\* :final? takes its first, as Keyword.get would.
RepeatedOpts == LastWins /\ FinalIsFirst

\* A call fails exactly when some element of its list is not a pair, has a
\* key of the call and a term its decoder does not take, or is a reply's
\* first :final? and no boolean - wherever in the list it is, and whatever
\* another element of that key says.
Bad(o) == o = NotAPair \/ (Known(o) /\ o.value \notin Arms[o.key].takes \cup Arms[o.key].keeps)
BadFinal ==
  nif \in Replies /\ \E i \in 1 .. Len(opts) :
    /\ opts[i].key = "final?" /\ opts[i].value \notin Bool
    /\ \A j \in 1 .. i - 1 : opts[j].key # "final?"
FailsIfBad ==
  phase \in {"ok", "error"} =>
    (phase = "error" <=> BadFinal \/ \E i \in 1 .. Len(opts) : Bad(opts[i]))

IsDocumented(o) ==
  \/ o.key \in DocumentedKeys[nif] /\ o.value \in DocumentedTerms[o.key]
  \/ nif \in Replies /\ o.key = "timestamp" /\ "timestamp" \in DocumentedKeys[nif] /\ o.value = "nil"
  \/ nif \in Replies /\ o.key = "final?" /\ o.value \in Bool
\* A call whose options are all documented does not fail for them, and takes
\* each: an arm that is missing, or a variant of an enum,
\* would lose it without a word.
DocumentedOptsApply ==
  (\A i \in 1 .. Len(opts) : IsDocumented(opts[i])) =>
    /\ phase # "error"
    /\ phase = "ok" => \A i \in 1 .. Len(opts) :
         \/ opts[i].value = "nil" \/ opts[i].key = "final?"
         \/ opts[i].key \in DOMAIN builder /\ builder[opts[i].key] # Unset
==========================================================================
