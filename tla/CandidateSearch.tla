--------------------------- MODULE CandidateSearch ---------------------------
(***************************************************************************)
(* Where a plan's candidates come from: the searches that agents run in    *)
(* the shell and whose answers are captured in the search store            *)
(* (services/tool_result_side_effects.py, SearchCandidateStore), the four  *)
(* providers a plan may ask (services/candidate_search.py), and the merge  *)
(* of what they find (workflow/itinerary_plan_graph.py).                   *)
(*                                                                         *)
(* A platform answers a call, <<kind, way>>, with a sequence of offers.    *)
(* An offer has its kind, run (the flight or train number and departure,   *)
(* or the hotel), way by its own endpoints, times, and places: the cabins, *)
(* seats or rooms, each with the id of its candidate, class (stars of a    *)
(* hotel), price, whether any is left and the wishes it meets.  The id is  *)
(* a digest: of run and class for an offer of Tuniu, of the whole offer,   *)
(* its price included, for the others.  A market says which providers are  *)
(* ready (configured, installed, with a key), which ones find no fault     *)
(* with the texts and dates of their commands, whether both cities have a  *)
(* code, and what every provider answers; a call outside its domain fails. *)
(***************************************************************************)
EXTENDS Integers, Sequences, FiniteSets, SequencesExt

Ways == {"there", "back"}

Unlisted == 1000000   \* a distance that is not given

(* Candidates by id; of two with one id the later stays.  Which of two in  *)
(* the same list that is, is not kept.                                     *)
Distinct(found) == {CHOOSE c \in found : c.id = d.id : d \in found}

MergeById(left, right) ==
    Distinct(right) \cup {c \in Distinct(left) : \A d \in right : d.id # c.id}

MergeCandidates(left, right) ==
    [transports |-> MergeById(left.transports, right.transports),
     hotels |-> MergeById(left.hotels, right.hotels)]

(* Enough to plan with: both directions are marked, or any two options. *)
Plannable(candidates) ==
    LET marks == {o.marked : o \in candidates.transports}
    IN  /\ candidates.transports # {} /\ candidates.hotels # {}
        /\ {"outbound", "return"} \subseteq marks \/ Cardinality(candidates.transports) >= 2
-----------------------------------------------------------------------------
(* The search store: the offers last captured under the field of a call.   *)

(* Of several offers of one run the last stays, with its places only. *)
LatestOfRun(offers) ==
    LET kept[n \in 0 .. Len(offers)] ==
            IF n = 0 THEN << >>
            ELSE IF \E j \in n + 1 .. Len(offers) : offers[j].run = offers[n].run THEN kept[n-1]
            ELSE Append(kept[n-1], offers[n])
    IN  kept[Len(offers)]

(* The first answer of a field is kept as it is, a later one is merged;    *)
(* without a request context nothing is captured.  answers: offers by call. *)
Capture(store, bound, answers) ==
    IF ~bound THEN store
    ELSE [call \in DOMAIN store \cup DOMAIN answers |->
            CASE call \notin DOMAIN answers -> store[call]
              [] call \notin DOMAIN store -> answers[call]
              [] OTHER -> LatestOfRun(store[call] \o answers[call])]

Travel(offer, place, marked, way) ==
    [id |-> place.id, marked |-> marked, route |-> way, departs |-> offer.departs,
     arrives |-> offer.arrives, price |-> place.price, kind |-> offer.kind,
     class |-> place.class, meets |-> place.meets]

Room(place, nights, stars, distance) ==
    [id |-> place.id, price |-> place.price, nights |-> nights, stars |-> stars,
     distance |-> distance, meets |-> place.meets]

(* The candidates of the store: trains without their sold out seats, and   *)
(* the endpoints of the command in place of the offer's own.               *)
BuildCandidates(store, nights) ==
    LET offers(call) == IF call \in DOMAIN store THEN ToSet(store[call]) ELSE {}
        seats(o) == {p \in o.places : o.kind = "train" => p.left}
        travel(way) == UNION {{Travel(o, p, "none", way) : p \in seats(o)} :
                              o \in offers(<<"flight", way>>) \cup offers(<<"train", way>>)}
    IN  [transports |-> UNION {travel(way) : way \in Ways},
         hotels |-> UNION {{Room(p, nights, p.class, 0) : p \in o.places} :
                           o \in offers(<<"hotel", "stay">>)}]
-----------------------------------------------------------------------------
(* The providers.  A request has a target and a direction.                 *)

(* The calls a request stands for; a target of no known name is transport. *)
Commands(request) ==
    LET target == IF request.target \in {"transport", "flight", "train", "hotel"}
                  THEN request.target ELSE "transport"
        kinds == IF target = "transport" THEN {"flight", "train"} ELSE {target}
        ways == {way \in Ways : request.direction = "both"
                                \/ request.direction = IF way = "there" THEN "outbound" ELSE "return"}
    IN  IF target = "hotel" THEN {<<"hotel", "stay">>} ELSE kinds \X ways

DefaultRequests ==
    {[target |-> "transport", direction |-> "outbound"],
     [target |-> "transport", direction |-> "return"], [target |-> "hotel", direction |-> "both"]}

(* What the other providers search for, in both directions. *)
WantedTypes(requests) ==
    IF requests = {} THEN {"transport", "hotel"}
    ELSE {IF r.target = "hotel" THEN "hotel" ELSE "transport" : r \in
            {q \in requests : q.target \in {"transport", "flight", "train", "hotel"}}}

Answer(market, provider, call) ==
    LET answers == market.answers[provider]
    IN  IF call \in DOMAIN answers THEN answers[call] ELSE << >>

(* The calls run in a thread of the provider, which has no request         *)
(* context: their answers are not captured, and the candidates are those   *)
(* captured before.                                                        *)
TuniuSearch(requests, store, market, nights) ==
    LET calls == UNION {Commands(r) : r \in IF requests = {} THEN DefaultRequests ELSE requests}
        after == Capture(store, FALSE, [call \in calls |-> Answer(market, "tuniu-cli", call)])
    IN  BuildCandidates(after, nights)

(* A normalised offer is one candidate, its cheapest place, left or not.   *)
CheapestPlace(offer) ==
    CHOOSE p \in offer.places : \A q \in offer.places : p.price <= q.price

Normalized(market, provider, call, marked) ==
    {Travel(o, CheapestPlace(o), marked, o.way) : o \in ToSet(Answer(market, provider, call))}

NormalizedHotels(market, provider, nights, stars(_)) ==
    {Room(CheapestPlace(o), nights, stars(CheapestPlace(o)), Unlisted) :
        o \in ToSet(Answer(market, provider, <<"hotel", "stay">>))}

Marked(way) == IF way = "there" THEN "outbound" ELSE "return"

FlyAiSearch(wanted, market, nights) ==
    LET class(p) == p.class
    IN  [transports |-> IF "transport" \notin wanted THEN {}
                        ELSE UNION {Normalized(market, "flyai", <<kind, way>>, Marked(way)) :
                                    kind \in {"flight", "train"}, way \in Ways},
         hotels |-> IF "hotel" \notin wanted THEN {}
                    ELSE NormalizedHotels(market, "flyai", nights, class)]

FlightManagerSearch(wanted, market) ==
    [transports |-> IF "transport" \notin wanted \/ ~market.coded THEN {}
                    ELSE UNION {Normalized(market, "flight-manager", <<"flight", way>>, Marked(way)) :
                                way \in Ways},
     hotels |-> {}]

(* The stars are symbols, in which no number is found: they count as 0. *)
RollingGoSearch(wanted, market, nights) ==
    LET none(p) == 0
    IN  [transports |-> {},
         hotels |-> IF "hotel" \notin wanted THEN {}
                    ELSE NormalizedHotels(market, "rolling-go-hotel", nights, none)]

(* All ready providers are asked, and one that fails offers nothing, such  *)
(* as one whose commands are refused: only flight-manager has no command.  *)
Answering(market) == {p \in market.ready : p = "flight-manager" \/ p \in market.accepts}

(* What the providers find is merged. *)
Search(requests, store, market, nights) ==
    LET wanted == WantedTypes(requests)
        result(provider) ==
            CASE provider = "tuniu-cli" -> TuniuSearch(requests, store, market, nights)
              [] provider = "flyai" -> FlyAiSearch(wanted, market, nights)
              [] provider = "flight-manager" -> FlightManagerSearch(wanted, market)
              [] provider = "rolling-go-hotel" -> RollingGoSearch(wanted, market, nights)
    IN  [transports |-> Distinct(UNION {result(p).transports : p \in Answering(market)}),
         hotels |-> Distinct(UNION {result(p).hotels : p \in Answering(market)})]
=============================================================================
