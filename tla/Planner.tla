------------------------------ MODULE Planner ------------------------------
(***************************************************************************)
(* plan_itinerary (tools/planner.py) and the preference scores it asks for *)
(* (services/preference_scoring.py), as operators on sets of candidates.   *)
(*                                                                         *)
(* A transport option has an id, its direction as the provider marks it    *)
(* ("none" if it does not), the way its endpoints go, departure and        *)
(* arrival in hours since midnight of the departure date (Unknown if the   *)
(* provider gave none), price, kind, class (0 if unnamed) and the wishes   *)
(* it meets; a hotel has an id, nightly price, nights, stars, distance and *)
(* the wishes it meets.  Scores are in hundredths of a point, rounded down *)
(* where the code rounds to the nearest hundredth.  The order of the input *)
(* lists, which breaks ties between equal candidates, is not kept.         *)
(***************************************************************************)
EXTENDS Integers, FiniteSets, FiniteSetsExt, Sequences

CONSTANTS
    PruningTrigger,   \* planner_pruning_trigger
    KeepPercent,      \* planner_target_keep_ratio
    MaxCombinations,  \* planner_max_combinations
    PenaltyPercent    \* planner_policy_penalty_weight

ASSUME PlannerAssumption ==
    /\ PruningTrigger \in Nat \ {0} /\ MaxCombinations \in Nat \ {0}
    /\ KeepPercent \in 1..100 /\ PenaltyPercent \in Nat

Unknown == -1
Far == 1000000

Known(t) == t # Unknown
-----------------------------------------------------------------------------
(* Preference scores: every wish the user has moves the score of a         *)
(* candidate up when it meets it and down when it does not; the model's    *)
(* answer replaces the rule, in bounds, for the candidates it names.       *)
Gain == [direct |-> 25, refund |-> 15, slot |-> 20, token |-> 20, kind |-> 15,
         brand |-> 30, room |-> 20, breakfast |-> 15, near |-> 20, star |-> 15]
Loss == [direct |-> 25, refund |-> 10, slot |-> 10, token |-> 0, kind |-> 0,
         brand |-> 0, room |-> 0, breakfast |-> 10, near |-> 10, star |-> 5]

Entry(score) == Max({0, Min({100, score})})

Points(c, wishes, w) ==
    CASE w \notin wishes -> 0
      [] w \in wishes /\ w \in c.meets -> Gain[w]
      [] OTHER -> -Loss[w]

ScoreTransport(o, wishes) ==
    Entry(50 + Points(o, wishes, "direct") + Points(o, wishes, "refund")
          + Points(o, wishes, "slot") + Points(o, wishes, "token") + Points(o, wishes, "kind"))

ScoreHotel(h, wishes) ==
    Entry(50 + Points(h, wishes, "brand") + Points(h, wishes, "room")
          + Points(h, wishes, "breakfast") + Points(h, wishes, "near") + Points(h, wishes, "star"))

(* score_candidate_preferences: supplied is what the model answered, a     *)
(* function on some ids (none of them when it is not there or fails).      *)
ScoreCandidates(transports, hotels, wishes, supplied) ==
    LET options == transports \cup hotels
        rule(c) == IF c \in hotels THEN ScoreHotel(c, wishes) ELSE ScoreTransport(c, wishes)
    IN  [id \in {c.id : c \in options} |->
            LET c == CHOOSE o \in options : o.id = id
            IN  IF wishes # {} /\ id \in DOMAIN supplied THEN Entry(supplied[id])
                ELSE rule(c)]

(* The overrides of the repair rounds replace the scores of their ids. *)
Overridden(scores, overrides) ==
    [id \in DOMAIN scores |->
        IF id \in DOMAIN overrides THEN Entry(overrides[id]) ELSE scores[id]]
-----------------------------------------------------------------------------
Direction(o, returnDay) ==
    IF o.marked # "none" THEN o.marked
    ELSE IF o.route = "there" THEN "outbound"
    ELSE IF o.route = "back" THEN "return"
    ELSE IF Known(o.departs) /\ o.departs \div 24 >= returnDay THEN "return"
    ELSE "outbound"

Duration(o) ==
    IF Known(o.departs) /\ Known(o.arrives) THEN Max({0, o.arrives - o.departs})
    ELSE Unknown

RedEye(o) ==
    \/ Known(o.departs) /\ o.departs % 24 >= 22
    \/ Known(o.arrives) /\ o.arrives % 24 < 6

ClassFits(o, policy) == o.class = 0 \/ o.class <= policy.class
StarsFit(h, policy) == h.stars <= policy.stars
PriceFits(h, policy) == h.price <= policy.hotel
Flag(b) == IF b THEN 1 ELSE 0
-----------------------------------------------------------------------------
(* Pruning.  A ranking is a function from options to numbers, and whether  *)
(* low numbers come first; ids break ties, in the same direction.          *)
Ahead(r, a, b) ==
    IF r.of[a] # r.of[b] THEN (r.of[a] < r.of[b]) = r.low ELSE (a.id < b.id) = r.low

Leader(options, r) == {a \in options : \A b \in options \ {a} : Ahead(r, a, b)}

(* Mutant: prices are ranked like scores, the high ones first. *)
RankedDearFirst(options, scores, policy) ==
    << [low |-> FALSE, of |-> [o \in options |-> o.price]],
       [low |-> FALSE, of |-> [o \in options |-> scores[o.id]]] >>

TransportRankings(options, scores, policy) ==
    LET duration(o) == IF Known(Duration(o)) /\ Duration(o) # 0 THEN Duration(o) ELSE Far
    IN  << [low |-> TRUE,  of |-> [o \in options |-> o.price]],
           [low |-> TRUE,  of |-> [o \in options |->
                                    IF Known(Duration(o)) THEN Duration(o) ELSE Far]],
           [low |-> FALSE, of |-> [o \in options |-> scores[o.id]]],
           [low |-> FALSE, of |-> [o \in options |-> Flag(ClassFits(o, policy))]],
           [low |-> TRUE,  of |-> [o \in options |-> Flag(RedEye(o)) * 2 * Far + duration(o)]] >>

(* A hotel whose nightly price could not be read has the price 0, which    *)
(* the totals take as it stands and the ranking as dearer than any other.  *)
Nightly(h, options) ==
    IF h.price = 0 THEN Max({o.price : o \in options}) + 1 ELSE h.price

HotelRankings(options, scores, policy) ==
    << [low |-> TRUE,  of |-> [h \in options |-> Nightly(h, options)]],
       [low |-> FALSE, of |-> [h \in options |-> scores[h.id]]],
       [low |-> FALSE, of |-> [h \in options |-> Flag(PriceFits(h, policy) /\ StarsFit(h, policy))]],
       [low |-> TRUE,  of |-> [h \in options |-> h.distance]] >>

(* The rankings take turns, each with its best option not yet taken. *)
SelectDiverse(options, limit, rankings) ==
    LET taken[k \in 0..limit] ==
            IF k = 0 THEN {}
            ELSE taken[k-1] \cup
                 Leader(options \ taken[k-1], rankings[((k-1) % Len(rankings)) + 1])
    IN  IF limit >= Cardinality(options) THEN options ELSE taken[limit]

Product(caps) == caps[1] * caps[2] * caps[3]

(* The largest dimension (the first of several) gives way, one by one. *)
DimensionCaps(lengths, target) ==
    LET largest(c) == CHOOSE i \in 1..3 :
                        \A j \in 1..3 : c[i] > c[j] \/ (c[i] = c[j] /\ i <= j)
        shrunk(c) == IF Product(c) <= target \/ \A i \in 1..3 : c[i] <= 1 THEN c
                     ELSE [c EXCEPT ![largest(c)] = @ - 1]
        steps == lengths[1] + lengths[2] + lengths[3]   \* more than enough
        caps[n \in 0..steps] == IF n = 0 THEN lengths ELSE shrunk(caps[n-1])
    IN  caps[steps]

Target(lengths) ==
    Max({1, Min({MaxCombinations, (Product(lengths) * KeepPercent) \div 100})})

Caps(lengths) ==
    IF Product(lengths) <= PruningTrigger THEN lengths
    ELSE DimensionCaps(lengths, Target(lengths))

(* A product of outbound legs, hotels and return legs. *)
Prune(space, scores, policy) ==
    LET caps == Caps(<<Cardinality(space.out), Cardinality(space.hotels),
                       Cardinality(space.back)>>)
    IN  [out |-> SelectDiverse(space.out, caps[1],
                               TransportRankings(space.out, scores, policy)),
         hotels |-> SelectDiverse(space.hotels, caps[2],
                                  HotelRankings(space.hotels, scores, policy)),
         back |-> SelectDiverse(space.back, caps[3],
                                TransportRankings(space.back, scores, policy))]
-----------------------------------------------------------------------------
(* One combination: its figures and what speaks against it. *)
InOrder(out, back) ==
    Known(out.arrives) /\ Known(back.departs) => back.departs > out.arrives

(* A stay of no known length counts as one night. *)
Stayed(h) == IF h.nights = 0 THEN 1 ELSE h.nights

TotalPrice(c) == c.out.price + c.back.price + c.hotel.price * Stayed(c.hotel)

TotalTransit(c) ==
    LET minutes(o) == IF Known(Duration(o)) THEN Duration(o) ELSE 0
    IN  minutes(c.out) + minutes(c.back)

PolicyScore(c, policy) ==
    LET violations == Flag(~PriceFits(c.hotel, policy)) + Flag(TotalPrice(c) > policy.threshold)
        warnings == Flag(~StarsFit(c.hotel, policy)) + Flag(~ClassFits(c.out, policy))
                    + Flag(~ClassFits(c.back, policy))
    IN  Max({0, 100 - 40 * violations - 15 * warnings})

(* The flags of _experience, with the points each one takes off. *)
Experience(c, badWeather) ==
    LET redEye(o) == o.kind = "flight" /\ RedEye(o)
        long(o) == IF Duration(o) >= 6 THEN 25 ELSE IF Duration(o) >= 4 THEN 15 ELSE 0
        late == Known(c.out.arrives) /\ c.out.arrives % 24 >= 21
        last == c.back.kind = "flight" /\ Known(c.back.departs) /\ c.back.departs % 24 >= 21
        storm == badWeather /\ "flight" \in {c.out.kind, c.back.kind}
        off == 30 * (Flag(redEye(c.out)) + Flag(redEye(c.back))) + 15 * Flag(late)
               + 10 * Flag(last) + long(c.out) + long(c.back) + 25 * Flag(storm)
    IN  [score |-> Max({0, 100 - off}), flagged |-> off > 0]

MinMax(value, all, higher) ==
    LET low == Min(all)
        high == Max(all)
        up == (10000 * (value - low)) \div (high - low)
    IN  IF high = low THEN 10000 ELSE IF higher THEN up ELSE 10000 - up

Combinations(space) ==
    {c \in [out : space.out, hotel : space.hotels, back : space.back] : InOrder(c.out, c.back)}

(* The combinations with their scores. *)
Scored(combos, scores, policy, badWeather) ==
    LET prices == {TotalPrice(c) : c \in combos}
        times == {TotalTransit(c) : c \in combos}
        feelings == {Experience(c, badWeather).score : c \in combos}
        preference(c) == ((scores[c.out.id] + scores[c.hotel.id] + scores[c.back.id]) * 100) \div 3
        overall(c) ==
            (20 * MinMax(TotalTransit(c), times, FALSE) + 10 * MinMax(TotalPrice(c), prices, FALSE)
             + 40 * preference(c)
             + 30 * MinMax(Experience(c, badWeather).score, feelings, TRUE)) \div 100
            - (100 - PolicyScore(c, policy)) * PenaltyPercent
    IN  {[combo |-> c, price |-> TotalPrice(c), time |-> TotalTransit(c),
          preference |-> preference(c), overall |-> Max({0, overall(c)}),
          flagged |-> Experience(c, badWeather).flagged] : c \in combos}
-----------------------------------------------------------------------------
(* The representatives: one combination per tag, merged when they agree.   *)
Tags == <<"overall", "time", "price", "preference">>
TagNames == {Tags[i] : i \in 1..4}

(* key and tie are columns of the rows. *)
Lowest(rows, key, tie) ==
    CHOOSE r \in rows : \A s \in rows : r[key] < s[key] \/ (r[key] = s[key] /\ r[tie] <= s[tie])

Highest(rows, key, tie) ==
    CHOOSE r \in rows : \A s \in rows : r[key] > s[key] \/ (r[key] = s[key] /\ r[tie] >= s[tie])

(* A flagged winner gives way to an unflagged one within 15 percent. *)
ExperienceAware(rows, key, tie) ==
    LET best == Lowest(rows, key, tie)
        clean == {r \in rows : ~r.flagged /\ 100 * r[key] <= 115 * best[key]}
    IN  IF best.flagged /\ clean # {} THEN Lowest(clean, key, tie) ELSE best

Picks(rows) ==
    [overall |-> Highest(rows, "overall", "preference"),
     time |-> ExperienceAware(rows, "time", "price"),
     price |-> ExperienceAware(rows, "price", "time"),
     preference |-> Highest(rows, "preference", "overall")]

Proposals(rows) ==
    LET picks == Picks(rows)
    IN  {[row |-> picks[t], tags |-> {u \in TagNames : picks[u] = picks[t]}] : t \in TagNames}
-----------------------------------------------------------------------------
Failed(why) == [ok |-> FALSE, error |-> why, proposals |-> {}]

(* Mutant: hotels are not excluded. *)
SpaceOfAllHotels(in) ==
    LET transports == {o \in in.transports : o.id \notin in.excludedTransports}
    IN  [out |-> {o \in transports : Direction(o, in.returnDay) = "outbound"},
         hotels |-> in.hotels,
         back |-> {o \in transports : Direction(o, in.returnDay) = "return"}]

(* What is left of the candidates after the exclusions, by direction. *)
SearchSpace(in) ==
    LET transports == {o \in in.transports : o.id \notin in.excludedTransports}
    IN  [out |-> {o \in transports : Direction(o, in.returnDay) = "outbound"},
         hotels |-> {h \in in.hotels : h.id \notin in.excludedHotels},
         back |-> {o \in transports : Direction(o, in.returnDay) = "return"}]

(* Scores the caller gives stand as they are, 0 for a candidate left out. *)
Scores(in) ==
    LET space == SearchSpace(in)
        transports == space.out \cup space.back
        given == [id \in {c.id : c \in transports \cup space.hotels} |->
                    IF id \in DOMAIN in.given THEN in.given[id] ELSE 0]
    IN  Overridden(IF in.given = << >>
                   THEN ScoreCandidates(transports, space.hotels, in.wishes, in.supplied)
                   ELSE given,
                   in.overrides)

PlanItinerary(in) ==
    LET space == SearchSpace(in)
        scores == Scores(in)
        combos == Combinations(Prune(space, scores, in.policy))
    IN  IF space.out \cup space.back = {} \/ space.hotels = {} THEN Failed("no candidates")
        ELSE IF space.out = {} \/ space.back = {} THEN Failed("one way")
        ELSE IF combos = {} THEN Failed("times")
        ELSE [ok |-> TRUE, error |-> "none",
              proposals |-> Proposals(Scored(combos, scores, in.policy, in.badWeather))]
=============================================================================
