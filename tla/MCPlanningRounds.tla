-------------------------- MODULE MCPlanningRounds --------------------------
(* A small catalogue of candidates and requests for PlanningRounds. *)
EXTENDS PlanningRounds, TLC

Leg(id, marked, route, departs, arrives, price, kind, class, meets) ==
    [id |-> id, marked |-> marked, route |-> route, departs |-> departs, arrives |-> arrives,
     price |-> price, kind |-> kind, class |-> class, meets |-> meets]

Out1 == Leg(1, "none", "there", 8, 11, 500, "flight", 1, {"direct"})
Out2 == Leg(2, "outbound", "other", 22, 25, 300, "flight", 1, {})     \* by night, cheap
Out3 == Leg(3, "none", "there", 7, 12, 320, "train", 2, {"kind"})
Late == Leg(4, "none", "other", 20, 46, 250, "train", 0, {})          \* arrives too late
Back1 == Leg(5, "none", "back", 42, 45, 450, "flight", 1, {"direct"})
Back2 == Leg(6, "return", "other", 35, 40, 300, "train", 0, {})
Back3 == Leg(7, "none", "other", 46, Unknown, 280, "flight", 2, {})   \* no arrival time

Hotel(id, price, stars, distance, meets) ==
    [id |-> id, price |-> price, nights |-> 1, stars |-> stars, distance |-> distance,
     meets |-> meets]
Hotel1 == Hotel(11, 400, 4, 2, {"near"})
Hotel2 == Hotel(12, 250, 3, 20, {})
Hotel3 == Hotel(13, 0, 3, 5, {})     \* no price could be read

Policy(limit) == [known |-> TRUE, hotel |-> limit, stars |-> 4, threshold |-> 1300, class |-> 1,
                  advance |-> 2]

Trip(transports, hotels, returnDay, wishes, limit, storm, given) ==
    [transports |-> transports, hotels |-> hotels, excludedTransports |-> {},
     excludedHotels |-> {}, returnDay |-> returnDay, wishes |-> wishes, supplied |-> (5 :> 90),
     given |-> given, overrides |-> << >>, policy |-> Policy(limit), badWeather |-> storm,
     today |-> -3]

(* What the chat brought: nothing, two ways out only, or enough. *)
SmallTrips ==
    {Trip({}, {}, day, {"direct", "near"}, 300, FALSE, << >>) : day \in {0, 1}}
    \cup {Trip({Out1, Late}, {Hotel1}, 1, {}, 500, TRUE, (1 :> 80) @@ (11 :> 20)),
          Trip({Out1, Out2, Out3, Back1, Back2, Back3}, {Hotel1, Hotel2, Hotel3}, 0,
                  {"direct", "near"}, 300, FALSE, << >>)}

Place(id, class, price, left, meets) ==
    [id |-> id, class |-> class, price |-> price, left |-> left, meets |-> meets]
Offer(kind, run, way, departs, arrives, places) ==
    [kind |-> kind, run |-> run, way |-> way, departs |-> departs, arrives |-> arrives,
     places |-> places]

(* One flight in two cabins, and later in the second one at another price. *)
Cabin(id, class, price) ==
    Offer("flight", 1, "other", 8, 11, {Place(id, class, price, TRUE, {"direct"})})
Return(price) == Offer("flight", 5, "other", 42, 45, {Place(21, 1, price, TRUE, {})})
Seats == Offer("train", 3, "there", 7, 12, {Place(22, 0, 250, FALSE, {}), Place(23, 2, 320, TRUE, {})})
Rooms == Offer("hotel", 7, "other", 0, 0, {Place(11, 4, 400, TRUE, {"near"})})

Silent == [p \in {"tuniu-cli", "flyai", "flight-manager", "rolling-go-hotel"} |-> << >>]

Morning ==
    [ready |-> {"tuniu-cli", "flyai", "rolling-go-hotel"},
     accepts |-> {"tuniu-cli", "flyai", "rolling-go-hotel"}, coded |-> TRUE,
     answers |-> [Silent EXCEPT
        !["tuniu-cli"] = (<<"flight", "there">> :> <<Cabin(1, 1, 500), Cabin(20, 0, 420)>>)
                         @@ (<<"hotel", "stay">> :> <<Rooms>>)
                     @@ (<<"train", "there">> :> <<Seats>>),
        !["flyai"] = (<<"flight", "back">> :> <<Return(450)>>)
                     @@ (<<"hotel", "stay">> :> <<Rooms>>)
                     @@ (<<"train", "there">> :> <<[Seats EXCEPT !.run = 8, !.way = "other"]>>),
        !["rolling-go-hotel"] = (<<"hotel", "stay">> :> <<[Rooms EXCEPT !.places =
                                    {Place(12, 3, 250, TRUE, {})}]>>)]]

Evening ==
    [ready |-> {"tuniu-cli", "flight-manager"}, accepts |-> {}, coded |-> TRUE,
     answers |-> [Silent EXCEPT
        !["tuniu-cli"] = (<<"flight", "there">> :> <<Cabin(1, 1, 380)>>),
        !["flight-manager"] = (<<"flight", "there">> :> <<[Cabin(24, 1, 310) EXCEPT !.run = 9]>>)
                              @@ (<<"flight", "back">> :> <<[Return(430) EXCEPT !.places =
                                     {Place(25, 1, 430, TRUE, {})}]>>)]]

SmallMarkets == {Morning, Evening}

Item(action, target, about, leg, priority, fixable, hard) ==
    [action |-> action, target |-> target, says |-> "other", about |-> about, leg |-> leg,
     affected |-> {}, ids |-> {}, scores |-> << >>, priority |-> priority, fixable |-> fixable, hard |-> hard]

SmallItems ==
    {<< >>,
     <<Item("exclude", "hotel", "other", "both", 1, TRUE, FALSE)>>,
     <<Item("", "", "train", "outbound", 2, TRUE, FALSE),
       Item("rescore", "flight", "other", "return", 1, TRUE, TRUE)>>,
     <<Item("supplement_search", "transport", "other", "both", 3, TRUE, FALSE)>>,
     <<Item("", "", "other", "both", 5, FALSE, FALSE)>>}
=============================================================================
