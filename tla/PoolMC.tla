------------------------------- MODULE PoolMC -------------------------------
(* Handlers of RentGo's routes for the runs of ConnectionPool.             *)
EXTENDS ConnectionPool

CONSTANTS w1, w2, post1, post2, role1, get1, car1, adminKey

(* POST /bookings: protect, then a transaction of the lock on the car,     *)
(* getCar, findOverlapping and create.                                     *)
PostBooking == <<"query", "connect", "lock", "query", "client", "query", "release">>
(* PATCH /admin/users/:id/role: protect, then a transaction of the lock    *)
(* on key 1, two findById and update.                                      *)
PatchRole == <<"query", "connect", "lock", "query", "query", "query", "release">>
(* GET /bookings/my: protect and one query.                                *)
GetBookings == <<"query", "query">>

TwoWorkers == {w1, w2}
OneWorker == {w1}
Mixed == {post1, post2, role1, get1}
TwoPosts == {post1, post2}
TwoKeys == {car1, adminKey}

Scripts == [h \in Handlers |-> CASE h = get1 -> GetBookings
                                 [] h = role1 -> PatchRole
                                 [] OTHER -> PostBooking]
CarOrAdminKey == [h \in Handlers |-> IF h = role1 THEN adminKey ELSE car1]
SecondPostApart == [h \in Handlers |-> IF h = post2 THEN w2 ELSE w1]
AllOnOne == [h \in Handlers |-> w1]
=============================================================================
