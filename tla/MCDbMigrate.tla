---------------------------- MODULE MCDbMigrate ----------------------------
(* A small instance of DbMigrate: who has which files. *)
EXTENDS DbMigrate, TLC

CONSTANTS p1, p2, p3, p4, a, b, blank

File(version, body) == [version |-> version, body |-> body]

AllFiles == {File(v, body) : v \in 1..3, body \in {a, b}} \cup {File(2, blank)}

(* A release with a gap, one whose file 3 fails, one whose file 2 is       *)
(* another, and the old one.                                               *)
GapFailingOtherOld ==
  p1 :> {File(1, a), File(3, a)}
    @@ p2 :> {File(1, a), File(2, a), File(3, b)}
    @@ p3 :> {File(1, a), File(2, b)}
    @@ p4 :> {File(1, a), File(2, a)}

LastFile == {File(3, b)}
=============================================================================
