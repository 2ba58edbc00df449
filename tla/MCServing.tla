----------------------------- MODULE MCServing -----------------------------
(***************************************************************************)
(* Workloads: two clients whose views are counted; two clients after one   *)
(* burn image; one client that asks for every range; and one that asks in  *)
(* every other way for images that change under it.                        *)
(***************************************************************************)
EXTENDS Serving

CONSTANTS pub, own, once, brief, r1, r2

Plain(i) == [image |-> i, url |-> "image", head |-> FALSE, match |-> FALSE, range |-> NoRange,
             other |-> FALSE, cookie |-> FALSE, owner |-> TRUE]
Thumbnail(i) == [Plain(i) EXCEPT !.url = "thumbnail"]
Bytes(first, last) == [Plain(pub) EXCEPT !.range = [first |-> first, last |-> last]]

Counting ==
  [requests |-> {r1, r2}, views |-> 4, changing |-> {},
   asks |-> {Plain(own), Plain(brief)}]

Burning ==
  [requests |-> {r1, r2}, views |-> 0, changing |-> {once},
   asks |-> {Plain(once), [Plain(once) EXCEPT !.match = TRUE], [Plain(once) EXCEPT !.head = TRUE],
             [Plain(once) EXCEPT !.range = [first |-> Absent, last |-> Absent]]}]

Ranging ==
  [requests |-> {r1}, views |-> 1, changing |-> {},
   asks |-> {Bytes(n, m) : n \in 0..Size, m \in {Absent} \cup 0..(Size + 1)}
            \cup {Bytes(Absent, m) : m \in 0..(Size + 1)}]

Showing ==
  [requests |-> {r1}, views |-> 1, changing |-> {pub},
   asks |-> {Plain(pub), [Plain(pub) EXCEPT !.cookie = TRUE], [Plain(pub) EXCEPT !.match = TRUE],
             [Bytes(0, 0) EXCEPT !.other = TRUE], Plain(own), Plain(brief),
             Thumbnail(own), Thumbnail(brief), Thumbnail(pub),
             [Thumbnail(pub) EXCEPT !.cookie = TRUE], [Thumbnail(pub) EXCEPT !.head = TRUE]}]

MCWorkloads == {Counting, Burning, Ranging, Showing}
=============================================================================
