----------------------------- MODULE AddressBook -----------------------------
(***************************************************************************)
(* AddressesService: the saved addresses of one customer and which of them *)
(* is the default.  No handler opens a transaction: the default is moved   *)
(* by clearing the others in one statement and writing one row in another. *)
(***************************************************************************)
EXTENDS Integers, FiniteSets

CONSTANTS
    Address,
    Writer       \* requests of the customer the server can have in flight

ASSUME AddressBookAssumption == IsFiniteSet(Address)

VARIABLES
    book,        \* the Address rows: unused, plain, default or deleted
    writer,      \* per request: the await it waits for and what it read
    mishap       \* history: what may have lost the default since it was right

bookVars == <<book, writer, mishap>>

\* dto.isDefault is optional.
Asked == {"unset", "yes", "no"}
NoAddress == "no address"

AddressTypeOK ==
    /\ book \in [Address -> {"unused", "plain", "default", "deleted"}]
    /\ writer \in [Writer ->
         [pc : {"idle", "clear", "insert", "write", "delete", "list", "promote"},
          op : {"create", "update", "remove"},
          address : Address \cup {NoAddress}, asked : Asked]]
    /\ mishap \subseteq {"overlap", "failure", "declined"}

AtEase == [pc |-> "idle", op |-> "create", address |-> NoAddress,
           asked |-> "unset"]

BookInit ==
    /\ book = [a \in Address |-> "unused"]
    /\ writer = [w \in Writer |-> AtEase]
    /\ mishap = {}

Saved == {a \in Address : book[a] \in {"plain", "default"}}
Defaults == {a \in Address : book[a] = "default"}
Quiet == \A w \in Writer : writer[w] = AtEase
InOrder == Cardinality(Defaults) = 1 \/ Saved = {}

-----------------------------------------------------------------------------
Leave(w) == writer' = [writer EXCEPT ![w] = AtEase]
Onward(w, pc) == writer' = [writer EXCEPT ![w].pc = pc]

\* A request of the customer begins.
Arrive(w, op, pc, a, asked) ==
    /\ writer[w] = AtEase
    /\ writer' = [writer EXCEPT ![w] =
                    [pc |-> pc, op |-> op, address |-> a, asked |-> asked]]
    /\ mishap' = (IF Quiet /\ InOrder THEN {} ELSE mishap)
                   \cup (IF Quiet THEN {} ELSE {"overlap"})
                   \cup (IF asked = "no" THEN {"declined"} ELSE {})
    /\ UNCHANGED book

\* create counts the saved addresses: the first is the default unless the
\* client said otherwise.
CreateAddress(w, a, asked) ==
    /\ book[a] = "unused"
    /\ \A v \in Writer : writer[v].address # a
    /\ LET default == asked = "yes" \/ (asked = "unset" /\ Saved = {})
       IN  IF default THEN Arrive(w, "create", "clear", a, "yes")
                      ELSE Arrive(w, "create", "insert", a, asked)

\* update and remove first read the address of the caller.
UpdateAddress(w, a, asked) ==
    /\ a \in Saved
    /\ Arrive(w, "update", IF asked = "yes" THEN "clear" ELSE "write", a, asked)

RemoveAddress(w, a) ==
    /\ a \in Saved
    /\ Arrive(w, "remove", "delete", a, IF a \in Defaults THEN "yes" ELSE "unset")

Cleared_None(a) == book

\* clearDefaultForUser: every default but a's becomes plain.
Cleared(a) == [b \in Address |-> IF b \in Defaults \ {a} THEN "plain" ELSE book[b]]

ClearDefault(w) ==
    /\ writer[w].pc = "clear"
    /\ book' = Cleared(writer[w].address)
    /\ Onward(w, IF writer[w].op = "create" THEN "insert" ELSE "write")
    /\ UNCHANGED mishap

InsertAddress(w) ==
    /\ writer[w].pc = "insert"
    /\ book' = [book EXCEPT ![writer[w].address] =
                  IF writer[w].asked = "yes" THEN "default" ELSE "plain"]
    /\ Leave(w)
    /\ UNCHANGED mishap

\* An UPDATE or DELETE by id throws when the row is gone.
WriteAddress(w) ==
    /\ writer[w].pc \in {"write", "promote"}
    /\ LET a == writer[w].address
           written == [unset |-> book[a], yes |-> "default", no |-> "plain"]
       IN  book' = IF a \in Saved THEN [book EXCEPT ![a] = written[writer[w].asked]]
                                  ELSE book
    /\ Leave(w)
    /\ UNCHANGED mishap

\* The flag that was read decides whether another address is promoted.
DeleteAddress(w) ==
    /\ writer[w].pc = "delete"
    /\ LET a == writer[w].address
       IN  /\ book' = [book EXCEPT ![a] = "deleted"]
           /\ IF a \in Saved /\ writer[w].asked = "yes" THEN Onward(w, "list")
                                                        ELSE Leave(w)
    /\ UNCHANGED mishap

\* remaining[0] of findAllForUser: a default if there is one, else the
\* address updated last (abstracted: any).
First(a) == a \in Saved /\ (Defaults = {} \/ a \in Defaults)

ListRemaining(w) ==
    /\ writer[w].pc = "list"
    /\ IF Saved = {} THEN Leave(w)
       ELSE \E a \in Address :
              /\ First(a)
              /\ writer' = [writer EXCEPT ![w].pc = "promote", ![w].address = a]
    /\ UNCHANGED <<book, mishap>>

\* A statement fails or the process stops; what ran before stays.
LoseRequest(w) ==
    /\ writer[w].pc # "idle"
    /\ Leave(w)
    /\ mishap' = mishap \cup {"failure"}
    /\ UNCHANGED book

BookNext ==
    \E w \in Writer :
      \/ \E a \in Address, asked \in Asked :
           CreateAddress(w, a, asked) \/ UpdateAddress(w, a, asked)
      \/ \E a \in Address : RemoveAddress(w, a)
      \/ ClearDefault(w)
      \/ InsertAddress(w)
      \/ WriteAddress(w)
      \/ DeleteAddress(w)
      \/ ListRemaining(w)
      \/ LoseRequest(w)

BookSpec == BookInit /\ [][BookNext]_bookVars

-----------------------------------------------------------------------------
\* "Deliver to" always has an answer, and one answer: a customer with
\* addresses has a default between requests, unless requests overlapped, one
\* failed half-way or the client declined it since the book was in order; and
\* never has two defaults, unless requests overlapped.
DeliverToIsReady ==
    /\ Cardinality(Defaults) <= 1 \/ "overlap" \in mishap
    /\ Quiet /\ Saved # {} => Defaults # {} \/ mishap # {}
=============================================================================
