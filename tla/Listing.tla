------------------------------ MODULE Listing ------------------------------
(* What the lists of strategies and invoices hold at a pinned block, and the *)
(* page of it that follows a cursor.                                         *)
EXTENDS Integers, FiniteSets, SequencesExt

CONSTANTS
  None,      \* no account, no cursor, nothing read
  Blocks,    \* blocks the read models can be at
  Height,    \* of a block
  Parent,    \* of a block, or None
  Ancestors, \* of a block, itself included
  Touched,   \* for a block, the rows its events write, in the order of the logs
  Rows,      \* strategies or invoices
  Owner,     \* their maker or merchant
  Accounts,  \* for a page, the wallet accounts that may be connected
  PageSize   \* rows of a page (6)

ASSUME ListingAssumption ==
  /\ IsFiniteSet(Rows) /\ PageSize \in Nat \ {0}
  /\ Height \in [Blocks -> Nat] /\ Touched \in [Blocks -> Seq(Rows)]
  /\ Ancestors \in [Blocks -> SUBSET Blocks]
  /\ \A pin \in Blocks : \A b \in Ancestors[pin] :
       /\ Height[b] <= Height[pin]
       /\ \A c \in Ancestors[pin] : Height[c] = Height[b] => c = b
  /\ None \notin Nat \X Nat

\* The places, as height and log, of the events up to a block that wrote a row.
Places(row, pin) ==
  UNION {{<<Height[b], n>> : n \in {m \in DOMAIN Touched[b] : Touched[b][m] = row}} : b \in Ancestors[pin]}

Before(p, q) == p[1] < q[1] \/ (p[1] = q[1] /\ p[2] < q[2])

First(places) == CHOOSE p \in places : \A q \in places \ {p} : Before(p, q)
Latest(places) == CHOOSE p \in places : \A q \in places \ {p} : Before(q, p)

\* Strategies are listed by their latest event, invoices by their first.
Position(list, places) == IF list = "strategies" THEN Latest(places) ELSE First(places)

\* All rows of an owner at a block, with their positions.
Items(list, owner, pin) ==
  {[row |-> row, at |-> Position(list, Places(row, pin))] :
     row \in {r \in Rows : Owner[r] = owner /\ Places(r, pin) # {}}}

NewestFirst(items) ==
  CHOOSE s \in [1 .. Cardinality(items) -> items] :
    /\ Range(s) = items
    /\ \A i, j \in DOMAIN s : i < j => Before(s[j].at, s[i].at)

\* All lists, by list, owner and block.
Tables ==
  {[list |-> list, owner |-> owner, pin |-> pin, items |-> NewestFirst(Items(list, owner, pin))] :
     list \in {"strategies", "invoices"}, owner \in Accounts["strategies"] \cup Accounts["invoices"], pin \in Blocks}

Listed(list, owner, pin) == (CHOOSE t \in Tables : t.list = list /\ t.owner = owner /\ t.pin = pin).items

\* What follows the first so many.
Rest(items, n) == SubSeq(items, n + 1, Len(items))

\* Mutant of Following: height and log compared one by one, not as a pair.
FollowingApart(list, owner, pin, after) ==
  LET all == Listed(list, owner, pin)
      apart(p) == p[1] < after[1] /\ p[2] < after[2]
  IN Rest(all, Cardinality({i \in DOMAIN all : after # None /\ ~apart(all[i].at)}))

\* Those after a cursor's position: the tail of the list, which is in order.
Following(list, owner, pin, after) ==
  LET all == Listed(list, owner, pin)
  IN Rest(all, Cardinality({i \in DOMAIN all : after # None /\ ~Before(all[i].at, after)}))

Page(list, owner, pin, after) ==
  LET items == Following(list, owner, pin, after)
  IN SubSeq(items, 1, IF Len(items) < PageSize THEN Len(items) ELSE PageSize)

\* The cursor of the page that follows: the deployment, the pin and the
\* position of the last item.
NextCursor(list, owner, deployment, pin, after) ==
  IF Len(Following(list, owner, pin, after)) > PageSize
  THEN [deployment |-> deployment, pin |-> pin, after |-> Last(Page(list, owner, pin, after)).at]
  ELSE None
=============================================================================
