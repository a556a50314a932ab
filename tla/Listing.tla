------------------------------ MODULE Listing -------------------------------
(***************************************************************************)
(* The pages of a directory of restore, restore_list of fs.c.  A client    *)
(* asks for one page after the other; every request reads the directory    *)
(* anew, with Walk's steps of restore_read_directory, sorts what it found  *)
(* and answers with one page of it.  The directory may change in between.  *)
(***************************************************************************)
EXTENDS Walk

CONSTANTS
    Order,          \* the nodes as the comparator sorts them; no two tie
    PageSizes       \* the sizes of a page that a listing is asked for,
                    \* after the default and the limit were applied

ASSUME ListingAssumption ==
    /\ ToSet(Order) = Nodes
    /\ PageSizes \subseteq Nat \ {0}

VARIABLES
    each,           \* the size of the pages that the client asks for
    wanted,         \* the page it asks for; 0 when there is no next one
    got,            \* the items it has
    shrunk          \* history: an entry of the directory vanished

client == <<each, wanted, got>>
listVars == <<vars, client, shrunk>>

Rank(n) == CHOOSE i \in DOMAIN Order : Order[i] = n
Sorted(items) == SortSeq(items, LAMBDA m, n : Rank(m) < Rank(n))

(* Mutant: the number of pages is rounded down.                            *)
PagesOfWholes(total, page_size) ==
    IF total < page_size THEN 1 ELSE total \div page_size

Pages(total, page_size) ==
    IF total = 0 THEN 1 ELSE (total + page_size - 1) \div page_size

(* A page beyond the last one is the last one.                             *)
Page(items, page, page_size) ==
    LET pages == Pages(Len(items), page_size)
        clamped == IF page > pages THEN pages ELSE page
        offset == (clamped - 1) * page_size
        available == IF Len(items) > offset THEN Len(items) - offset ELSE 0
        selected == IF available > page_size THEN page_size ELSE available
    IN  [items |-> SubSeq(items, offset + 1, offset + selected),
         has_next |-> clamped < pages]

-----------------------------------------------------------------------------
ListInit ==
    /\ Init
    /\ each \in IF job = "list" THEN PageSizes ELSE {1}
    /\ wanted = 1
    /\ got = <<>>
    /\ shrunk = FALSE

(* The answer to a request.  The client starts at page 1 and goes on, with *)
(* a request that reads the directory again, as long as has_next says so.  *)
Answer ==
    /\ at = "done"
    /\ job = "list"
    /\ result = "ok"
    /\ wanted # 0
    /\ LET answer == Page(Sorted(out), wanted, each)
       IN  /\ got' = got \o answer.items
           /\ IF answer.has_next
              THEN /\ wanted' = wanted + 1
                   /\ at' = "open"
                   /\ result' = "running"
                   /\ out' = <<>>
              ELSE /\ wanted' = 0
                   /\ UNCHANGED <<at, result, out>>
    /\ UNCHANGED <<kind, tree, pass, entry, stack, errno, target, faults, each, shrunk>>

ListNext ==
    \/ Answer
    \/ /\ Next
       /\ shrunk' = (shrunk \/ (job = "list" /\ ~(present \subseteq present')))
       /\ UNCHANGED client

ListSpec == ListInit /\ [][ListNext]_listVars

-----------------------------------------------------------------------------
Entries == Children(Root) \ Special

(* A listing has every entry that was there all along, once.  A client     *)
(* that followed has_next to the last page has seen every such entry, if   *)
(* none vanished meanwhile, whatever appeared, although each request reads *)
(* and sorts the directory again and the pages shift; and if nothing       *)
(* changed it has the whole directory, in order and without repetition.    *)
(* After an entry vanished, by a restore for one, the pages that follow    *)
(* may leave one out.  On Windows FindNextFile and fs_stat must not fail.  *)
ListingIsComplete ==
    job = "list" /\ (posix \/ faults = 0) =>
        /\ at = "done" /\ result = "ok" =>
              \A n \in settled \cap Entries : Cardinality({i \in DOMAIN out : out[i] = n}) = 1
        /\ wanted = 0 /\ ~shrunk => settled \cap Entries \subseteq ToSet(got)
        /\ wanted = 0 /\ changes = 0 => got = Sorted(SetToSeq(present \cap Entries))
=============================================================================
