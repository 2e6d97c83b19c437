---------------------------- MODULE SearchHistory ----------------------------
(***************************************************************************)
(* The search history of one user (src/routes/search-history.ts): a film   *)
(* is added, the entries are counted, the oldest are looked up and deleted *)
(* by their ids, without a transaction.                                    *)
(***************************************************************************)
EXTENDS Naturals, FiniteSets

CONSTANTS
  Adders,           \* bound: additions in flight
  Films,            \* films the user looks at
  MAX_HISTORY_SIZE

VARIABLES
  history,    \* the films that have an entry
  earlier,    \* <<f, g>>: the searchedAt of f is before that of g
  adder,      \* where each addition is
  trimFailed  \* history: an addition failed before it had trimmed the list

historyVars == <<history, earlier, adder, trimFailed>>

HistoryAssumption == IsFiniteSet(Films) /\ MAX_HISTORY_SIZE \in Nat

\* excess: entries over the limit; doomed: entries to be deleted.
Gone == [pc |-> "idle", excess |-> 0, doomed |-> {}]

\* One user's entries have different times.
InOrder ==
  /\ \A f, g \in history : f # g => (<<f, g>> \in earlier <=> <<g, f>> \notin earlier)
  /\ \A f, g, h \in history : <<f, g>> \in earlier /\ <<g, h>> \in earlier => <<f, h>> \in earlier

HistoryTypeOK ==
  /\ history \subseteq Films /\ earlier \subseteq history \X history /\ InOrder
  /\ adder \in [Adders -> [pc: {"idle", "count", "find", "delete"},
                           excess: 0 .. Cardinality(Films), doomed: SUBSET Films]]
  /\ trimFailed \in BOOLEAN

HistoryInit ==
  /\ history = {} /\ earlier = {}
  /\ adder = [a \in Adders |-> Gone]
  /\ trimFailed = FALSE

AdderIdle(a) == adder[a].pc = "idle"

\* The order of the entries that are left.  Entries that are deleted are
\* nobody's to delete any more: a film that is added again gets another id.
Strike(films) ==
  /\ history' = history \ films
  /\ earlier' = earlier \cap (history' \X history')
Spared(films) == [a \in Adders |-> [adder[a] EXCEPT !.doomed = @ \ films]]

\* POST /search-history: the film is added, or becomes the latest.  The first
\* form keeps the place it had.
Upserted_InPlace(f) == earlier \cup {<<g, f>> : g \in history}
Upserted(f) == (earlier \ ({f} \X history)) \cup {<<g, f>> : g \in history \ {f}}

AddFilm(a, f) ==
  /\ AdderIdle(a)
  /\ history' = history \cup {f}
  /\ earlier' = Upserted(f)
  /\ adder' = [adder EXCEPT ![a].pc = "count"]
  /\ UNCHANGED trimFailed

\* The first form keeps one entry more.
Excess_OffByOne(n) == IF n > MAX_HISTORY_SIZE THEN n - MAX_HISTORY_SIZE - 1 ELSE 0
Excess(n) == IF n > MAX_HISTORY_SIZE THEN n - MAX_HISTORY_SIZE ELSE 0

CountFilms(a) ==
  /\ adder[a].pc = "count"
  /\ adder' = [adder EXCEPT ![a] =
       IF Excess(Cardinality(history)) = 0 THEN Gone
       ELSE [Gone EXCEPT !.pc = "find", !.excess = Excess(Cardinality(history))]]
  /\ UNCHANGED <<history, earlier, trimFailed>>

\* The oldest entries, as many as were too many when they were counted, or all.
Oldest(films, n) ==
  /\ Cardinality(films) = n \/ (films = history /\ Cardinality(films) < n)
  /\ \A f \in films, g \in history \ films : <<f, g>> \in earlier

FindOldest(a) ==
  /\ adder[a].pc = "find"
  /\ \E films \in SUBSET history :
       /\ Oldest(films, adder[a].excess)
       /\ adder' = [adder EXCEPT ![a] = [Gone EXCEPT !.pc = "delete", !.doomed = films]]
  /\ UNCHANGED <<history, earlier, trimFailed>>

\* An entry that was refreshed since it was looked up is deleted as well.
DeleteOldest(a) ==
  /\ adder[a].pc = "delete"
  /\ Strike(adder[a].doomed)
  /\ adder' = [Spared(adder[a].doomed) EXCEPT ![a] = Gone]
  /\ UNCHANGED trimFailed

TrimFails(a) ==
  /\ ~AdderIdle(a)
  /\ trimFailed' = TRUE
  /\ adder' = [adder EXCEPT ![a] = Gone]
  /\ UNCHANGED <<history, earlier>>

\* DELETE /search-history and /search-history/:movieId.
Forget(films) ==
  /\ films \cap history # {}
  /\ Strike(films)
  /\ adder' = Spared(films)
  /\ UNCHANGED trimFailed

HistoryNext ==
  \/ \E a \in Adders :
       \/ \E f \in Films : AddFilm(a, f)
       \/ CountFilms(a) \/ FindOldest(a) \/ DeleteOldest(a) \/ TrimFails(a)
  \/ Forget(Films) \/ \E f \in Films : Forget({f})

HistorySpec == HistoryInit /\ [][HistoryNext]_historyVars

-----------------------------------------------------------------------------
(* Properties                                                              *)

\* However additions, trims and removals overlap: when all of them have ended,
\* none by an error, the history is within its limit.
HistorySettles ==
  (\A a \in Adders : AdderIdle(a)) /\ ~trimFailed => Cardinality(history) <= MAX_HISTORY_SIZE
=============================================================================
