--------------------------- MODULE ClientRateLimit --------------------------
(***************************************************************************)
(* The request windows of API keys: a window of one minute per key, in a   *)
(* table of bounded size that forgets the key used longest ago             *)
(* (ClientRateLimitStore).                                                 *)
(***************************************************************************)
EXTENDS Naturals, Sequences, FiniteSets

CONSTANTS ApiKeys,
          Limit,       \* requestsPerMinute, by key
          MaxWindows,  \* maxEntries
          LastMinute,  \* bound on the clock
          MaxUses      \* bound on the requests of one minute

ASSUME LimitAssumption == Limit \in [ApiKeys -> Nat] /\ MaxWindows \in Nat \ {0}

VARIABLES minute,   \* the clock, in windows
          windows,  \* entries: a window of a key, and which request of its
                    \* minute used it last, the order of the Map
          uses      \* history: the requests of this minute

limitVars == <<minute, windows, uses>>

LimitInit == minute = 0 /\ windows = {} /\ uses = <<>>

Running(table) == {w \in table : w.minute = minute}

Current(k) == {w \in Running(windows) : w.key = k}

Others(k) == {w \in windows : w.key # k}

(* Without the window used longest ago.                                    *)
Younger(table) == {w \in table : \E v \in table : v.used < w.used}

(* makeCapacity: a full table drops the windows that have ended, and the   *)
(* key used longest ago if it is full still.  Mutant: it is full too soon. *)
RoomLate(table) ==
    IF Cardinality(table) + 1 < MaxWindows THEN table
    ELSE IF Cardinality(Running(table)) + 1 < MaxWindows THEN Running(table)
    ELSE Younger(Running(table))

Room(table) ==
    IF Cardinality(table) < MaxWindows THEN table
    ELSE IF Cardinality(Running(table)) < MaxWindows THEN Running(table)
    ELSE Younger(Running(table))

(* The window of a key moves to the end of the table at every use.         *)
(* Mutant: it stays where it is.                                           *)
InPlace(k, w) == Others(k) \cup {w}

Reinserted(k, w) == Others(k) \cup {[w EXCEPT !.used = Len(uses) + 1]}

Use(k, granted) == uses' = Append(uses, [key |-> k, granted |-> granted])

(* consume in a window that runs: the request counts, or is refused at the *)
(* limit; the key counts as used in both cases.                            *)
Counted(k) ==
    \E w \in Current(k) :
        LET granted == w.count < Limit[k]
        IN  /\ windows' = Reinserted(k, [w EXCEPT !.count = IF granted THEN @ + 1 ELSE @])
            /\ Use(k, granted)

(* consume without a window that runs: a new one begins.                   *)
Opened(k) ==
    /\ Current(k) = {}
    /\ windows' = IF Limit[k] < 1 THEN Room(Others(k))
                  ELSE Room(Others(k)) \cup
                       {[key |-> k, minute |-> minute, count |-> 1, used |-> Len(uses) + 1]}
    /\ Use(k, Limit[k] >= 1)

Consume(k) == Len(uses) < MaxUses /\ (Counted(k) \/ Opened(k)) /\ UNCHANGED minute

MinutePasses ==
    /\ minute < LastMinute /\ minute' = minute + 1 /\ uses' = <<>> /\ UNCHANGED windows

LimitNext == (\E k \in ApiKeys : Consume(k)) \/ MinutePasses

-----------------------------------------------------------------------------
UsesOf(k) == {i \in DOMAIN uses : uses[i].key = k}
Granted(k) == {i \in UsesOf(k) : uses[i].granted}

(* The keys used between two requests of k.                                *)
Between(i, j) == {uses[n].key : n \in i + 1 .. j - 1}

(* In one minute no key is granted more requests than its limit as long as *)
(* fewer other keys than the table has places are used between any two of  *)
(* its requests: only then may its window have been forgotten.             *)
LimitHolds ==
    \A k \in ApiKeys :
        Cardinality(Granted(k)) > Limit[k] =>
            \E i \in UsesOf(k), j \in UsesOf(k) :
                /\ i < j /\ k \notin Between(i, j)
                /\ Cardinality(Between(i, j)) >= MaxWindows
=============================================================================
