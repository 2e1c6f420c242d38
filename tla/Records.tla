------------------------------ MODULE Records ------------------------------
(***************************************************************************)
(* The stored results: closing a run looks its address up and saves a row, *)
(* visitors list them, the prune loop deletes the old ones, and the server *)
(* restarts, possibly with other settings (internal/server/api.go,         *)
(* internal/store/store.go, cmd/megapetd/main.go).                         *)
(*                                                                         *)
(* An address is a number, its network the multiple of Hosts below it.     *)
(* Which run is closed, and by whom, is the business of Runs.tla: here a   *)
(* run is when it was started.                                             *)
(***************************************************************************)
EXTENDS IpInfo

CONSTANTS Invalid,    \* the zero address, one of Local
          Hosts,      \* addresses in a network
          Id,         \* what NewID may return
          MaxRun,     \* how long a run may last
          Retention,  \* store.retention_days
          Period,     \* the prune loop's ticker
          Down,       \* how long the server may be down
          MaxRestarts \* bound on the restarts

ASSUME RecordsAssumption ==
    /\ Invalid \in Local
    /\ Addr \subseteq Nat
    /\ Hosts \in Nat \ {0}
    /\ MaxRun \in Nat
    /\ Retention \in Nat
    /\ MaxRun + Timeout + 2 * Delay <= Retention
    /\ Period \in Nat \ {0}
    /\ Down \subseteq Nat
    /\ MaxRestarts \in Nat

VARIABLES setting,  \* store.record_ip and store.anonymize_ip
          rows,     \* the results table
          answered, \* history: the rows whose links were handed out
          closing,  \* what each request is, and when its run was started
          due,      \* when the prune loop runs next
          pruned,   \* history: whether its last try succeeded
          restarts  \* restarts so far

vars == <<now, info, setting, rows, answered, closing, due, pruned, restarts>>

Setting == [recordIP : BOOLEAN, anonymizeIP : BOOLEAN]

Init ==
    /\ now = 0
    /\ InitInfo
    /\ setting \in Setting
    /\ rows = {}
    /\ answered = {}
    /\ closing = [r \in Request |-> None]
    /\ due = 0
    /\ pruned = TRUE
    /\ restarts = 0

-----------------------------------------------------------------------------
Network(a) == a - (a % Hosts)

\* netutil.String of the zero address is empty.
Stored(a) ==
    IF a = Invalid THEN None
    ELSE IF setting.anonymizeIP THEN Network(a) ELSE a

\* GET /api/ip
AskIP(r, a) ==
    /\ Do(r, a)
    /\ UNCHANGED <<now, setting, rows, answered, closing, due, pruned, restarts>>

Answer(r) ==
    /\ lookup[r].pc = "answered"
    /\ closing[r] = None
    /\ lookup' = [lookup EXCEPT ![r] = Unasked]
    /\ UNCHANGED <<now, cache, setting, rows, answered, closing, due, pruned, restarts>>

\* POST /api/runs/{id}/close, once the run has left the run store.
CloseRun(r, a, started) ==
    /\ Do(r, a)
    /\ now - started <= MaxRun
    /\ closing' = [closing EXCEPT ![r] = started]
    /\ UNCHANGED <<now, setting, rows, answered, due, pruned, restarts>>

Row(r, id) ==
    [id |-> id, created |-> closing[r], real |-> lookup[r].addr,
     clientIP |-> IF setting.recordIP THEN Stored(lookup[r].addr) ELSE None]

\* The answer quotes the row's share links.
Save(r) ==
    /\ lookup[r].pc = "answered"
    /\ closing[r] # None
    /\ \E id \in Id \ {row.id : row \in answered} :
          /\ rows' = rows \cup {Row(r, id)}
          /\ answered' = answered \cup {Row(r, id)}
    /\ lookup' = [lookup EXCEPT ![r] = Unasked]
    /\ closing' = [closing EXCEPT ![r] = None]
    /\ UNCHANGED <<now, cache, setting, due, pruned, restarts>>

\* The database fails, or the visitor has left.
SaveFails(r) ==
    /\ lookup[r].pc = "answered"
    /\ closing[r] # None
    /\ lookup' = [lookup EXCEPT ![r] = Unasked]
    /\ closing' = [closing EXCEPT ![r] = None]
    /\ UNCHANGED <<now, cache, setting, rows, answered, due, pruned, restarts>>

-----------------------------------------------------------------------------
(* Listing.                                                                *)

MineUnmatched(a) == \* mutant: an unknown address is no filter
    IF setting.recordIP /\ Stored(a) # None THEN {row \in rows : row.clientIP = Stored(a)} ELSE rows

\* The rows the filter lets through, as the caller's own; an address that is
\* not known matches nothing.
Mine(a) ==
    IF ~setting.recordIP THEN rows
    ELSE {row \in rows : Stored(a) # None /\ row.clientIP = Stored(a)}

\* The first page, newest first; rows of one moment come in any order.
Page(found, size) ==
    {page \in SUBSET found :
        /\ Cardinality(page) = IF Cardinality(found) < size THEN Cardinality(found) ELSE size
        /\ \A x \in page, y \in found \ page : x.created >= y.created}

\* What GET /api/results may answer: it changes nothing.
List(a, mine, days, size) ==
    LET since == IF days > 0 THEN now - days ELSE 0
    IN  Page({row \in IF mine THEN Mine(a) ELSE rows : row.created >= since}, size)

-----------------------------------------------------------------------------
(* Pruning, and the process.                                               *)

PruneToday(ok) == \* mutant: the day of the cutoff goes too
    /\ now >= due
    /\ rows' = IF ok THEN {row \in rows : row.created > now - Retention} ELSE rows
    /\ pruned' = ok
    /\ due' = now + Period
    /\ UNCHANGED <<now, info, setting, answered, closing, restarts>>

Prune(ok) ==
    /\ now >= due
    /\ rows' = IF ok THEN {row \in rows : row.created >= now - Retention} ELSE rows
    /\ pruned' = ok
    /\ due' = now + Period
    /\ UNCHANGED <<now, info, setting, answered, closing, restarts>>

Tick ==
    /\ now < MaxTime
    /\ now < due
    /\ InTime
    /\ \A r \in Request : lookup[r].pc = "answered" => now - lookup[r].since < Delay
    /\ now' = now + 1
    /\ UNCHANGED <<info, setting, rows, answered, closing, due, pruned, restarts>>

RestartUnpruned(down) == \* mutant: the first prune waits for the ticker
    /\ restarts < MaxRestarts
    /\ now + down <= MaxTime
    /\ now' = now + down
    /\ restarts' = restarts + 1
    /\ setting' \in Setting
    /\ cache' = [a \in {} |-> None]
    /\ lookup' = [r \in Request |-> Unasked]
    /\ closing' = [r \in Request |-> None]
    /\ due' = now' + Period
    /\ UNCHANGED <<rows, answered, pruned>>

\* The rows are what outlives the process; pruneLoop starts with a prune.
Restart(down) ==
    /\ restarts < MaxRestarts
    /\ now + down <= MaxTime
    /\ now' = now + down
    /\ restarts' = restarts + 1
    /\ setting' \in Setting
    /\ cache' = [a \in {} |-> None]
    /\ lookup' = [r \in Request |-> Unasked]
    /\ closing' = [r \in Request |-> None]
    /\ due' = now'
    /\ UNCHANGED <<rows, answered, pruned>>

-----------------------------------------------------------------------------
Lookup ==
    /\ LookupStep
    /\ UNCHANGED <<now, setting, rows, answered, closing, due, pruned, restarts>>

Next ==
    \/ \E r \in Request :
          \/ \E a \in Addr :
                \/ AskIP(r, a)
                \/ \E started \in 0..now : CloseRun(r, a, started)
          \/ Answer(r)
          \/ Save(r)
          \/ SaveFails(r)
    \/ Lookup
    \/ \E ok \in BOOLEAN : Prune(ok)
    \/ Tick
    \/ \E down \in Down : Restart(down)

Spec == Init /\ [][Next]_vars
-----------------------------------------------------------------------------
(***************************************************************************)
(* "'mine' restricts the history to the caller's own address" (api.go:     *)
(* 252-263): while addresses are recorded, no one is shown a row of        *)
(* another network as theirs, whatever the settings were when it was saved *)
(* and also where the caller's address is not known.                       *)
(***************************************************************************)
MineIsMine ==
    setting.recordIP =>
        \A a \in Addr, days \in {0, 1}, size \in {1, 2} :
            \A page \in List(a, TRUE, days, size) :
                \A row \in page : a # Invalid /\ Network(row.real) = Network(a)

(***************************************************************************)
(* "Deletes results past the retention window, once at startup and daily   *)
(* thereafter" (main.go:188): unless the prune is due or has failed, no    *)
(* row is older than the retention and a period, across restarts.          *)
(***************************************************************************)
RetentionKept ==
    now < due /\ pruned => \A row \in rows : now - row.created <= Retention + Period

(***************************************************************************)
(* A link that was handed out with a result goes on resolving until the    *)
(* result is past the retention window (api.go:205-237, main.go:188).      *)
(***************************************************************************)
LinksResolve ==
    \A row \in answered : row \in rows \/ row.created < now - Retention
=============================================================================
