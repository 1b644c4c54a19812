---------------------------- MODULE IntegrationSync ----------------------------
(***************************************************************************)
(* One connection to an outside system, and the events that come from it.  *)
(*                                                                         *)
(* A connector is either asked or it posts by itself.  A sync, started by  *)
(* the sweep of any process or by a request, reads the connection, asks    *)
(* for what happened since the cursor, stores each event under its unique  *)
(* id, if it has one, contributes what is new to a knowledge source, if it *)
(* is of that kind, and keeps its own clock's time of the answer as the    *)
(* next cursor.  The cursor and the id of the source live in one JSON      *)
(* column, which everybody writes as a whole, from the copy that was read  *)
(* at the beginning.                                                       *)
(***************************************************************************)
EXTENDS Processes

CONSTANTS
  Happening, \* what happens in the outside system
  MaxRows    \* bound: a happening with so many rows is not posted again

ASSUME SyncAssumption == MaxRows \in Nat

VARIABLES
  polled,      \* whether the connector is one that is asked
  arrived,     \* when each happening came about, once it has
  carries,     \* whether its event has an id, and something for the knowledge graph
  config,      \* the connection's config: its cursor, and whether it names a source
  sync,        \* the step of each process, its copy of config, the events in its hands
  rows,        \* the integration_events rows of each happening
  contributed, \* history: times each was ingested as a document
  skipped,     \* history: what a cursor was going to pass without its being listed
  dropped      \* history: what a failed call, or a death, left behind

syncVars == <<polled, arrived, carries, config, sync, rows, contributed, skipped, dropped>>

Unset == 0

NotYet == MaxTime + 1

EmptyConfig == [cursor |-> Unset, source |-> FALSE]

NotSyncing == [at |-> "no", config |-> EmptyConfig, todo |-> {}, event |-> {}, next |-> Unset]

SyncInit ==
  /\ polled \in BOOLEAN
  /\ arrived = [h \in Happening |-> NotYet]
  /\ carries = [h \in Happening |-> {}]
  /\ config = EmptyConfig
  /\ sync = [p \in Process |-> NotSyncing]
  /\ rows = [h \in Happening |-> 0]
  /\ contributed = [h \in Happening |-> 0]
  /\ skipped = {}
  /\ dropped = {}

-----------------------------------------------------------------------------
SyncAt(p, step) == sync[p].at = step

Arrived == {h \in Happening : arrived[h] # NotYet}

\* The cursors that are written, or that some process may yet write.
Cursors == {config.cursor} \union UNION {{sync[p].config.cursor, sync[p].next} : p \in Process}

\* What connectors ask for has an id and is knowledge; what is posted may have either.
Happen(h) ==
  /\ arrived[h] = NotYet
  /\ arrived' = [arrived EXCEPT ![h] = now]
  /\ \E c \in SUBSET {"id", "knowledge"} :
       /\ polled => c = {"id", "knowledge"}
       /\ carries' = [carries EXCEPT ![h] = c]
  /\ skipped' = IF \E c \in Cursors : now < c THEN skipped \union {h} ELSE skipped
  /\ UNCHANGED <<polled, config, sync, rows, contributed, dropped>>

\* updateConnection: a client writes the config it wants.
UpdateConfig ==
  /\ config' = EmptyConfig
  /\ UNCHANGED <<polled, arrived, carries, sync, rows, contributed, skipped, dropped>>

\* sync reads the connection, and poll asks for what there is since its cursor, or of
\* the last day if there is none.  What is listed is one page, of 20 or of what the
\* outside holds a page to be, and some list what they were not asked for: any set.
StartSync(p) ==
  /\ polled /\ SyncAt(p, "no")
  /\ \E listed \in SUBSET Arrived :
       sync' = [sync EXCEPT ![p] = [NotSyncing EXCEPT !.at = "ask", !.config = config,
                                                      !.todo = listed]]
  /\ UNCHANGED <<polled, arrived, carries, config, rows, contributed, skipped, dropped>>

\* What is not listed, though it is no older than the old cursor, and is older than the
\* new one: too old, on another page, or come about since.
Passed(p, next) ==
  {h \in Arrived \ sync[p].todo : sync[p].config.cursor <= arrived[h] /\ arrived[h] < next}

\* The cursor to come is the time at which poll returns, by the clock of its process.
EndPoll(p) ==
  /\ SyncAt(p, "ask")
  /\ \E next \in 1..MaxTime :
       /\ sync' = [sync EXCEPT ![p].at = "store", ![p].next = next]
       /\ skipped' = skipped \union Passed(p, next)
  /\ UNCHANGED <<polled, arrived, carries, config, rows, contributed, dropped>>

\* IntegrationWebhookReceiverService.receive: a post, with its events, comes once more
\* until it is answered with 200.
Receive(p) ==
  /\ ~polled /\ SyncAt(p, "no")
  /\ \E posted \in (SUBSET Arrived) \ {{}} :
       /\ \A h \in posted : rows[h] < MaxRows
       /\ sync' = [sync EXCEPT ![p] = [NotSyncing EXCEPT !.at = "store", !.config = config,
                                                         !.todo = posted]]
  /\ UNCHANGED <<polled, arrived, carries, config, rows, contributed, skipped, dropped>>

\* An event with an id has one row: of two that try at once, the database lets one
\* create it.  One without is always new.
IsNew(h) == "id" \in carries[h] => rows[h] = 0

\* contribute returns at once if the event has nothing for the knowledge graph.
CreateIfNew(p, h) ==
  /\ SyncAt(p, "store") /\ h \in sync[p].todo
  /\ rows' = IF IsNew(h) THEN [rows EXCEPT ![h] = @ + 1] ELSE rows
  /\ sync' = IF IsNew(h) /\ "knowledge" \in carries[h]
       THEN [sync EXCEPT ![p].at = "contribute", ![p].todo = @ \ {h}, ![p].event = {h}]
       ELSE [sync EXCEPT ![p].todo = @ \ {h}]
  /\ UNCHANGED <<polled, arrived, carries, config, contributed, skipped, dropped>>

\* resolveKnowledgeSourceId: without a source in the copy of the config another is
\* created, and written with that copy, which itself stays as it is.
ResolvedConfig(p) ==
  IF sync[p].config.source THEN config ELSE [sync[p].config EXCEPT !.source = TRUE]

\* The ingestion of the document answers for itself; here it is begun.
Contribute(p) ==
  /\ SyncAt(p, "contribute")
  /\ config' = ResolvedConfig(p)
  /\ contributed' = [h \in Happening |-> contributed[h] + IF h \in sync[p].event THEN 1 ELSE 0]
  /\ sync' = [sync EXCEPT ![p].at = "store", ![p].event = {}]
  /\ UNCHANGED <<polled, arrived, carries, rows, skipped, dropped>>

\* What contribute throws is logged: the config may have been written by then.
ContributeFails(p) ==
  /\ SyncAt(p, "contribute")
  /\ config' \in {config, ResolvedConfig(p)}
  /\ dropped' = dropped \union sync[p].event
  /\ sync' = [sync EXCEPT ![p].at = "store", ![p].event = {}]
  /\ UNCHANGED <<polled, arrived, carries, rows, contributed, skipped>>

\* A sync counts an event that could not be stored and goes on; receive throws.
CreateFails(p, h) ==
  /\ SyncAt(p, "store") /\ h \in sync[p].todo
  /\ IF polled
       THEN /\ dropped' = dropped \union {h}
            /\ sync' = [sync EXCEPT ![p].todo = @ \ {h}]
       ELSE sync' = [sync EXCEPT ![p] = NotSyncing] /\ UNCHANGED dropped
  /\ UNCHANGED <<polled, arrived, carries, config, rows, contributed, skipped>>

\* Mutant: the cursor is kept before the events are.
WriteCursorFirst(p) ==
  /\ SyncAt(p, "store")
  /\ config' = IF polled THEN [sync[p].config EXCEPT !.cursor = sync[p].next] ELSE config
  /\ sync' = [sync EXCEPT ![p] = NotSyncing]
  /\ UNCHANGED <<polled, arrived, carries, rows, contributed, skipped, dropped>>

\* The cursor is written with the copy of the config; nobody looks at the row's version.
FinishSync(p) ==
  /\ SyncAt(p, "store") /\ sync[p].todo = {}
  /\ config' = IF polled THEN [sync[p].config EXCEPT !.cursor = sync[p].next] ELSE config
  /\ sync' = [sync EXCEPT ![p] = NotSyncing]
  /\ UNCHANGED <<polled, arrived, carries, rows, contributed, skipped, dropped>>

\* The process dies, poll fails, or the connection cannot be written.
SyncStops(p) ==
  /\ ~SyncAt(p, "no")
  /\ sync' = [sync EXCEPT ![p] = NotSyncing]
  /\ dropped' = dropped \union sync[p].event
  /\ UNCHANGED <<polled, arrived, carries, config, rows, contributed, skipped>>

SyncNext ==
  \/ Tick /\ UNCHANGED syncVars
  \/ /\ UNCHANGED now
     /\ \/ UpdateConfig
        \/ \E h \in Happening :
             Happen(h) \/ \E p \in Process : CreateIfNew(p, h) \/ CreateFails(p, h)
        \/ \E p \in Process :
             \/ StartSync(p) \/ EndPoll(p) \/ Receive(p) \/ FinishSync(p) \/ SyncStops(p)
             \/ Contribute(p) \/ ContributeFails(p)

SyncSpec == now = 0 /\ SyncInit /\ [][SyncNext]_<<now, syncVars>>

SyncTypeOK ==
  /\ polled \in BOOLEAN
  /\ arrived \in [Happening -> 0..NotYet]
  /\ carries \in [Happening -> SUBSET {"id", "knowledge"}]
  /\ config \in [cursor : 0..MaxTime, source : BOOLEAN]
  /\ sync \in [Process -> [at : {"no", "ask", "store", "contribute"},
                        config : [cursor : 0..MaxTime, source : BOOLEAN],
                        todo : SUBSET Happening, event : SUBSET Happening, next : 0..MaxTime]]
  /\ \A p \in Process : SyncAt(p, "contribute") <=> (sync[p].event # {})
  /\ rows \in [Happening -> Nat] /\ contributed \in [Happening -> Nat]
  /\ skipped \union dropped \subseteq Happening

-----------------------------------------------------------------------------
\* The processes that are about to make a document of a happening's event.
Contributing(h) == {p \in Process : h \in sync[p].event}

\* However syncs and posts overlap, an event with an id has one row, and no row, with or
\* without one, becomes two documents; each that is of the kind becomes one, or is about
\* to, but for what a failure dropped.  And what the cursor has left behind without a
\* row was either dropped by a failure, or never listed by a poll that moved the cursor
\* past it: for want of a cursor, on a further page, come about in between, or ahead of
\* its time by a clock.
EventsAccountedFor ==
  \A h \in Happening :
    /\ "id" \in carries[h] => rows[h] <= 1
    /\ contributed[h] + Cardinality(Contributing(h)) <= rows[h]
    /\ "knowledge" \in carries[h] /\ h \notin dropped =>
         contributed[h] + Cardinality(Contributing(h)) = rows[h]
    /\ rows[h] = 0 /\ arrived[h] < config.cursor => h \in skipped \union dropped

=============================================================================
