# Verification of the liz-whiteboard MCP server

The Go program under `src/` is an MCP server: tools called by agents over HTTP read a
whiteboard application's SQLite database directly, write through the application's
Socket.IO collaboration server, and manage projects and boards through the
application's HTTP routes. This directory holds TLA+ models of it, the TLC runs that check
them on small instances, and TLAPS proofs about them for every value of the constants.

## Inventory

One process; every request is a goroutine, and there is no other worker. State in memory
is the socket pool, the token caches and the database handle. All else belongs to the
application: its database, its collaboration server, its authorization server and its routes.

| Component | State | Operations | What is hard | What makes it correct | Module |
|---|---|---|---|---|---|
| Socket pool (`internal/socket/manager.go`) | `connections`, `dialGroup`, sockets | `GetConnection`, `SocketEmitWithAckNS`, `removeConnection`, `session_expired`, `CloseAll` | dials coalesced, eviction by key, a retry after a drop, lost and late acks | no leaked or doubly dialled socket, keys kept apart, the outcome bounds the deliveries, every write returns | `SocketPool`, `WriteDelivery` |
| Collaboration tokens (`internal/collabtoken`) | `tokens`, `sfGroup` | `Get`, `Flush` | coalesced fetches, flush during a fetch, TTL arithmetic | tokens of the right user, not served near expiry, flushed ones gone | `CollabToken` |
| Lifecycle (`cmd/mcp/main.go`, `internal/db`) | goroutines, listener, database handle | signal, `Shutdown`, `db.Close` | two goroutines end the process | the database outlives the listener | `Shutdown` |
| Access tokens (`internal/auth/verifier.go`) | JWKS cache | `getKey`, `refresh`, the claims | concurrent refreshes, stale fallback | a new key is found, a withdrawn one runs out | `JwksCache` |
| Role gates (`internal/auth/auth.go`, `querier.go`) | none | four gates | role read once, used later | refusals are true, and told in the right order | `RoleGates` |
| Batches (`tools/batch.go`) | a name index per call | `batch_schema_update` | partial failure | every item accounted for, relations join what was created | `BatchUpdate` |
| Diagram tools (`tools/table.go`, `column.go`, `relationship.go`, `area.go`, `positions.go`, `internal/area`) | none | read, merge, write back | lost updates, stale positions, half-done updates | what is stored is what was asked, and the answer says so | `DiagramTools`, `BoardRows`, `EditTools` |
| Canvas tools (`tools/canvas_write.go`, `canvas_connector.go`) | none | read, merge, write back | a connector's props are replaced whole | connectors keep their form | `CanvasTools`, `EditTools` |
| Lifecycle tools (`tools/project.go`, `folder.go`, `whiteboard.go`, `canvas_board.go`, `table_reference.go`, `internal/appapi`) | none | gate, read, compare, route call | check and use far apart, lost answers | what is deleted is what was confirmed | `LifecycleTools`, `AppRoutes` |
| Board images (`tools/board_image.go`, `internal/render`) | a token per request | `load`, `renderTiles` | token renewal and retry, a board that changes under its tiles | no page loaded with a token about to expire, bounded retries | `BoardImages` |
| Reading tools (`tools/discovery.go`, `read.go`, `canvas_read.go`, `ddl.go`, `internal/data`) | none | queries, `GetProjectTree` | several queries and no transaction, corrupt parents | what is shown was there; the tree places every folder | `BoardReads`, `FolderTree` |
| Summary and DDL text, enumerations, positioning | none | pure formatting | little | | not modelled |

Calls between them: a tool runs a role gate (database), reads (database), and then writes
through the pool or a route. The pool's dial asks `collabtoken.Get` for a token;
`session_expired` calls `collabtoken.Flush` and evicts from the pool; the routes' clients use
`collabtoken.Get` too. The signal goroutine empties the pool, drains HTTP and closes the database.

`PROJECT.json` lists the hazards, each at its line, with the properties that cover it.

## Modules

How they compose:

    WriteDelivery  <-- refined by --  SocketPool          RoleGates
         ^                                                  ^   ^  ^
         | INSTANCE                             BoardRows --+   |  +-- AppRoutes
         |                                         ^            |        ^
      EditTools --> CanvasTools --> DiagramTools --+      BoardReads   LifecycleTools
                                                          BoardImages
    CollabToken, Shutdown, JwksCache, BatchUpdate: by themselves

The tools rely on what `WriteDelivery` promises of a write, and the pool is shown to keep that
promise: no model of a tool contains a socket.

### SocketPool

A **call** is one `SocketEmitWithAckNS`; `pc[c]` says where its goroutine is. A step is what
happens between two blocking points, or inside one critical section of `mu`, so all the
interleavings the mutex and the singleflight group allow are there:

    lookup -> dial -> recheck -> create -> await -> store -> land -> emit -> wait -> done
                  \-> join (a follower, released by its leader's land)    \-> evict -> lookup

| Definition | Code |
|---|---|
| `pool`, `flight` | `connections`, `dialGroup` |
| `Lookup`, `EnterFlight`, `Recheck`, `Store`, `Land` | `GetConnection` |
| `Create`, `CreateFails`, `AwaitConnected`, `AwaitFails` | `createSocket`, `waitForConnect` and their error paths |
| `Emit`, `AckArrives`, `EmitFails`, `Evict` | `emitAck`, `ackErrorIsTimeout` and the retry of FR-021 |
| `SessionExpired`, `ExpiryEvicts` | the handler: the flush, then, once it has `mu`, the eviction by key |
| `CloseAll` | `CloseAll` |
| `BecomeReady`, `Drop`, `Handle` | the socket library and the collaboration server (external) |

A socket is `unused`, `connecting`, `open` (`Connected()` is true) or `closed`; `ready` are
those whose `connected` event arrived. `packet[c][a]` is the a-th emission of a write: the
server may handle it at any later time, even after the caller gave up, or never. A token is
named by the socket whose dial fetched it; the dial takes the cached one or a new one.
`CollabToken` models the cache itself. Reading fields out of an ack is left out.

`WriteDelivery` is the abstract specification of a write: how often the server may have
handled it, given what the caller was told (`ok` at least once, CONNECTION_ERROR at most
once, SESSION_EXPIRED at most twice). `SocketPool!DeliveryPromise` instantiates it with a
refinement mapping that counts handled packets.

### CollabToken

Calls of `Get`, with `Lookup`, the singleflight `Enter`, `Recheck`, the request (`Mint` on the
authorization server, `FetchReturns`, `FetchFails`), `Store` and `Land`, and `Flush` at any time. A
clock counts seconds and only advances while every call waits: what happens between two
blocking points takes no time at this grain. `NewEntry` and `Fresh` are the TTL arithmetic.

### Shutdown

The main goroutine, the signal goroutine and the handlers. A connection is accepted (`Connect`) while the listener is
open; its request may begin later (`Arrive`), also after the listener has closed. `net/http` is modelled from how
`main` uses it: `BeginShutdown` closes the listener, `ListenAndServeReturns` follows at once,
and `Shutdown` itself returns when no handler runs and the connections without a request are closed (`Drained`) or after
its five seconds (`DrainTimesOut`). A process that has exited takes no step.

### JwksCache

Requests that verify tokens over one cache. `getKey` looks the token's kid up and, on a miss
or a stale entry, fetches; the fetch is answered with the document published at that moment
(`Respond`), and stored when the request gets the lock (`refresh`), so two fetches may store in
the wrong order. `RefreshFails` falls back to what is cached. `Reread` looks again,
`NewJWKSVerifier` checks signature and claims (issuer, audience, subject, expiry and not-before). `Rotate` publishes the next document; a clock counts
ticks. `lastListed` and `lastAbsent` are histories: when a key was last published, and when a kid last was not.

### BatchUpdate

One call of `batch_schema_update`: `Refuse` or `Accept` (validation and the one role check), then
`executeBatchSchema` as the loops it is, with `i` and `j` its indices: `CreateTable`,
`CreateInlineColumn`, `NextTable`, `AddColumn`, `CreateRelation`, `NextPhase`. `tableIDs` and
`columnIDs` are `nameIndex`. `emit` is what `WriteDelivery` leaves of a write: an acknowledged one
is stored at least once, any write may be stored twice, and a copy may be stored late
(`LateCopy`). The server (external) refuses rows whose parents do not exist, and may refuse any other.

### RoleGates

The four role queries over a caller's standing (owner or not, member row) and the mapping of their
outcome to NOT_FOUND, FORBIDDEN or a pass. The tool modules extend it; a standing may change
between a gate and the writes behind it.

### BoardRows, DiagramTools, CanvasTools, EditTools

`BoardRows` is the data: the rows of boards, the queries of `internal/data` that the editing tools make,
and what the collaboration server (external) does with each event. `DiagramTools` and `CanvasTools` give,
for each tool, the validation of its request, its queries in their order (`...Steps`) and the events
it emits (`...Writes`), which depend on what the queries returned. The operators carry the names of
the functions they translate: `nextMemberTableIDs`, `CalculateTableHeight`,
`areaMoveMemberFromTable`, `mergeCanvasConnectorProps`, `applyCanvasConnectorEnd`. Of a connector's props the models have the two ends, the
routing and the curvature; the attachment points, legacy anchors and unknown keys, which the merge passes through, are left out. An `unreadable`
row is an element whose stored props are no JSON object.

`EditTools` runs calls of these tools side by side: `Validate`, one `Query` at a time, `Prepare` (the last
check and the writes), then `Emit` and `Acked` or `EmitFails` for each write. The writes take steps of
`WriteDelivery`, and `Handle` is the server's side: it may store or refuse a write late, twice or never.
`Meddle` is another user deleting a row or an administrator changing the caller's role; other changes by others are what the second call makes, through
the same server and with the same events.

### AppRoutes, LifecycleTools

`AppRoutes` has the body each route client posts, what becomes of each HTTP status, and the
routes themselves (external): the role is checked again, and a row is created, changed or deleted with what hangs on it.
`LifecycleTools` writes each tool as a sequence of stages (`Check`, `Resolve`, `Gate`, `Confirm`, `Route`)
in the order of its `...WithFns` function, and runs calls over them: `RunStage`, `QueryFails`, `cascadeWarning`
(the count before a folder's mismatch is told), `Post`, `Receive`, `GiveUp` (the client's five seconds). `Handle` may
come after `GiveUp`. `saw[c]` is a history of what was true while call c ran.

### BoardReads, FolderTree

One call of a reading tool: `Query` after query, each over the rows of its moment, while others create,
refile and delete rows. A piece of a result is the set of ids it shows; `linked`, `truncateCanvasElements`,
`FormatSchemaSummary` and `GenerateTableDDL` decide which. `stood` and `ever` are histories: the ids in use since the call began,
and every row that was there at some time; `Whole` are the rows that have not changed.

`FolderTree` is `GetProjectTree`: a node is the path of folders from its root, `build` the walk below one folder, `markEmitted` what
that walk has shown, `sweep` the second loop, for folders that no root reaches. The code's two recursive closures are given as
sets of paths, level by level, so that they can be proved about; `PathsAreTheCalls` (`MCBoardReads`) compares them with the
recursion as it is written, for every way to file four folders. The order among siblings is left out.

### BoardImages

One call of an image tool: the board's project (`authorize`), the caller's access to it (`AssertProjectAccess`), either of
which may fail (`QueryFails`), the render token (`get` decides between the one in hand and a new one),
the browser (`debuggerWebSocketURL`, the tab, the boot of the page, the capture) and `load`'s retry,
once for a whole board or once per tile of the probe's grid. Time passes in ticks; `Limit` holds the timeouts.
The page is external: it shows the board as it is when the page boots.

## Runs

| Run | Instance | Shows |
|---|---|---|
| `pool_safety` | 2 writers of one board and 1 writer of the other namespace under the same id; 2 sockets; seen through the view `WithoutPackets` | `NoSocketLeak`, `OneLiveSocketPerKey`, `WritesOnOwnSocket`, `SpentTokenNotCached` |
| `pool_promise` | 2 writers of one board, 2 sockets, fairness | `DeliveryPromise` (refinement) and `EveryCallReturns` |
| `pool_retry` | as above | violated: `RetryUsesNewSocket` |
| `token_cache` | 2 calls of one user, 1 of another; 3 tokens; lifetimes 1 and 4 around a buffer of 2; 4 s | `FlushedStaysOut`, `TokenOfOwnUser`, `ServedBeforeBuffer`, `FreshTokenNotReplaced` |
| `shutdown` | 2 connections with a request each, fairness | `DbOutlivesListener`, `SignalEndsProcess` |
| `shutdown_drain` | 2 connections with a request each | violated: `DrainedBeforeDbCloses` |
| `jwks` | 2 requests, 6 tokens, one not valid yet at first; 3 documents: a key appears, another becomes malformed, a kid is published twice; lifetime 2, timeout 1, leeway 1, 4 ticks | `WithdrawnKeyRunsOut`, `AcceptedIsValid`, `UnknownKeyIsNew` |
| `batch` | seven inputs: joins by name, by id and mixed, a repeated column name, a table that does not exist, four that are refused; 2 surplus copies | `EveryItemAccounted`, `InlineColumnsInListedTable`, `CreatedIsStored`, `RelationsJoinNamedEnds` |
| `edits` | 27 pairs of calls that touch the same rows; 1 step of others | `AnswerTellsStored`, `ChangesOnlyWhatIsNamed`, `SoundAreasStaySound`, `AreaEnclosesMembers`, `MovesRigidly`, `ConnectorsWellFormed` |
| `lifecycle` | 14 pairs of calls, 4 roles; 1 step of others; fairness | `AnswerTellsEffect`, `DeletedAsConfirmed`, `MismatchOnlyToEditors`, `RefusalIsTrue`, `EveryCallAnswers` |
| `reads` | 13 calls; nested, damaged and cyclic folders; 2 steps of others | `EveryFolderShown`, `ReadsWhatIsThere` |
| `images` | 3 places, 2 tiles at most, tokens of 1 or 4 ticks, a margin of 2; 1 step of others; fairness | `ImagesTellTheBoard`, `NoTokenRunsOut`, `EveryCallAnswers` |

`pool_safety`, `edits`, `lifecycle`, `reads` and `images` also check their `TypeOK`; type correctness is
proved for every module that runs.

**Bounds.** Two writers of one key are enough for a leader and a follower, an eviction under a
reader and a follower that outlives its flight; the third, in the other namespace, is what an
aliased key would confuse. Two sockets allow a dial, an eviction and a redial; when no socket
is left `CreateFails` is what a dial can still do, so the bound removes behaviours and adds
none. Interchangeable calls, sockets and tokens are symmetric in the safety runs; the runs
with liveness or refinement use no symmetry. In `token_cache` a second call sees what the first cached, two
calls race into a flight, and four seconds pass both lifetimes. In `jwks` four ticks hold a fetch, a cache
lifetime and a late store, and a key that is withdrawn after it was cached. In `batch` two tables with a column of
the same name tell the index by table from an index by column, and two surplus copies let one
item be stored twice and another late; every error is possible at every write. `WithoutPackets` hides
`packet` and `outcome` from `pool_safety`: the invariants do not mention them, and a step they
enable (`AckArrives`) has a twin (`EmitFails`) that leads to the same place; `TypeCorrect` proves
the types of both.

The pairs of `edits` and `lifecycle` set tools against each other that read what the other writes: two
additions to one area, a move under a membership change, both ends of a connector, a rename against a
delete of the same row, a folder's delete against the refiling of a board out of it. Each tool occurs
with a request that goes through, and most with one that is refused. `MaxMembers` and `MaxPositions` are 2 for 500, so that the limits are
met. One step of others falls between any two steps of the calls, and more would be what the second call already
is. In `reads` two steps let a row come or move and go within one call. In `images` two tiles and three places let the board outgrow the tiles,
and a token of 4 runs down to the margin of 2 while a page waits for its tab.

**Fairness.** `SocketPool!FairSpec` is weak fairness of each call's steps: goroutines are scheduled, and
every wait of a call is bounded in the code (the connect timer, the ack timer, the token
client's timeout), the singleflight wait by its leader. Nothing is assumed of sockets, the network or the server.
`Shutdown!ProcessFairSpec` is weak fairness of the two goroutines: the handlers may hang.
`LifecycleTools!FairSpec` is weak fairness of each call: `GiveUp` is always possible to a call that
waits, since the HTTP client has a timeout, and nothing is assumed of the application.
`BoardImages!FairSpec` is weak fairness of every step but the opening of a tab, the only wait that
the code gives no timeout of its own; `EveryCallAnswers` excepts exactly that.

**Deadlock** is not checked: calls end, clocks stop at their bound and the process exits.

**Violated claims.** Two runs check what a comment of the code says and find a counterexample:

- `pool_retry`: the "one reconnect" can join a flight that already holds the socket that
  has just failed, and the retry goes to the dead socket.
- `shutdown_drain`: `ListenAndServe` returns when `Shutdown` begins, so main's deferred
  `db.Close` runs while handlers are being drained.

**Observations** met while modelling. The models contain each of these, as the code has it, and the properties
are worded so as to allow for it; no run refutes a claim about them:

- SESSION_EXPIRED is also returned for a retry that merely timed out on a live socket
  (`internal/socket/manager.go:374`; the comment at 339-341 keeps it for a failed reconnect).
- A cached token may have less than 30 s left: its TTL counts from the arrival of the answer and is
  at least one second however short the token lives (`internal/collabtoken/collabtoken.go:109`).
- The inline columns of a table that fails are listed neither as created nor as failed
  (`internal/tools/batch.go:298`), though the tool says that each item is attempted.
- A folder that hangs off a cycle may be emitted twice by the sweep, if it comes before the cycle's
  folders in the order of names (`internal/data/folder.go:285`); `EveryFolderShown` asks for a single place only where no folder
  is on a cycle.
- A `get_schema_summary` whose queries fall around another user's change can name a column by
  its id: the two reads are in no transaction.
- A membership tool writes back the list it read: if that list had a repeated member or one of another board, and someone
  repairs it meanwhile, the fault returns. `SoundAreasStaySound` is therefore said of lists that were read sound.
- `create_area` stores the member list as the caller gave it; `update_canvas_connector` does not look its new
  ends up; `bulk_update_positions` asks for access to the board and leaves the role to the server;
  `AssertRelationshipEndpointsValid` is called by no tool; `delete_table_reference` compares
  the name before any role is checked.
- A whiteboard or canvas board that names a folder which was not read, one of another project or one created after the folders were
  read, is in no place of the project tree (`internal/data/folder.go:206`): unlike a folder, it does not fall back to the root.
  The application files no board so, and `Hangs` says it; `ReadsWhatIsThere` asks only for boards whose row did not change.
- Writes computed from reads overwrite what others did meanwhile: `update_table` puts a table back on the axis that was not named
  (`internal/tools/table.go:224`), `move_area` puts back a table moved meanwhile (`area.go:356`), of two concurrent additions to an area one is lost
  (`area.go:217`), and so is one of two new ends of a connector (`canvas_connector.go:511`). `ChangesOnlyWhatIsNamed` and `MovesRigidly` are
  said of rows that are stored as they were read; `SoundAreasStaySound`, `AreaEnclosesMembers` and `ConnectorsWellFormed` of what is left.
- A rename between the comparison of names and the delete deletes a thing under its old name (`internal/tools/project.go:204`):
  for `DeletedAsConfirmed` a name that the thing had at some time of the call is confirmed.
- A flight fails all its calls when its leader's request is cancelled (`internal/socket/manager.go:260`): `EveryCallReturns` asks that they return.
  A `session_expired` that arrives before its handler is registered is lost (`manager.go:270`), and the socket is pooled: it is no leak, and no
  property speaks of it.
- A request on a connection that was open before the listener closed may begin after it, and find the database closed: `DbOutlivesListener`
  is about the listener only.
- The opening of a browser tab has no timeout of its own (`internal/render/chrome.go:84`).
- A board that is emptied between the probe and its tiles ends in INTERNAL_ERROR.

## Proofs

| Module | Theorem | Property |
|---|---|---|
| `SocketPoolProofs` | `TypeCorrect`, `NeverLeaks`, `NeverTwoLiveSockets`, `WritersNeverShareSockets`, `SpentTokensStayOut` | `TypeOK`, `NoSocketLeak`, `OneLiveSocketPerKey`, `WritesOnOwnSocket`, `SpentTokenNotCached` |
| `SocketPoolProofs` | `PoolDelivers` | `DeliveryPromise`: the pool implements `WriteDelivery` |
| `CollabTokenProofs` | `TypeCorrect`, `FlushedTokensStayOut`, `TokensAreNotMixed`, `FreshTokensStay`, `ServedInTime` | `TypeOK`, `FlushedStaysOut`, `TokenOfOwnUser`, `FreshTokenNotReplaced`, `ServedBeforeBuffer` |
| `SocketPoolProofs` (last section) | `EndTypeCorrect`, `DbClosesLast` | of `Shutdown`: `ProcessTypeOK`, `DbOutlivesListener` |
| `JwksCacheProofs` | `TypeCorrect`, `WithdrawnKeysRunOut`, `OnlyValidIsAccepted`, `UnknownKeysAreNew` | `TypeOK`, `WithdrawnKeyRunsOut`, `AcceptedIsValid`, `UnknownKeyIsNew` |
| `BatchUpdateProofs` | `TypeCorrect`, `ColumnsFollowTheirTable`, `ReportedIsStored`, `RelationsJoinWhatTheyName`, `EveryItemIsAccounted` | `TypeOK`, `InlineColumnsInListedTable`, `CreatedIsStored`, `RelationsJoinNamedEnds`, `EveryItemAccounted` |
| `EditToolsProofs` | `EditTypes`, `AnswersTellTheTruth`, `ConnectorsStayWellFormed` | `TypeOK`, `AnswerTellsStored`, `ConnectorsWellFormed` |
| `EditToolsProofs` | `UpdatesChangeWhatIsNamed`, `MovesAreRigid`, `AreasEnclose`, `AreasStaySound` | `ChangesOnlyWhatIsNamed`, `MovesRigidly`, `AreaEnclosesMembers`, `SoundAreasStaySound` |
| `LifecycleProofs` | `LifecycleTypes`, `AnswersTellTheTruth`, `DeletesAreConfirmed`, `MismatchesAreForEditors`, `RefusalsAreTrue` | `TypeOK`, `AnswerTellsEffect`, `DeletedAsConfirmed`, `MismatchOnlyToEditors`, `RefusalIsTrue` |
| `BoardImagesProofs` | `ImageCallTypes`, `TokensLast`, `ImagesAreOfTheBoard` | `TypeOK`, `NoTokenRunsOut`, `ImagesTellTheBoard` |
| `BoardReadsProofs` | `ReadTypes`, `FoldersAreShown`, `ResultsAreTrue` | `TypeOK`, `EveryFolderShown`, `ReadsWhatIsThere` |

They hold for any calls, sockets, users, inputs, requests, boards and times, from the named assumptions on the constants:

- pool: `CallKeyAssumption`, `NoneAssumption`; tokens: `GetUserAssumption`, `TimeAssumption` (the request's
  timeout is below the buffer, 5 s against 30 s), `NoneAssumption`; keys: `TimesAssumption`, `DocumentsAssumption`;
- batches: `BatchAssumption` (the shape of the inputs), `NoneAssumption`, `MaxSurplusAssumption`;
- `LifecycleTools`: `ScenarioAssumption` (rows have a kind and a project, tools are tools, a create names the project
  its input struct requires, no request names a row yet to be created), `SpareAssumption`, `EmptyAssumption`, `BoundAssumption`;
- `EditTools`: `ScenarioAssumption` (requests have the fields and types of their input structs; the rows one begins with
  are finitely many, typed and sound), `NamesAssumption` (no membership request and no stored member list names an id that
  the server has not yet drawn), `BoundsAssumption`, `IdAssumption`;
- `BoardImages`: `ImagesAssumption`; a board holds finitely many places;
- `BoardReads`: `ScenarioAssumption` (the rows one begins with are finitely many, typed, and each hangs on a row that is there),
  `ReadsAssumption` (`None` is no id and no number, `Elsewhere` no id; what others create has the type of a row).

Coordinates and sizes are integers where the code has floats: the sums of `MovesRigidly` and `AreaEnclosesMembers` are
exact, and the rounding of floating-point addition is not modelled.

None of the invariants but the types is inductive alone. The arguments:

- **Pool.** `IInv` adds that the leader of a flight is the one the flight names
  (`LeadersOwnFlights`: one dial per key at a time), that calls and the pool only hold sockets dialled
  for their key (`CallsHoldOwnSockets`, `PoolHoldsOwnSockets`), and that nothing live is pooled while a dial is in progress
  (`NoneLiveWhileDialling`). With these a live socket is the pooled one or the dialler's, and
  never both exist, which is `NeverTwoLiveSockets`. The actions that close sockets go through
  `ClosingKeepsSockets` and `RemovalCloses`; that distinct keys have distinct flights is `DialKeyInjective`.
- **Delivery.** `PacketsInOrder`: nothing is on the wire in an attempt not begun, and a call that returned
  CONNECTION_ERROR never began a second. Each step of the pool then maps to a step of
  `WriteDelivery` or a stutter; a handled packet adds one to the count (`PacketsCounted`).
- **Collaboration tokens.** The invariant follows a token from its minting to the cache: the call that
  fetched it alone has it (`TokensInHand`), so no flush can have seen it; a request is led by one call per user and
  only while the cache has nothing to serve (`LeadersLookedAgain`); what is cached expires in time (`EntriesExpireInTime`).
- **Shutdown.** `PastListener`: both goroutines reach their `db.Close` only past the step that closes the listener.
- **Signing keys.** The invariant dates what is cached: a key that is there was published, and a kid
  that is not was free, no longer than a fetch before the stored time (`CacheIsRecent`); and what a request carries into its
  next step it has from a cache or document of such an age (`CallsAreRecent`).
- **Batches.** `ColumnInv` says `InlineColumnsInListedTable` also of copies still on the wire and of the name
  index while a table's columns are created; lists only grow (`StaysListed`). `JoinInv` adds that the whole index
  holds listed ids, so what a name resolves to is what the result lists under it. `AccountInv` says `EveryItemAccounted`
  of a moment inside the loops: what the handler has come past (`Past`) is listed once (`ListedOnce`), the inline
  columns of a table not created are not, and nothing ahead of it is (`ListedPast`); the count follows at the end.
- **Editing tools.** `AnswerInv`: a call has sent a prefix of its list of writes and has an answer to each but the one it waits
  for (`Progress`), and an answer was one that the server gave (`Account`). `SendInv` adds that no row and no list holds a
  connector without its form. That follows a call from its first query: what it has read is of the kinds its tool asks for
  (`ReadsFit`), so what it then sends is a whole set of props (`WritesFit`, by `BuiltProps` and `MergedProps`); a
  row's kind and board never change, so a read that is stale still fits.
- **What a stored write changes.** `EditInv` adds that places and sizes are numbers, in the rows (`RowsTyped`) and in what was read, and that each read
  answers its query (`Knows`; a call's later queries depend on its earlier reads, which do not change:
  `SameSteps`). `ChangesOnlyWhatIsNamed` follows tool by tool. `MovesRigidly` needs that a move of each member, repeated
  or not, adds the same displacement to the same read place. `AreaEnclosesMembers` needs that the bounds computed over a finite set
  of members are its extremes, by induction on the size of the set (`SetInduction`).
- **Member lists.** `NamesInv` adds that no read or stored list, and no request that is to change one, names an id that the server
  has not drawn. So a table that a list names either stands, of the kind and board as read (`KeepsKinds`, `FateOfRows`), or
  will never stand again under that id; and a write of a list that was read sound, however late, stores a sound one (`AreaStaysSound`).
- **Lifecycle tools.** `EffectInv`: the application acts exactly when its status becomes 200, which happens once
  per request, and no other status is answered as success (`OnlySuccessIsOk`, from the shape of every tool's stages,
  `ToolsEndWithRoute`). `ConfirmInv`: a delete past its last stage but one has seen its row under the
  confirmed name, because that stage is always the comparison (`DeletesHaveShape`, `ComparedIsListed`), and what was seen stays seen.
  `GateInv`: past its gate a delete's caller was entitled, or the row has gone; rows never change kind or project and no id
  comes back (`PerformedPlaces`, `MeddledPlaces`), so the project that was resolved is the row's at the gate and a row that is
  compared is the one that the gate was about.
- **Refusals.** `ToolShape` says once for all sixteen tools which stages come before the request and that they fit what is
  requested: a gate asks for the app's own role, a comparison is of a delete. `StageInv` places a call in its stages and ties
  what it resolved to the row's project. `RefusalInv` then adds that an answer, or a status still on its way, was right of a
  state that the call saw (`Right`); what was seen is never taken back.
- **Images.** `ImagesInv`: a page tells the board as it is, unless it moved since the page booted (`PageIsTrue`), the grid is that of the
  board when it was probed (`GridIsTrue`), and the images taken so far are of the first places of that grid, in order
  (`ImagesAreTrue`). That a board's places can be listed in order at all is by induction on its size.
- **Reads.** `BaseInv`: rows are finitely many and each hangs on one that is there, through every creation, refiling and
  delete; that a delete takes all that needs its row is `GoneClosed`, from the recursion of `Gone` unfolded (`Iteration`). `Past` is
  about the histories: an id never changes its kind, only folders and boards are ever refiled, and what a whole row needs has stood
  as long. `Readings` ties each query's result to them: every row of it was there, none that was whole is missing, and a count lies
  between the two; the delicate case is a query over an earlier query's ids (`ReadingsQuery`), whose rows stay due only because
  tables are read before columns and relationships. From these, tool by tool (`ListsShow`, `TreeShows`, `BoardShows`, `SummaryShows`,
  `DDLShows`, `CanvasShows`), what is shown was there and what is due is shown. That the elements kept of a canvas are the
  lowest needs that such a choice exists, by induction on the limit (`LowestExists`).
- **The folder tree.** `BuildIsPaths`: the walk below a folder ends and gives exactly the paths without an earlier repetition.
  Each turn of the sweep that finds a folder left marks at least one more (`SweepGrows`), so after as many turns as folders none
  is left (`SweepShowsAll`). Where no folder is on a cycle every one is reached from a root (`RootsReachAll`), along one path
  only (`ReachedOneWay`), and the sweep adds nothing.
- **Render tokens.** `Margin`: a token on its way to a page has what the margin leaves after the time since it
  was handed out; so no page boots with a token that has run out, and no second attempt is made.

Attempts at these proofs changed three properties. `MovesRigidly` said that every listed member moves; a
member on another board does not, and the code never looks at its board. `AreaEnclosesMembers` is said of the
placed tables that a query finds. `RefusalIsTrue` once let VALIDATION_ERROR pass for nearly any request; it now names what can be wrong with one
(`Malformed`).

Every invariant and safety action property that a passing run checks is proved, and so is the refinement. Only model-checked: the
liveness properties (`EveryCallReturns`, `SignalEndsProcess`, both `EveryCallAnswers`), which need fairness; the two violated claims;
and that `build` and `markEmitted` are the recursion of the code (`PathsAreTheCalls`). Induction is over natural numbers and finite
sets (well-founded induction on the size); induction that follows a recursive definition is out of the prover's reach, so member
lists are filtered by a definition without recursion (`ListWithout`), proved to keep the other entries in their order, and the
recursive functions of `BoardReads` are over an interval of numbers.

## Plan

1. (done) The pool, the token caches, the shutdown, with their proofs and the refinement of `WriteDelivery`.
2. (done) Every tool that writes: `BatchUpdate`, `EditTools`, `LifecycleTools`; every tool that reads: `BoardReads`; `BoardImages`.
3. (done) The proofs of every safety property of these modules.
4. Left: the composition of `CollabToken` with the pool in place of the pool's own tokens.

## Not modelled

The text of summaries and DDL, the limits of single fields, the static tools, `internal/positioning` (no tool
calls it), the registration of tools, the reading of the environment, the stub verifier for
development, pixels and themes, and the TypeScript predecessor under `src/src`. Signature cryptography is the JWT
library's. What the application does with a request is external: its routes, its collaboration server
and its browser page are modelled from how this program uses them.
