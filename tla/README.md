# A verification project for EasyRPG Player with multiplayer

This directory holds TLA+ modules about the C++ program in `src/`, TLC
configurations that check them on small instances, and proofs checked by TLAPS.
The program is EasyRPG Player, an interpreter for games made with RPG Maker
2000 and 2003, with a multiplayer part added in `src/src/multiplayer`.
Paths below are relative to `src/src`.

Run, in this directory:

    tlc -workers 2 -config MapUpdate.cfg MCMapUpdate
    tlapm MapUpdateProofs.tla

`PROJECT.json` lists the components, the runs, the definitions with the lines
they model (`map`), a faulty variant of the code for each property (`mutants`),
the disagreements found (`findings`), the hazards and the theorems.

## 1. The system

The game is one thread that runs a loop: `Player::MainLoop` reads the input,
calls `Scene::MainFunction` of the scene on top once per frame and draws. Nearly
all difficulty comes from two sources.

* **Suspension.** A frame of the map is a deep nest of loops (common events, map
  events, the foreground interpreter, a teleport in the middle of it). RPG Maker
  blocks in the middle of such a frame for a transition, an inn, a file. On the
  web, and for every transition, the Player may not block: it leaves all loops,
  remembers where it was (`AsyncOp`, `MapUpdateAsyncContext`, `Scene::AsyncNext`)
  and re-enters them frames later, in a world that has gone on.
* **Other actors.** The WebSocket thread of the multiplayer part pushes packets
  while the game thread pops them; other players move when they like and their
  packets arrive late; downloads end in any order; the player closes the window
  at any moment.

### Inventory

| Component | Source | State | Operations | Depends on |
| --- | --- | --- | --- | --- |
| Map update | `game_map.cpp` 506-548, 954-1173; `game_event.cpp` 602-633; `game_commonevent.cpp`; `scene_map.cpp` | the map, its events, `MapUpdateAsyncContext` | `Update`, `UpdateCommonEvents`, `UpdateMapEvents`, `UpdateMessage`, `UpdateForegroundEvents`, `MakeWay` | interpreter, scene map |
| Interpreter | `game_interpreter.cpp`, `game_interpreter_map.cpp` | call stack, loop count, wait, message and async flags | `Update`, `Push`, `Clear`, about 200 commands | map, messages, scenes, files |
| Events | `game_event.cpp`, `game_commonevent.cpp` | page, trigger, paused and waiting flags, own interpreter | `RefreshPage`, `Update`, `ScheduleForegroundExecution` | switches, interpreter |
| Scene stack | `scene.cpp`, `player.cpp`, all `scene_*.cpp` | `instances`, `push_pop_operation`, delay, continuation, exit and reset flags | `Push`, `Pop`, `PopUntil`, `MainFunction`, `ReturnToTitleScene` | transition, files |
| Map scene | `scene_map.cpp` | continuation, teleport parameters, screen erased | `Start2`, `PreUpdate`, `Update`, `FinishPendingTeleport`, `OnAsyncSuspend` | map update, scene stack |
| Connection | `multiplayer/connection.cpp` | a ring of 32 packets, two cursors, a size | `onMessageAsync` (network thread), `ConnectionUpdate` (game thread) | remote characters |
| Remote characters | `multiplayer/multiplayercharacter.cpp`, `datapacketshandler.cpp` | a character per id with a queue of 8 positions | packet handlers, `UpdateCharacters`, `ClearCharacters` | characters, player |
| Chat | `multiplayer/chat.cpp` | text, caret, log, scroll | key and text input, `PushMessage` | connection |
| Files on demand | `async_handler.cpp` | requests, their state and listeners | `RequestFile`, `Bind`, `Start`, `DownloadDone`, `ClearRequests` | used by all that show or play something |
| Characters, player, vehicles | `game_character.cpp`, `game_player.cpp`, `game_vehicle.cpp` | position, remaining step, move route, vehicle | `Move`, `Jump`, `UpdateMoveRoute`, `GetOnVehicle` | map update, connection |
| Messages | `game_message.cpp`, `window_message.cpp` | pending message, window state | `SetPendingMessage`, `Update` | interpreter |
| Pictures, screen, transition | `game_pictures.cpp`, `game_screen.cpp`, `transition.cpp` | values and frames left | `Show`, `Move`, `Erase`, `Update` | files |
| Battle | `scene_battle*.cpp`, `game_battle*.cpp` | turn order, action queue, battle event pages | state machines of the two engines | interpreter, scene stack |
| Party, actors, variables | `game_party.cpp`, `game_actor.cpp`, `game_variables.cpp` | counts, timers, attributes | clamped arithmetic | commands |
| Drawing, cache, audio, input, files, text | the rest | | | |

How they interact in one frame: `MainFunction` (scene stack) waits while a
transition, a delay or an important file is pending; then it calls the
continuation or `Scene_Map::Update`, which runs `Game_Map::Update` (map update),
which runs the interpreters one after another; a command may start an `AsyncOp`,
which unwinds all of this to `Scene_Map::OnAsyncSuspend`, request a scene, which
the map scene pushes when the frame is over, or ask for files, whose handlers
are called back. In between, `MultiplayerUpdate` handles what has arrived.

### What makes each component correct

* Map update: a frame, however often it is suspended, runs each event and each
  of its other units once and in order; what was suspended is found again; what
  was started is performed; a frame ends.
* Interpreter: budgets, yields, waits, messages and page changes only interrupt
  a script; none of its commands is repeated or lost.
* Scene stack: a scene is started once and entered before it is updated; no two
  scenes of a type; the way out and the way to the title always open up.
* Connection: the size is the number of packets waiting, and they are handled
  once, whole and in order.
* Remote characters: the character ends up where its player stands, and shows
  his positions in order.
* Files: a handler that is still wanted is called once, and a client never hears of
  a file older than the last it asked for.
* Foreground events: who was triggered runs, turns back and is released, on this
  map and not on the next; nothing requested of the map scene is overlooked.
* Vehicles: the fields of the player that say where he is, in what, how fast and
  to which music agree at every point of a frame.
* Battle: everybody present acts once a round, on a target that is there; the battle
  is left once, with one outcome.
* Messages: a text is shown whole, page by page as it is read; an answer goes to
  who asked; who waits for a message goes on.

## 2. The modules

    MapFrame <--refines-- MapUpdate <-- MapUpdateProofs, MCMapUpdate
    Script <--refines-- Interpreter <-- InterpreterProofs, MCInterpreter
    ForegroundEvents <-- SceneMap <-- SceneMapProofs, MCSceneMap
    SceneStack <-- SceneStackProofs     Vehicles <-- VehiclesProofs, MCVehicles
    RemoteCharacters, PacketQueue, AsyncFiles <-- MultiplayerProofs
    Messages <-- MessagesProofs, MCMessages
    Rounds <--refines-- Battle <-- BattleProofs, MCBattle

All modules write the state after the names of the source; variables that the
code does not have are marked so in their declaration and only observe.

### MapFrame and MapUpdate

`MapFrame` is what a frame promises: a list of units (common events, map events,
party and vehicles, message, timers, foreground interpreter, parallax), run once
each in order, where the map may be replaced between two of them.

`MapUpdate` is `Game_Map::Update`. `pc` stands for the line it is at, `k` for the
position in the event loop, `resume` for `resume_ce` or `resume_ev`, `actx` and
`op` for the `MapUpdateAsyncContext`. `EnterCommon`, `SkipCommon`, `RunCommon` and
`DoneCommon` are `UpdateCommonEvents`: a resumed frame skips all events up to the
one suspended. The map events are alike, then `World`, `Message`, `Timers`,
`Foreground` and `RunForeground` (the drain loop of line 1121) and `Parallax`. The
three kinds of frame are the three entries of `Scene_Map`: `PreUpdate`, `Update` and
the foreground events after a teleport. `PerformWait`, `PerformTeleport`,
`PerformLoad` and `PerformExit` are `OnAsyncSuspend` and its continuations.

What an interpreter does is data here: it uses up some of the loop budget
(`Quiet`, `Works`) and may end with an AsyncOp. A moving character that pushes an
event aside (`PushAside`) is in the units that move characters: `MakeWay` updates the
event and ignores the AsyncOp it returns. Such an operation is owed and never
performed; `drops` counts them.

### Script and Interpreter

`Script` is the promise: a call stack, the commands in their order, no frames and
no budgets. `Interpreter` is the loop of `Game_Interpreter::Update`, one action
per iteration, in the order of its tests: limit, requested scene, AsyncOp,
message, wait, page change, end of the frame, command. Each command stands for
all that treat the loop alike (the table is in `Script`). The refinement mapping
counts a command that yields to be repeated as not executed. The event whose
script it is always shows some page; which one depends on a switch.
`Intrude` is every other event of the frame.

### PacketQueue

One action per access to a shared variable: `memcpy` begins and ends
(`NetCopy`, `NetCopied`), the increment loads and stores (`NetLoad`, `NetStore`), so
does the clamp, so does the decrement of the game thread. `packetQueueSize` is a
plain `unsigned`, so this is a data race; both orders a compiler may choose
(re-reading the variable or keeping it in a register) are steps of the model.
`onMessage` reads the packet in the ring, in two steps, so that it may be
overwritten in between. `raced` and `overrun` say whether an update was lost or a
packet that waits was overwritten.

### RemoteCharacters

The map is a corridor. A remote player walks (reported), jumps (reported) or is
moved otherwise (not reported, `game_player.cpp:677` is the only sender); the
server relays in order. `Handle` takes the next packet; `UpdateCharacters` is the
frame: move on, and take the next position when at rest. The queue gives up its
oldest entry. The server is not in the repository; `Report` is what `onMessage`
expects of it.

### AsyncFiles

Requests with their listeners, clients that bind, rebind and drop, downloads
that end well or badly in any order, and `ClearRequests` when the language changes.
`DownloadDone` puts its file on `walk`; `CallNext` looks at one listener and calls it if
its binding has not expired, `CallsEnd` clears the listeners. While a handler runs
(`inHandler`) the clients go on: they drop bindings and ask for other files, one that is
there already being answered in the midst of the first walk, as `OnBgmReady` of
`Game_System` asks for the file a link names. `owner` observes who made a binding. `web` selects between the build that
downloads and the one in which `Start` answers at once. A download that comes back
to a destroyed request (`StrayDownload`) touches memory that is gone; the model lets
it do nothing or answer any request.

### SceneStack

`instances` is the stack; a scene has its type, whether it was started, a delay, a
continuation and, for the title, `restart_title_cache`. `Await`, `Resume`, `Enter`,
`Updating` and `Shutdown` are the phases of `MainFunction`, with its static `init`
and the global `push_pop_operation`. The `Update...` actions are what each scene
does to the stack. `ExitAll` and `Reset` are the first lines of `Player::Update`.
A release build is modelled: an `assert` does not stop the program, so what an
assertion states can be checked.

### ForegroundEvents and SceneMap

`ForegroundEvents` is how an event comes to run: `ev` holds for each event of the map
its page, whether it waits for the foreground, is paused, faces the player, was
erased; `stack` is the foreground interpreter with the event id of each frame.
`UpdateEvent` is `Game_Event::Update`: an event on a route may walk into the player and
be triggered by it although it is paused, since the route asks for no flag. The `Player...`
actions are `Game_Player::Update` with its triggers; a step of the player, on his own or
on a route (`Walks`), may end the game on a terrain that hurts. `Foreground`, `Start` and `DrainDone` are
`UpdateForegroundEvents`, and the actions after `Stops` are iterations of the
interpreter. What the commands of an event are is left open: a frame executes any
number of them, of those that matter to somebody who waits (switches, calls,
erasure, scenes, teleports, a vehicle that takes the party to another map).

`SceneMap` adds the map scene around it: who calls the update (`stage`), the start
of the map, the teleport with its three continuations and the parameters they
capture (`tp`), the scenes that are opened between frames, and loading.

### Vehicles

A map is a strip of cells of land, sea or rock. `at`, `dir`, `moving` are the
party; `vehicle`, `aboard`, `boarding`, `unboarding`, `flying`, `speed` and
`preboardSpeed` are the fields of `Game_Player` and its save data, `berth`, `up`,
`down`, `airborne` those of the vehicles, `song` and `beforeSong` the music. A frame is
the parallel events, the two parts of `Game_Player::Update`, the foreground event, a
teleport with the pre-update of the new map and a scene. `astray` observes that an
event moved the party or had it board in the middle of a boarding step
(`game_player.cpp:539`): `GetOnVehicle` then sees a party that is neither aboard nor on
foot, and completes a boarding without a vehicle, which dereferences a null
pointer. The model says so (`pc = "error"`) and the properties exempt it by name.
`MaxCommands` bounds the commands of events and the moves of ships in the whole
behaviour: they interfere at any moment, and cease in the end.

### Rounds and Battle

`Rounds` is the promise of a battle: rounds in which whoever is present acts once,
turns that end, one outcome, spoils before a victory. `Battle` is
`Scene_Battle_Rpg2k`: `state`, `previous_state` and `substate` are its states
(`previous_state` is kept only where it is read), `battle_actions` and `algo` the queue
and the algorithms, `turn` the action under way. The states of the menu
(`SelectOption` to `SelectTarget`) are actions of the player; `PreAction` to `Post` are the
steps of `ProcessBattleAction`; pages of the troop run in the battle interpreter
(`page`, `left`, `executed`). A command of a page takes an actor out or in, hides or
shows a monster, flees, ends the battle or the game; pages do not change hit points
here.

A battler is well or in one condition (`cond`): asleep, turned to stone (asleep for good,
which loses a battle like death does), confused, provoked, dead. Restrictions are looked at
when an action is chosen (`Restricted`) and again when the turn begins (`Prepared`);
`ActionExecute` inflicts or heals a condition, and a change of it forgets the action that
was given (`Becomes`), while `turn` keeps the one under way. Weapons that strike a whole
side replace the single target of a confused or provoked actor too (`StrikesAll`).
`Orders` is every order in which the sort of `CreateExecutionOrder` can leave the queue: two
battlers may change places if what chance adds to their agility (up to a quarter and three)
can make up for the difference, and attacks that are preemptive come first.

`EndBattle` pops whatever is on top, as a release build does: a game over that a page of the
same frame has pushed, if the battle is ended by a timer. The battle then goes on and is ended
again. `MaxStrays` bounds such calls. `Rounds` does not count them: to it the battle is over
when it is left. `able` are in `Rounds` those present that are not turned to stone; a battle
that has none of the party left is lost.

### Messages

One message window, `window`, with its `text` from `text_index` on, `message`, what
`pending_message` says, and the interpreters that share it. A frame runs the parallel
interpreters in order, then `Window_Message::Update` (`Passes`, `NoKey`, `Confirms`,
`Chooses`, `Enters` or `Types`) with its loop over the tokens (`DrawGlyph`,
`MessageCode`, `NewLine`, `PageBreak`, `FinishMessageProcessing`), then the foreground. An inn
suspends the frame after the window and `UpdateInn` goes on with the window alone; a free
inn asks nothing and suspends the frame where the event stands (`StaysForFree`), so that `inn`
says where the frame goes on. The
messages carry what they are built from: lines, choices, a number; `TextOf` is how
`StartMessageProcessing` builds the text, and the property compares what was drawn
with the lines, not with the text. `Sayable` is what `PendingMessage` and the commands let
into a message: no control characters in a line, a page break at its end only, two choices
for an inn, and a cancel that leads to a choice or to its own branch.

The model shows three ways in which a message is lost or an answer goes wrong; the
property names them and excludes everything else. (a) The inn of a parallel event
takes the window (the code says so, `game_interpreter_map.cpp:364`). (b) A raise of
level with a message, from a parallel event, asks `CanShowMessage(true)` as if it were
the foreground (`game_interpreter.cpp:1663`, against `game_message.h`: "foreground true
if this is in the foreground context"). As `close_started_this_frame` is reset only
by the next update of the window, after the parallel events of the next frame, the
raise replaces a message that the foreground has begun in between, before a glyph of
it is drawn; `CommandChangeExp` does so even with nothing to say, because it does not
test `pm.IsActive()` as `CommandChangeLevel` does. (c) The continuation of a question
belongs to an interpreter, not to its page. If the page changes while the player
chooses, the answer goes to the frame of the new page, or, if that has none yet,
`GetFrame` asserts (`pc = "crashed"`).

## 3. The runs

| Run | Instance | What it shows |
| --- | --- | --- |
| `map_update` | three maps whose events overlap partly, one without any; two common events; budget 2; one load per frame | the frame implements `MapFrame`; resumption finds its place; operations are performed unless they were started by an event that made way; the budget is not renewed; every frame ends |
| `packet_queue` | ring of 2, words of 16, 4 packets | counter and order are exact until overrun or a lost update; the drain returns |
| `remote_characters` | one player, 3 tiles, queue of 2, steps of 2 frames, 5 acts | convergence, order and rest |
| `interpreter` | scripts with every kind of command, main and parallel, budget 4, 5 intrusions | the loop implements `Script`; one command once a scene is requested; `Update` returns; no script is held up for ever |
| `interpreter_repeat` (violation) | a script that asks for a picture and calls itself, with intruders | a repeated command is lost if a scene is requested (finding 1) |
| `async_files` | 2 files, 2 clients, 3 bindings | one-shot, also when handlers ask for files; the newest binding wins; one answer per file; every client answered |
| `scene_stack` | all four ways to start, stacks of up to 7 scenes | starting, entering, duplicate types, fresh games, exit and reset |
| `scene_map` | two maps that share an event id, events with two pages and all triggers, a common event, calls to depth 2 | flags of events and the stack agree, nothing requested is overlooked, the foreground comes back and serves who waits |
| `vehicles` | an island with a boat and the airship and a cape, 3 commands of events in all | the party's fields agree, the music, nobody stranded, the foreground released |
| `battle` | two actors, a monster and one in ambush, one page, each kind of action; of two of them an attack kills, one is turned to stone, one confused | queue and pages in order, the battle left once, `Rounds`, every round ends |
| `battle_target` (violation) | the same against monsters that know nothing but skills | a skill without a target (finding 2) |
| `messages` | a foreground event, a parallel one whose page changes, a parallel one with two inns, one of them free, and raises of level; 3 lines a page | texts whole and read, questions answered, windows taken only as said above; who waits goes on |

The runs take between seconds and about two minutes with two workers. Some invariants bundle what belongs together, each part defined and commented by
itself: `Faithful` (types and convergence), `CalledOnce`, `ValidStack`, `ForegroundOK`,
`Riding`, `Orderly` and `Conversation` each include the type invariant of their module.

### Bounds, and why they are enough

* Map update: with two common events one is before or after the one suspended;
  maps of two, two and no events give an event that exists in both maps, only in
  the new, only in the old, in another position. The loop counts 0, 1, 2 are
  unused, partly used and used up. One load per frame: a second adds nothing
  that the first does not leave behind. One operation dropped (`MaxDrops`) tells the
  frame that owes it from one that owes none. The theorems hold without these bounds.
* Packet queue: overrun needs one packet more than slots and the next overrun
  another; 4 packets go round a ring of 2 twice. The theorems hold for all sizes.
* Remote characters: 3 tiles are a neighbour, a non-neighbour and the own tile;
  5 acts overflow a queue of 2 and leave room to come and go. Characters do not
  interact, so one is enough.
* Interpreter: calls to depth 3 (the limit 2 is reached and, by `ask`, exceeded), a
  budget shorter than the endless script, waits of 2 frames. `Patience` bounds the
  frames that a picture takes.
* Files: 2 clients can share a file or not; 3 bindings allow a rebinding, also from the
  handler of the other file, whose walk is then below another one.
* Scenes: 7 hold the deepest chain of menus (null, game browser, title, map, menu, item
  list, target); `Goes` refuses a deeper stack.
* Map scene: an id that exists on both maps tells an event from its namesake after a
  teleport; two events, one with a page for each position of the switch and one that comes
  and goes with it, and a common one contend for the foreground; `CallDepth` 2 has
  a base frame and a called one; `LoopLimit` 2 meets the limit.
* Vehicles: three cells hold land on both sides of the sea, and the other map begins
  with sea. `Height` 2 lets a frame come between take-off and flight. `MaxCommands`
  is 3 in the whole behaviour: an event can board the party, teleport it and move its
  vehicle, in any order and in the same frame or frames apart.
* Battle: two actors on one side and two monsters on the other let one of a side go
  while the other stays; `Repeats` is 2, a double attack on a target that falls at the
  first. `MaxCommands` is one command per run of a page, and the page may run before
  every turn. `MaxStrays` is one `EndBattle` that misses the battle. `Inflicted` and
  `Agility` give a battler who can be killed, one who can be turned to stone and one who can
  be confused, and an order in which one is always first while the others may change places.
* Messages: 3 lines a page, a talk of 4 (two pages, with both codes), a question that
  fits below its line and one that does not; `OpenFrames` 2 instead of 7: one frame
  boundary lies within the animation; `Waits` {0, 1} are all that the flags tell apart.

### Fairness

* Map update: the game thread goes on and an operation ends (`WF` of each); nobody
  has to begin a frame. Loads are bounded per frame, else a game that loads itself
  again and again would never end one.
* Packet queue: a drain that was entered goes on; nothing is assumed of the network.
* Remote characters: frames go on (`WF` of handling and of updating).
* Interpreter: frames go on; the player closes messages, the scenes that were
  opened are left, pictures arrive (`SF`, because each can be hidden for a while
  by the interpreter's own iterations: these actions are only enabled between
  two updates).
* Map scene: frames and scenes go on; the commands of an event end (`SF` of a plain
  command, of a finished call and of a finished event: a list of commands is finite,
  and an event that loops for ever without end would keep the foreground).
* Vehicles: frames go on (`WF`), and a step that has begun ends (`SF`: it is only a
  matter of frames).
* Battle: `WF` of the steps of the scene; `SF` of the end of a page and of a message,
  both of which are enabled only between other steps. The player may stop choosing.
* Messages: frames go on (`WF` of the next step); the commands of an event come to a
  wait or an end (`SF`, as above); the player answers what he is asked (`SF`: he is
  asked anew in each frame). `SpeakersGoOn` is stated unless pages change for ever,
  since an event that is restarted in each frame never gets to its answer, and for a
  parallel event only as long as the window has not passed to others: the foreground
  may show its next message while the last one closes, a parallel event may not, so
  that it starves while the foreground talks on. This is how RPG_RT works.
* Files: downloads end (`WF`), as the browser guarantees by success or failure.
* Scenes: frames go on (`WF`), files arrive (`SF`: they come while the scene waits).
  `MainLoop` tests for the end of the program after every few frames (`SF(Exit)`).
  `ResetReturns` is stated for runs in which a scene is updated again and again: an
  event that suspends the map in every frame keeps the reset key waiting for ever,
  which is how `player.cpp:321` is written.

### Findings

Places at which the code does not do what a comment, a documentation line or an
assertion of the repository says. Two have runs and are quoted in `PROJECT.json`:

1. `game_interpreter.cpp:372` leaves the loop before a repeated command is set back.
2. `game_battlealgorithm.cpp:892` asserts a target; an actor who was chosen, killed and
   taken out of the party by a page leaves none.

Two are in the model and part of what a passing run states:

3. `game_map.cpp:531` drops the AsyncOp of an event that has to make way, against
   `async_op.h:26`. `LostOnlyToMakeWay` counts these operations and says that they are all
   that is lost.
4. `scene_battle.cpp:302`: a battle timer that runs out in the frame in which a page
   asked for the game over (line 272) calls `EndBattle` while the battle is not on top, against
   its assertion; a release build pops the game over, and the battle is ended and counted
   again later. `LeftOnce` says that such a call does this and nothing else, and that the
   battle is left once all the same.

The others are excluded by name in the property of a passing run that would fail
without the exception:

5. `scene.cpp:179` forgets a change of the stack that `Start` or `Continue` makes:
   `EnteredFirst` allows the scene below one that left itself.
6. `scene_logo.cpp:102` puts the map over a title that was never started, so a new game
   after it keeps the switches of the loaded one: `FreshAfterTitle` leaves out such
   starts and titles that were not entered.
7. A battle test has no title below it, so a game loaded from there
   (`player.cpp:1076`) may be a second scene of its type: `DebugValidate` leaves it out.
8. The boarding of a party that was moved in the middle of it (`Vehicles`, above).
9. The three ways to lose a message or an answer (`Messages`, above).

## 4. The proofs

`MapUpdateProofs` and the ring's part of `MultiplayerProofs` have one lemma per part of the
invariant, with one step per action; the others have one lemma per action or handler. The theorems hold for
every value of the constants that meets the named assumptions, each of which is evaluated by
a run:

* `MapsAssumption`, `CommonAssumption`, `EventsAssumption`: the events of a map are a sequence of
  positive ids, which are distinct, and teleports lead to maps that exist; `LimitAssumption`,
  `DropsAssumption`.
* `CapacityAssumption`, `WordAssumption` (the word is larger than the capacity by more than two),
  `ArrivalsAssumption`, `RemoteAssumption`, `AsyncFilesAssumption`: sizes, and that 0, which
  stands for no binding and no owner, is no client.
* `InterpreterAssumption`, `ScriptsAssumption`: the limits are positive, each page has a script,
  labels and branches are found in their own script, and calls name scripts that exist.
* `VehiclesAssumption`, `HarbourAtSea`: the party starts on land, teleport skills lead to places
  that exist, and the ships of the game's database are at sea, if anywhere.
* `SceneStackAssumption`: the ways to start are those of the command line.
* `MessagesAssumption`: there is a parallel event (one with nothing to say stands for none), a page has a line, and a window takes more than
  one frame to open or close (seven, `window_message.cpp:42`; with one, a parallel event that asks
  for a number alone can make `Conversation` fail, as TLC shows). `SaysAssumption`: what may be said
  is `Sayable`.
* `BattleAssumption`: the party holds up to four different actors, the monsters of the troop are
  different from each other and from the actors, and no actor takes the monsters' action of
  escaping alone; what an attack inflicts is a condition of the model, agilities are natural
  numbers, and the weapons with special properties are the actors'.

**MapUpdateProofs.** `TypeOK` is not inductive: it does not know that a suspended
event is an event of the current map, nor where the loop stands relative to the
last unit run. `IInv` adds
`CtxOK` (a context and its operation belong together, and its id is a common event
or an event of the map, unless the map was replaced),
`KindOK` (which stages belong to which kind of frame, and a frame runs if and only
if the code is not idle),
`CommonOK` and `MapEventsOK` (while resuming, the loop has not passed the event it
looks for; otherwise the unit that `MapFrame` runs next is the one at `k`),
`RestOK` (the same for the stages after the loops) and
`OwedOK` (one operation is owed while the frame is suspended, and none is else,
except for those that events which made way have started). From it follow
`TypesCorrect`, `SuspendedIsResumed` (`NoSkippedResume`), `BudgetKept`
(`BudgetNotRenewed`), `OperationsPerformed` (`LostOnlyToMakeWay`: when a frame is over, the
operations that were started and not performed are those dropped at line 531, and no
other) and `ImplementsFrame`: the initial state maps to an initial
state of `MapFrame`, and each of the actions to a unit run, the beginning or the
end of a frame, a change of the map or a stutter. This is the main result: no
number of events, suspensions, teleports and loads makes a unit of a frame run
twice or out of order.

**MultiplayerProofs, the ring.** `Sound` relates the registers of the two threads to the
shared size, whatever they do to each other; from it `RingTypesCorrect`, in particular
that the unsigned size never wraps below zero. `Exact` counts the packets in
transit (pushed, not yet counted; counted off, not yet taken) and says there was
a free slot; from it `CountIsExact`. `Placed` says which packet lies in which slot,
counted from the pop cursor; from it `HandledInOrder` (`PacketsInOrder`). The last two hold as long as
neither an update was lost nor a packet overwritten, which is the condition the
code should have guaranteed by a lock and a test.

**MultiplayerProofs, the files.** That a handler is called once is not inductive. `Walks` says
that no request is walked twice at a time and that one which is not walked has passed none of
its listeners; `Waiting` that a listener not passed yet has not been called, stands in one list
only, and that the numbers not given out yet belong to nobody; `Owners` that the binding a
client holds is the last it made. `Finishes` is `DownloadDone`, which may begin a walk inside
another one, `NextCalled` and `WalkEnds` are the steps of a walk. From it `HandlersCalledOnce`
(`CalledOnce`), however requests are cleared under downloads on their way and whatever
handlers ask for, and `OnlyNewest` (`NewestWins`): a client that has asked for another file,
perhaps in the handler called just before, does not hear of the former one. `AnswersKept`
(`SameAnswer`) follows from the types.

**MultiplayerProofs, the characters.** `Ordered` says that the serials grow from what a character
shows through its queue to what is on the wire (a jump that overtook the queue
excepted); from it `NeverGoBack` (`InOrder`). `Arriving` says that where a walker stands
is in his last packet or, once that was handled, at the end of his character's queue.
`PushMoveIs` says that giving up the oldest position keeps both. From it, for every
capacity of the queue, `CharactersFaithful` (`Faithful`).

**VehiclesProofs.** Of `Riding`, `OwnMusic` and `NotStranded` none is inductive. `Boarding`
says that a party which has a vehicle without being aboard is in the middle of the step that
boards it, unless a teleport has broken into that step (`astray`, the finding above), and that
a party with the airship is aboard. `Afloat` is `NotStranded` without its exception for the
frame of a teleport: the ships themselves are at sea even then. With both, each action keeps
all three: `FieldsAgree`, `MusicOfItsOwn`, `NobodyStranded`.

**InterpreterProofs.** `Typed` keeps indices within their scripts; `InLoop` says that a
repeated command has been left behind by one and that what was executed is counted;
`MessageKnown` that a parallel script which waits for its own message knows it; `PageCurrent`
that a page that should turn has a refresh pending. From it `UpdateIsBounded` and
`OneCommandOnly` (`OneCommandForScene`). `CommandsInOrder` is the refinement of `Script`, under the
mapping that counts a command which yields to be repeated as not executed. Its hypothesis
`[]~Skips` excludes finding 1 and nothing else: `Skips` holds exactly in the iteration in which
the limit or a requested scene stops the loop before the index is set back, a state the run
`interpreter_repeat` reaches and most behaviours do not.

**SceneMapProofs.** `PausedIsCalled` looks at one event; what makes it inductive is
`Accounted`, which holds each paused event to wait, to be on top, or to own the frame at the
base of the stack (an event that another one calls may be on the stack without being
paused), and a waiting one to wait with its page. `FramesOK` says that frames of this map name
events that exist on it, `Flow` what the stages of the map scene know of requests and
teleports, and `Current` that the pages are those of the switches unless a refresh is
pending. From it `ForegroundAgrees` (`ForegroundOK`) and `NothingIsOverlooked` (`NothingOverlooked`),
for any number of maps, events, pages, common events and calls.

**SceneStackProofs.** No two scenes of a type: that is not inductive, because a push looks at
the top only. `InOrder` orders the 21 types by `Rank` such that each scene opens, or is replaced
by, scenes of a higher rank only, and says that there is a title below whatever is played and a
map below whatever the map opens; a stack in order has no type twice, which gives
`StackIsValid` (`ValidStack`, with the cardinality of an injective image). `StackOK` adds that a
title under another scene has been started. `Entering` relates `push_pop_operation`, the static
`init` and the scene on top: what was pushed has never been started, and who has not been
entered is about to be. From it `SceneStartsOnce` (`StartedOnce`) and `SceneEntersFirst`
(`EnteredFirst`). `Playing` says that once a game has begun every title on the stack knows
(`restart_title_cache`); with it `NewGameIsFresh` (`FreshAfterTitle`). `Settled` and `Goal` state
what the stack is before and after a scene's update, so that each operation on the stack has
one lemma for all scenes that use it.

**BattleProofs.** `Orderly` is not inductive: nothing in it says that a round may begin, a
turn may start or the party may be made to flee only where that does no harm. `Queued` says
of the queue and the table of actions that they fit (each battler once, an action for those in
the queue and for nobody else, and one that this battler can be given); `Commands` where in the
party the menu stands, and where a choice of a target goes back to; `Undecided` that commands are given in a
battle that is neither won nor lost, so that the party has somebody to order and the round is
not empty; `Fleeing` that an order to flee meets the scene between two turns or options, and that the queue is
empty when the player flees; `Acting` that a turn is under way in its substate only and that
its action was possible when the turn began, from which follows that its target is found again
or replaced by a neighbour (`StartedIs`, for `AlgorithmBase::Start`); `Scored` the spoils to the state of
the scene. That an action is forgotten when a condition changes keeps `Queued` (`BecomesFits`),
because the queue goes on with an action that does nothing. From it `BattleIsOrderly`
(`Orderly`) and `BattleLeftOnce` (`LeftOnce`).
`BattleInRounds` (`ImplementsRounds`) is the refinement: `Phase`, `Present`, `ToAct` and `Turner` are
what `Rounds` sees of the scene. `SelectActor` and a failed escape begin a round (`Beginning`: all
of the party that is present is in the queue, which takes `AskedInOrder`), `PreAction`
passes over those that are gone (`GonePassed`) and begins a turn or decides the battle, `End`, `Quit` and
the timers end it, pages and actions only change who is present, and the menu, messages, animations and the
frame are stutters.

**MessagesProofs.** `Conversation` is not inductive. `Opened` says that a message which has
something to show holds the window open until it is finished, and that only then the window
closes; `Ended`, that at the end of a page the window waits for the player, has his answer or
has met the code `\^`; `Asking`, that who has asked waits or its page has changed, and what a
window that begins to close may still ask; `Answers`, that an index which is not the sentinel is
one of the options of the question its speaker waits for; `Written`, that the glyphs drawn and
those left are the whole message, and that the text left is laid out in pages (`Paginated`: each
glyph on a row of the page, a page break after a line break only, one at the end). `LooksKeep`,
`PrintsKeep` and `ThinksKeep` are what the steps of the window, of the typing and of the
interpreters have in common; `MessageStarted` is `StartMessageProcessing`, whoever calls it.
From it `ConversationHolds` (`Conversation`), for any parallel events, whatever they say, any
lines per page and any waits.

That `TextOf` lays out the text so, with the glyphs of the lines (`TextIs`), is a fact about
recursive functions over sequences of any length. It is proved without an induction theorem: a
set of numbers that is not empty has a least one (`LeastOf`), so what holds of 0 and is passed on
holds up to n (`UpTo`), a function with a given base and given steps exists (`Recursion`) and is
the only one (`RecursionIsOne`). With these `Glyphs`, `GlyphsOfLines` and `AppendLines` are
unfolded (`GlyphsAre`, `GlyphsOfLinesAre`, `AppendLinesAre`).

**Only model-checked.** What the runs show violated (`YieldRepeatRepeats`,
`SkillHasTarget`); and every
liveness property (`FrameEnds`, both `UpdateReturns`, `ComesToRest`, `ScriptGoesOn`,
`Answered`, `ImportantArrive`, `ExitEnds`, `ResetReturns`, `ForegroundReturns`, `Served`,
`Released`, `RoundEnds`, `SpeakersGoOn`): TLAPS does not prove properties that rest on fairness.

## 5. Not modelled

See the components in `PROJECT.json` for each.

* What commands compute (variables, party, actors, hit points, chances) is arithmetic
  on data that the unit tests cover.
* The battle scene of RPG Maker 2003 (`scene_battle_rpg2k3.cpp`), with gauges and
  animations, is a second state machine of the size of `Battle`.
* Move routes (what a route can do to a trigger, a switch or a step of the player is a choice
  in `ForegroundEvents`), panning, passability and encounters of characters.
* Opening, closing and reconnecting the socket, and the encoding of packets.
* Chat is text typed into one window by one thread; its wrapping and its caret are
  computations on strings. Fonts, files, codecs, configuration and the platforms are
  conversion and I/O.
* Windows, pictures, transitions, weather and drawing are layout and interpolation.
* Audio shares its channels with a thread of the backend, under a mutex that each
  backend supplies.
* `lcf` and the vendored libraries. Half of the lines of the repository are tables of
  glyphs (`bitmapfont_wqy.h`, `shinonome_gothic.h`, `bitmapfont_ttyp0.h`) and of names
  (`rtp_table.cpp`), in which nothing happens.

## 6. Plan

The modules above are done. What is left, most important first:

| Subject | Source | Abstract specification or main property |
| --- | --- | --- |
| MoveRoute | `game_character.cpp` 250-520 | forced and own routes, repetition, skipping and cancelling by messages and pages |
| Battle of 2003 | `scene_battle_rpg2k3.cpp` | gauges fill and empty, nobody acts twice on one gauge |
