# nevermore: models, model checking and proofs

nevermore is a terminal chat client in C: it holds a conversation with a language
model over HTTP, streams the replies, runs the tools the model asks for, and sends
the results back.  One thread and one event loop do all of it.  This directory
models the program's own logic, checks it with TLC on small instances, and proves the
main properties of its core with TLAPS for every value of the constants.

`PROJECT.json` lists the components, the runs, the lines each definition models, the
hazards and the theorems.  Paths below are relative to the repository.

## 1. The system

### How it runs

`src/src/main.c` parses the arguments and hands over to the chat application
(`chat_app.c`), a program for a terminal UI runtime.  The runtime owns the only wait.
Before it waits, the app tells it what to wait for (`nm_chat_app_interest`): the
source of the agent (a socket, a child's pipe or terminal), the catalog fetch, the
balance fetch, and every background job.  After it, the app steps whatever is ready
(`nm_chat_app_step`, `nm_chat_app_drain`) or fires the timers that are due.  Nothing
in the program blocks between two waits except name service and a few small files.

```
   keys, ticks, ready sources
        |
   chat_app.c ---- commands, the popup, mention_ui.c, timer table
        |    \
        |     source.c, provider_*.c, credit.c             fetches beside the turn
        |  start / step / cancel / interest
     agent.c ----- session.c, context.c, skills.c, reminder.c   what the model is told
        |   \
        |    tools: tools_file.c + file_ledger.c, tools_exec.c + proc.c,
        |           tools_spawn_posix.c / _w32.c, tools_websearch.c
     openai_client.c, sse.c, json.c                        one request, one reply
        |
     transport.c, transport_socket.c, addr_cache.c, tls_*.c

   conf.c, history.c, authinfo.c: what is kept between runs
```

### Components, their state, their operations

| component | state | operations | hard part | module |
| --- | --- | --- | --- | --- |
| agent loop, `agent.c` | turn state, open stream, running tool, git stage, counters, the transcript | `nm_agent_start`, `nm_agent_step`, `nm_agent_cancel`, `nm_agent_next_timeout_ms` | a cancel, a deadline or a failure at any point must leave a transcript the provider accepts | `Agent`, `ToolProtocol` |
| harness reminders, `reminder.c` | one latched signature per rule | evaluated at a turn's start and before each round | fire on every edge and only there | `Reminders` |
| request composition, `agent.c`, `session.c`, `context.c` | vision clause and its gate, image stamps, two echo latches | `begin_round`, model switch, catalog arrival, config change | what has been sent is cached by the provider and should stay as it was | `Request` |
| usage ledger and round facts, `agent.c` | session sums with an unknown, the gauge, the served tier | account a round, `/context` | the unknown is not zero; a void round | `Round` |
| tool set and results, `tools.c` | the registry of tools | register, dispatch, cut | cuts within characters and budgets | `Results` |
| process jobs, `proc.c`, `proc_posix.c`, `tools_exec.c` | job registry, bounded buffers, orphans, the call under way | spawn, drain, reap, poll, write, kill, teardown | the child runs concurrently with every step | `Jobs`, `Screen` |
| one-shot commands, `tools_spawn_posix.c`, `tools_spawn_w32.c`, `proc_w32.c` | a pipe, a child, a grace period; a reader thread | begin, step, end, cancel | end of pipe and exit come in either order; the thread outlives the job | `RunCommand`, `WinCommand` |
| file tools and ledger, `tools_file.c`, `file_ledger.c` | which windows of which file the conversation holds; a temporary copy | read, write, edit, list, search | other processes write the same files; the program may be killed | `FileLedger`, `FileTools`, `Results` |
| web search, `tools_websearch.c` | a latch in the runtime layer of the store | begin, step, cancel | when the latch may be set, and who may drop it | `WebSearch` |
| transport, `transport_socket.c`, `transport.c` | connections in phases, family latch, connect error | open, step, wait, close | silent peers, several walks over shared state, rounding of waits | `ConnectWalk` |
| name table, `addr_cache.c` | answers with expiry, a replacement hand | look up, store | expiry, eviction, spellings | `AddrCache` |
| response framing, `transport_socket.c` | head, length or chunk state | read body | independence of segmentation | `HttpBody` |
| SSE parser, `sse.c` | partial line, pending carriage return | feed | the same | `Sse` |
| stream client, `openai_client.c` | partial tool calls, tail after `[DONE]`, the verdict | begin, step, end | fragments of parallel calls; the tail's own deadline; truncated replies | `ChatStream`, `Round` |
| providers and catalogs, `provider_*.c`, `source.c` | a fetch machine per provider, shared documents, a source | start, step, cancel, store | who owns a fetch when the provider changes | `Catalog`, `App` |
| credit, `credit.c` | brackets per provider, a fetch, three gates | due, start, done, mark | rate gates; older answers over newer facts | `Catalog`, `Brackets` |
| chat application, `chat_app.c` | input, one popup, images, timers, provider, the transcript on screen | commands, interest, step, timers | what a switch may touch during a turn; blocks that never run together | `App`, `Scrollback` |
| mentions, `mention.c`, `mention_source.c`, `mention_ui.c` | the picker over the line | key, pick | the path picked is the path sent | `App`, `Mentions` |
| configuration, `conf.c` | layers, shadow file | load, get, set, reset, flush | two running instances, values that need other values | `Settings`, `Spellings` |
| system prompt, `context.c`, `skills.c` | one buffer with two offsets, a registry | build, splice, clause, menu, load | offsets that move, limits | `Prompt` |
| session, history, credentials, `session.c`, `history.c`, `authinfo.c` | text files | save, load, look up | what is written is read back | `Transcript` |
| images as bytes, `image_bytes.c` | none | sniff, encode, attach | the ways in agree | `Images` |
| JSON, `json.c` | none | read, skip, write, copy | three readers of one grammar | `Json` |
| markdown and highlighter, `markdown.c`, `highlight.c` | the line before, an open fence or comment | classify, highlight | verdicts given late | `Marks` |
| TLS backends, codec and display, rendering, widgets, wire recorder, entry point, platform | | | | section 8 |

### How components interact

* The app calls the agent; the agent calls back only to append text to the screen.
  The agent's source changes as the turn moves: connecting socket, stream, child's
  pipe, a job's terminal, or the git stage's job, which it waits for before the first
  request.
* The job registry is global to the process.  The agent's tools, the git stage, the
  `/kill` and `/ps` commands, the reminder facts and the event loop all reach into it.
* The name table, the family latch and the connect error are global too; a round, a
  catalog fetch, a balance fetch and a search may be connecting at the same time.
* Configuration is resolved at the point of use, so a key may differ between two
  requests of one chat.  The catalog may arrive between any two.  A search writes its
  latch into the store, in a layer above the user's.
* One popup serves commands, models, providers and the mention picker; answers of
  fetches change its rows while it is open.
* The ledger's answers become text in the transcript, and the reminders' firings
  become messages of it.
* Every running instance of the program works on the same home directory.

## 2. Modules

| module | what it is | extends or instantiates |
| --- | --- | --- |
| `ToolProtocol` | abstract: what a provider accepts as a conversation | |
| `Agent` | the agent loop | `INSTANCE ToolProtocol` |
| `Reminders`, `Request` | what goes in front of a round, what a request carries | |
| `Jobs` | registry, children, terminals, tools and the loop's part | |
| `FileLedger` | the ledger, the read and write paths, other processes | |
| `AddrCache`, `ConnectWalk` | the name table; connections up to a request on the wire | `ConnectWalk` extends `AddrCache` |
| `HttpBody`, `Sse`, `ChatStream` | framing, events, a streamed reply | `ChatStream` extends both, they extend `Loops` |
| `Catalog`, `App` | fetches and gates (catalogs and credit) as operators on records; the program that owns them | `App` extends `Catalog` |
| `Settings`, `WebSearch` | the store and its client | `WebSearch` extends `Settings` |
| `RunCommand`, `WinCommand`, `FileTools`, `Prompt` | the state machines of section 1 | |
| `Spellings`, `Json`, `Transcript`, `Images`, `Screen`, `Results`, `Round`, `Mentions`, `Marks`, `Brackets`, `Scrollback` | algorithms as operators | most extend `Loops` |
| `Loops`, `Repeat` | loops over a sequence, and loops that end within a number of turns, as recursive functions; `Repeat` has loops with no such number, whose recursive operator puts every module above it out of reach of theorems | `Repeat` extends `Loops` |
| `MCReply`, `MCApp` | the instance of one system for TLC (`Agent` and `Jobs` need only values, and have a `.cfg` alone) | its module |
| `MCRounds`, `MCServices`, `MCForms`, `MCLocal` | several systems side by side | see below |
| `AgentProofs`, `AppProofs` | theorems about the module of that name | it |
| `HostProofs` | theorems about the jobs, the name table and the connect walk | `Jobs`, `ConnectWalk` |
| `ReplyProofs` | theorems about a streamed reply | `ChatStream` |
| `RoundsProofs` | theorems about the reminders and the request | `Reminders`, `Request` |
| `FilesProofs` | theorems about the ledger, the edit and the write | `FileLedger`, `FileTools` |
| `LocalProofs` | theorems about the store, the search, both forms of `run_command` and the prompt | `WebSearch`, `WinCommand`, `Prompt` |
| `Counting` | induction over numbers | used by `FilesProofs`, `LocalProofs`, `HostProofs`, `ReplyProofs` |

Side by side.  Systems that share no state have no interleaving worth exploring.  The
modules `MCRounds`, `MCServices` and `MCLocal` put several of them under one
specification: the initial state chooses which one this behaviour is about (`side`,
`turn`), the others stay in their initial state, and each keeps its own constants,
properties and fairness.  The states explored are the sum, not the product, of the
parts.  `MCRounds` holds `Reminders` and `Request`; `MCServices` the ledger, the walk
and the name table; `MCLocal` the store with the search, both forms of `run_command`,
the file tools, the prompt, and through `MCForms` every pure algorithm.  An algorithm
has one step: an input is drawn, and `FormsHold` says what the step must keep for that
kind of input, against a reference definition where there is one.

Definitions that a comment calls a mistake are plausible ones, kept beside the
definition they would replace.  With one of them in its place, the run reports the
property violated that the definition protects.  They are not used by any
specification.

### Agent

`state`, `stream`, `exec` are `NmAgent.state`, the open chat and the tool execution;
`awaitingEnv`, `envJob`, `envLate`, `git`, `sysGit` the git stage from its spawn to the
splice into the system prompt; `calls`, `idx`, `announced`, `images` the bookkeeping of
the tool phase.  `transcript` is the session behind the system prompt, one record per
message, with its kind, a number (how many calls, which result, how many images) and
whether it carries an image.

An action is one entry into the agent from the loop: `StartTurn`, the outcomes of
`nm_agent_step` in each state (`StepEnv`, `StepTimeout`, `Reply`, `ToolBegin`,
`ToolRun`, `ToolEnd`, `ToolsDone`), and the cancel in each.  An entry does everything
the handler does before it returns, so ending a round, fanning out its images, testing
the round cap and opening the next round are one step, as in the code.  `chat_begin`
may refuse in any of them.  Texts, allocation failure and which reminder fires are
abstracted: any evaluation may append one message, up to `MaxAsides` in a behaviour.

`ToolProtocol` says what a provider demands: an assistant message that asks for n
calls is followed by its n results, in order, before anything else is said or sent,
and the log only grows.  `Agent` implements it under the mapping `log <- transcript`,
with the open group taken from the bookkeeping (`ImplementsProtocol`).

### Reminders and Request

`latch` is the array of signatures of `reminder.c`.  An evaluation point (turn start,
round start) computes every signature of its rules, fires where it is there and differs
from the latch, and relatches.  The registry, the context gauge, the cut counter and
the reminders key move between evaluations.  `told`, `gone` and `nudges` record what
the transcript says, for the properties.

`Request` has one action per point that composes a request or changes what the next
carries.  `Compose` is `begin_round` with `nm_session_age_images` and the serialiser's
three choices: image or marker, trace or none, details or none.  The provider may
refuse or `chat_begin` may fail after the stamps were made.

### Jobs

Bytes are counted.  A child prints, reads, closes its terminal and exits whenever it
likes.  Reading a terminal and asking for the exit are two steps (`StepPump` then
`StepEnds`, `Drain` then `DrainReaps`), because a child can act in between.  `buf`
is `NmProcBuf` with counters of what reports accounted for.  The tools are
`exec_command`, `write_stdin` and `kill_job`; the user may cancel a call, kill a job,
list the jobs (which reaps) and quit.  `loop` says where the event loop is: waiting,
about to go round again, or in the middle of a step.  With `LeaderWaits` the operating
system ends a session leader only once its terminal has been read, the case for which
the orphan list exists.

### RunCommand and WinCommand

On POSIX the shell and what it leaves running hold the pipe (`Closes` for each of the
two); the loop reads until the pipe ends, then waits for the exit within a grace, then
kills and reaps.  On Windows the same tool stands on the process layer with a thread
that reads the pipe: `Reader` is that thread, one step per system call and lock;
`WinStep` is the loop; a close that finds the child still ending hands the state to
the orphans.  The thread's `done`, the freeing of the job and the freeing of its
system half are separate steps.

### FileLedger, FileTools, Results

A read is two steps, the `stat` and the bytes, and another process may write in
between.  A file's content is a sequence of lines with lengths, so a window, the byte
budget and the marker of a cut result come out as the code computes them.  The content
hash is the content itself.  `honest` records whether every write so far gave its file
a newer time than any before; the properties about reported changes need it, because
the ledger itself tells files apart by size and time.

`FileTools` is the write itself, one action per system call: resolve, read, open the
copy, write it, rename.  The kernel follows more links than the program does by itself
(`KernelLinks`), or `stat` could see less than the write resolves.  Other programs create, replace, remove and link between any
two, each call may fail, and the program may be killed.  `Results` is what `read_file`,
`list_dir` and `search_dir` show under their budgets, and how a path is resolved.

### AddrCache and ConnectWalk

An entry of the table carries the time it has left.  A connection is a record with its
phase, its list, its place in the list and its age; time counts in 1/`Grain` of a
millisecond, because waits are whole milliseconds and the rounding is what matters.
A walk may meet several sockets that cannot be had and several refusals within one
step, so `StepMovesOn` takes a vector of outcomes.  `Tick` is the passing of a unit
while the loop waits, `LongTick` the loop coming late.  `nm_connect_async` and
`nm_request_queue` are one action, since every caller calls them together.  A
handshake's first attempt does not complete (it needs the peer).  The family latch is
the runtime layer of `skip_families`.

### HttpBody, Sse, ChatStream

The peer's reply is a sequence of tokens, where a token is as many bytes as the code
tells apart: a hexadecimal digit, a carriage return, a newline, the name of a header,
a letter.  What arrives in one readable event is any number of them.  `ReadBody` is
`nm_socket_read_body` whole, with the decoded bytes of one call in hand; `SseFeed` is
`nm_sse_feed`, which keeps its unfinished line between two calls.  `ChatStream` puts
them together: one `Step` is one `nm_openai_chat_step` up to the next wait.  An integer
that holds a chunk size wraps at `2 * Half`.

The connection is one record: `net` and `scratch` are the two buffers a byte passes,
`resp` what the head said, `body` the dechunking machine.  Each loop of the code is
`Turns`: its body, its condition, and a number of turns that is enough because every
turn but the last uses up something that can be counted (bytes on the socket and in the
scratch, bytes the parser holds).  That number is no part of the code; that it never
cuts a loop short is proved (section 5).

What a reply says is given beside its wire, and `IsReply` demands that it is right:
`Unframed` is the dechunking machine after each token with the bytes it has let
through, `Parsed` the parser after each of those bytes, `marks` the token at which each
event is complete, `Said` the object in an event's text.  These read one token at a
time with no buffer, segment or turn, and the properties compute from them what must
have been told (`Meaning`, `CallOf`).  `MCReply` works them out for its replies, and TLC
checks them against `IsReply` in both runs of it.

### Catalog and App

`Catalog` has operators from one record (of a catalog fetch, of a balance with its
gates) to the set of its ends with their status; `App` holds the records and calls them, since what can go wrong is who owns
them.  A scene is one session: which kinds of catalog the providers have, which have a
balance endpoint, whether polling is on and what the user does in it.  An action of
`App` is one key, one command, one readiness, or one run of the timers.  The agent is
at work or at rest.

### Settings, Spellings, WebSearch

An instance is a configuration with six layers; the disk has the user's file, the
shadow file and the temporary one, as nodes that names lead to.  `SaveOpens`,
`SaveWrites`, `SaveRenames` are the steps of `shadow_flush`; each may fail, the
instance may be killed between two, and the other instance may be in the middle of its
own.  Starting reads both files line by line, with the check of each line against the
store as it is by then.  `Spellings` canonicalises the values.  `WebSearch` is one
search of one instance: the latch is written to the store's runtime layer.

### Prompt

The buffer with its two offsets: where the vision clause goes and where the git status
goes once its command has answered.  The rest of the module is what fills it: the
chain of `AGENTS.md` files under a cap, the git section, and the skills with their two
readers, their registry and their menu.

### The algorithms

| module | code | what `FormsHold` asks of it |
| --- | --- | --- |
| `Spellings` | `conf.c` | a canonical spelling is a fixed point, spells the number the user wrote, and no test against overflow is passed by a larger or failed by a smaller one |
| `Json` | `json.c` | room reserved is enough; the skipping reader ends where the building one does; what is written reads back |
| `FileTools`, `Results` | `tools_file.c`, `tools.c` | matches neither overlap nor are missed; paging reads every line once; cuts fall between characters, keep the budget, and do not overstate what is missing |
| `Prompt` | `skills.c`, `context.c` | the two readers of a skill agree; registry and menu keep order, precedence and limits; the blocks stand whole, within the cap and without a reminder's tag |
| `Transcript`, `Images` | `session.c`, `history.c`, `authinfo.c`, `image_bytes.c` | what is written is read back; a lookup never takes a value for a key; the ways of taking an image agree |
| `Screen` | `proc.c` | what a line terminal gives is what a terminal shows, but for the strokes of section 6 |
| `Round` | `agent.c`, `openai_client.c` | what is shown is what is kept; a sum is known when a round reported it; the parts of a URL, the members of the body and the headers come out in their places |
| `Mentions` | `mention.c`, `mention_source.c`, `chat_app.c` | a picked path is the path sent; the list offers each match once; a filter passes what passes all its tokens |
| `Marks` | `markdown.c`, `highlight.c` | fences pair; nothing inside one leaks out; runs cover a line; a text read by lines is tinted as a whole |
| `Brackets` | `credit.c` | refusing windows are shown first and stay until an answer speaks of them; figures and dates come out right |
| `Scrollback` | `chat_app.c`, `sysout.c` | every byte of a stream is shown in order; one blank row between blocks and never two |

## 3. Runs

Twelve runs, each for a question of its own.

| run | instance | shows |
| --- | --- | --- |
| `agent` | 2 turns, 2 rounds, 2 calls a reply, git repository, image tools, 1 aside | every cancel, failure and timeout leaves complete tool groups and images behind their group; resources follow the state; the prompt settles; `ToolProtocol` is implemented; turns end |
| `rounds` | reminders: 3 turns, 2 rounds, 2 jobs of which the facts list 1, 2 cuts; requests: 4 over 2 models of which 1 sees, 2 replies, 1 image, window of 2 or off, echo off or all | every edge is told and nothing twice in a row, the last round is announced, cuts are told; the image window is exact, what rode keeps its form, the clause is honest and stays |
| `jobs` | 2 jobs over 1 slot and 1 orphan place, buffer 1, terminal 2, input 1, output 2 | every byte in one place and end of input after the body (`BytesTold`), no child or terminal lost (`Custody`) |
| `jobs_fair` | 2 jobs over 2 slots, terminals of 1 | a full terminal is read again; every call ends |
| `services` | ledger: 1 file, 3 windows, table of 2, 3 times; walk: 3 addresses of 2 families, 1 ms per phase in half milliseconds; names: 3, one in 2 spellings and one too long, on 2 ports in a table of 2 | a skip is backed by text above, a reported change is somebody else's, unseen content comes with its note; the latch needs silence and an answer elsewhere and never vetoes, every address is tried, no wait spins or overshoots, walks end; no foreign or expired answer |
| `reply` | some 50 replies in 3 framings and 3 line endings, every segmentation, every place of a close, silence budget 2 | what has been told is what arrived, only whole replies succeed, parallel calls stay apart, the tail ends |
| `app` | 2 providers, 6 scenes, silence budget 1, 2 rows, freshness 2, throttle 3, 3 images | every fetch has its owner, late lists show their own provider, pending images live, one attempt per window, fetches end |
| `local` | 2 instances with 2 writes; 3 searches; 1 command with 4 bytes, also on Windows; 2 file names, 2 calls, 1 foreign act; 5 updates of the prompt; every input of every algorithm | section 2: store, latch, exit status, edits, prompt and algorithms keep their promises, and what a command is told was done was done; commands and searches end |
| `jobs_final_output` | 1 job | violated: section 6 |
| `reply_fault` | as `reply` | violated: section 6 |
| `app_footer` | as `app` | violated: section 6 |
| `search_probe` | as `local` | violated: section 6 |

A few properties bundle several that are named beside them: `EdgesTold` is `StateIsTold`
and `NoChurn`; `ClauseSteady` is `ClauseHonest` and `ClauseKept`; `SentStays` is
`MarkersStay` and `EchoKept`; `OwnStatusTold` is `ExitIsTold` and `ReaderIsCustody`;
`StoreKept` is `ShadowWhole` and `RestartKeeps`; `OneShotsEnd` is three leads-to.

`CHECK_DEADLOCK FALSE` stands where the bounds let a behaviour stop (turns, jobs,
times used up, an algorithm's single step).

Why the bounds suffice.  `agent`: two rounds reach both the cap and a round before it;
two calls reach "some answered, some not" on a cancel; two turns let bookkeeping of one
leak into the next; `MaxAsides = 1` bounds how many notes a conversation holds, since
where one may stand is the same for each.  `rounds`: a third turn lets a state come, go
and come again; one listed job of two exercises the cut of the facts; an image must be
young, at the window's edge and old, which four requests give, with one refused.
`jobs`: the second job is started over the slot and the orphan place of the first; a
buffer of one byte overflows, a terminal of two holds more than a buffer.  `services`:
two records of three windows force eviction; two contents of one size make size alone
misleading; a list longer than a walk shows the cap, two families show the reordering;
half milliseconds are where rounding goes wrong.  `reply`: each reply is a shape the
code branches on, and every way to cut it reaches every resumption; the scratch and the
buffer are a token or two longer than what must fit, so that both limits are met.
`app`: a switch needs two providers; a freshness of 2 and a throttle of 3 make each
gate the last one that holds; a list of 2 rows makes the per-row fetch go on once.
`local`: the hazards of the store need a writer and a killed or concurrent second; a
capture of 2 with 4 bytes passes the cap; two edits of a text of one or two letters
overlap themselves; the inputs of an algorithm are all short sequences over the letters
its tests tell apart, up to a length past each of its limits (the limits are
constants: the program's 8191 is `LineMax = 5` here).

On two workers the passing runs take from one minute to about three and a half
(`local`).

## 4. Fairness

* `Agent`: a due deadline is stepped (`nm_agent_next_timeout_ms` hands it to the
  loop), an open stream replies or falls silent until the deadline, a tool ends.
  Weak fairness is enough, since each stays enabled until taken.  A configuration with
  `timeout = 0` turns the stream deadline off, and a peer that trickles a byte before
  each deadline prolongs a turn: in both cases the assumption fails and `TurnEnds`
  says nothing.
* `Jobs`: a call's window closes, the second halves of steps happen (weak); a job with
  something to read is drained, and a call whose source is ready is stepped, even when
  readiness comes and goes (strong: the loop serves every ready source in each round
  of its wait, and a round in which another source was ready does not starve one).
  Users, models and children owe nothing.
* `ConnectWalk`: time passes, and a connection whose socket is ready or whose wait ran
  out is stepped (weak).  The peer owes nothing.
* `ChatStream`: time passes (weak), and a stream that is ready or whose tail's budget
  ran out is stepped (weak, with its enabledness written out).  The peer owes nothing:
  it may stop at any place without closing.
* `App`: time passes (`TimePasses`), and timers that are due run (`Tick`), weak.
  Users and servers owe nothing; silence budgets end every fetch.
* `MCLocal`: a command or search whose source is ready or whose deadline is due is
  stepped, time passes, and the Windows reader thread runs (all weak).  `OneShotsEnd`
  needs a silence budget above 0, the default; with 0 a silent child is waited for until
  the user cancels, which is what the key means.

The safety properties and every proof do without fairness.

## 5. What is proved

All theorems hold for every value of the constants that meets the `ASSUME` of the
module, so for any number of turns, rounds, jobs, bytes, images, paths, windows,
addresses, connections, providers, instances and keys.  They are invariants or step
properties; each is shown from an inductive invariant by one step per action.  The
inductive invariants were checked by TLC on the instances of the runs first.

| module | theorem | says | rests on |
| --- | --- | --- | --- |
| `AgentProofs` | `ToolGroupsSafe` | every group of calls is answered in full and in order; only the group at hand may be short | `IInv`: types, the control part (resources follow the state, the stage precedes requests, a fresh round has no bookkeeping), and the group at hand: the last calls message lies `idx` places back |
| | `ResourcesSafe`, `PromptSafe` | a stream or the stage exactly while streaming; no splice after the first request | the same |
| | `Refinement` | the agent implements `ToolProtocol`: every step is a step of the protocol or a stutter under `log <- transcript` | `IInv`; the replies an entry appends are split into the single replies and messages the protocol knows |
| | `ConversationSafe` | images stand behind the group they came of, complete and once; a turn has at most `MaxRounds` assistant messages and nothing behind its answer | `ShapeInv`: the images owed are those of the group at hand, the open turn has as many assistant messages as rounds |
| `RoundsProofs` | `AlwaysTold`, `NeverChurns`, `EdgesSafe` | an edge is told at its evaluation; a repeat is not; both together | `MemoryHolds`: a latch is what was told last, or nothing once the state went |
| | `NudgedOnce`, `RoundRulesSafe` | the last round has its nudge, once; a cut is told before the next request | `Budget`: while rounds are left the latch names an earlier turn |
| | `WindowSafe` | an image rode exactly the requests the window allows | age and stamp agree: `age = seq - first + 1` |
| | `MarkersSafe` | a marker stays a marker while the window does not grow | a marker stands for an image whose age has passed the window |
| | `EchoSafe`, `SentSafe` | what was echoed keeps being echoed in that form; with the markers | the latched mode explains every field of the last request |
| | `ClauseTrue`, `ClauseSafe`, `ClausesSafe` | the clause is true and does not move under a model's prefix | the gate is shut once the active model has had a request |
| `HostProofs`, jobs | `BytesAccounted`, `ChildrenTracked` | as in the run, for any registry, orphan list, buffer and terminal | `SafeHolds`: their conjunction with `Anchored` (fresh numbers untouched, registered jobs not ended, a step in the middle is about a registered job) |
| `FilesProofs` | `SkipsAreBacked` | a skipped read's text is above | `Backed`: a live record's text is above |
| | `ReadsAreKept` | the window just read is in the table, whatever was evicted for it | shape of `record()` |
| | `ChangesAreTold` | while times move on, no unseen content without its note | `Current` (a read nobody raced holds the file's identity) and `Timely` (no time lies ahead; same identity, same content) |
| | `ChangesAreForeign` | a reported change is another process's | `Fresh` (the newest record matches the file unless it was written by others), assuming one spelling per file |
| | `HitsAreAll` | what `edit_file` matches is every place the old text stands at, from the front, without overlap | `Found`, climbed through the counting loop |
| | `EditedIs`, `EditedFits` | the new text stands at every hit and every other letter is kept in order; the room reserved is enough | `Spliced`, climbed through the copying loop: how far each edit has moved what is behind it |
| | `EditsKept` | no name leads to half a text, an answered write replaced what the path leads to and nothing else, only kills leave copies | `FilesInv`: what a write resolved holds while no other program came between, its copy is the only one of its name and has what was written so far (`CallSound`); what is meant after a call includes what its edit makes (`MeantIs`) |
| `HostProofs`, walk | `CacheKeepsNames`, `WalksKeepNames` | the table answers a name with its own last answer within its time, and forgets a live one only when full; also under the walks of any number of connections, whose steps are steps of the table (`WalksKeepTheTable`) | `CacheInv`: an entry holds what was told last of its name and the time that is left |
| | `WalksAreComplete` | a walk that fails has tried every address up to the cap, a latched family goes last and is not left out, no byte of a request is out before the connection is up and secure | `WalkInv`: of every connection, the list is the resolver's with the latched families behind, and every address before the one at hand has its verdict |
| | `WaitsAreWhatIsLeft` | a wait is 0 only when its budget is spent, and never a millisecond longer than what is left, for every grain of the clock | the same |
| | `LatchIsEvidence` | a family is latched only when it was silent while another answered | the same, of two states |
| `AppProofs` | `MachinesAreOwned` | a catalog machine runs exactly while the app's source owns it, for the active provider, with a live fetch | `AppInv`: types, the source owns the machine or there is none, and the three properties below |
| | `RowsFollowTheProvider` | rows on the screen are the active provider's; a popup is owed only while its fetch runs | the same |
| | `PendingIdsAreAlive`, `RefreshOncePerWindow` | a pending image is in the store of its agent, once; one attempt at the balance per window | the same |
| `LocalProofs` | `StoreIsKept` | the shadow file is whole and reads back as what was saved | `StoreInv`: a save under way carries what its instance holds (`Faithful`); unless two saved at once, it alone works on the temporary file, and the shadow file is the text of who wrote it last (`Undisturbed`) |
| | `CommandsAreToldTheTruth` | a key told as set is set | the same: what a save was asked for is in memory until its end |
| | `LatchWasEarned` | the search is latched off only by an endpoint that was silent | `SearchInv`, and that a save leaves the runtime layer alone |
| | `CommandsAreReportedTruly` | an exit told is the command's own with every byte, no reader outlives its state, on both platforms | `CommandInv`: what is read and what is in the pipe add up to what was printed; `WinInv`: the same with the reader's hands, and what is known at each place of the step and of the close (`DriveKept`) |
| | `PromptStaysInOrder` | the vision clause and everything git told stand in their places, once and whole, and the session holds the text | `PromptInv`: the text is its parts in order and the offset of the git status is the length of those in front (`PromptIsItsParts`); an insertion between two texts leaves both |
| `ReplyProofs` | `StreamIsFollowed` | the client is always at one place of the reply read a token at a time | `StreamHolds`, below |
| | `StreamTells` | whenever the loop waits, exactly what has arrived is told, for every reply, cut and buffer | `StreamHolds`: a stream that waits on an empty socket has nothing left in a buffer |
| | `SuccessIsWhole` | a success has heard its end and told everything before it, wherever the peer closed | the same: a stream that ended well is at an end of its reply |
| | `CallsAreWhole` | the calls of a success are the wire's, each with its own fragments, in order, under its id | `SlotsAre`: each slot holds the fragments so far of one call, and each call has one slot |

`TypeCorrect` and its likes stand as theorems of their own; for `Jobs` it needs
the invariant `Safe`, since the caps follow from what a step may be about.  The type
invariants are proved and not run.

The invariants had to be strengthened because the properties say what the user or the
provider sees, while the code's guards look at bookkeeping: that a skip is backed, for
example, depends on every record ever kept, not on the one consulted; and that a
restart reads back what was saved depends on what every instance did to the temporary
file, not on the save that ends.

The reply.  Framing, parser and client buffer bytes at three levels, and a segment may
end within any of them, so no property of the answer is inductive by itself.
`StreamHolds` relates all three to one number: `Place` is how many tokens the connection
has understood, which is what has come off the socket less what lies in the scratch.
The dechunking machine is the one `Unframed` has there; the bytes handed on are those
it has let through by then; the parser is the one `Parsed` has behind those bytes, with
nothing held; and the answer is the `Meaning` of the events complete by then (`Answer`).
A stream is in one of four modes, before its verdict, reading events, in the tail or
reading an error body (`Opening`, `Listening`, `Tailing`, `Failing`), and each says how
much of this holds.  The proof goes up the layers, a lemma for each: whatever its room,
a call of `ReadBody` hands over the bytes between two places of the wire
(`ReadBodyGood`); a call of `SseFeed` stops behind the first event that is complete in
its bytes and keeps the rest (`SseFeedGood`); a step of the client goes from one place
to another or ends, and if it waits the socket is empty (`ChatStepGood`).  For each
loop, every turn keeps the loop's part and lowers a measure that the number of turns
given to `Turns` exceeds, so the loop has ended by its own condition.  An error of
the framing drops bytes the call has decoded; there the place is no longer
one of a live stream, and what the theorems say is that such a round is no success.

The assumptions on a reply (`ReplyAssumption`).  A wire and what stands beside it agree,
which is the definition of what it says.  A peer sends no more than the length it has
announced: the code hands over what lies behind it if it comes in the same read, and
such a wire has no meaning to compare with.  Calls can be told apart by what
the client sees: fragments of one call have one index and no two ids, those of
different calls another index or an id on every fragment.  Where this fails no client
could do better.  The parts of an event are
sequences (`BuffersAssumption`), the buffers hold at least one token, and the scratch
is shorter than an int can count (`SizesAssumption`; 4096 bytes against 2^31).

The other assumptions on constants are what the code has for granted: caps that are positive
(`MAX_ADDRS`, the buffer, the grace), an address of one of two families, answers of the
name service that are lists, plain and scoped keys apart, a gate that is a scoped key,
the model's key set by no preset, lists, presets and texts that are sequences and functions,
and a kernel that follows no fewer links than the program.

Where a proof needs an induction (the store reads its file line by line, a table is
searched from the hand on), it is done by hand: the least place where the claim fails
exists, since `<` on the naturals is well founded, and the step before it contradicts
it (`LeastNatural`, `UpTo`, `Recursion`).  The models write these loops as recursive
functions for that reason.

### Only model-checked

Liveness (`TurnEnds`, `NoStall`, `CallEnds`, `WaitsEnd`, `TailEnds`, `FetchesEnd`,
`OneShotsEnd`), which is out of this prover's reach.  The algorithms of section 2
(`FormsHold`), whose loops use `Repeat` or whose claims are about every input of a
recursive definition, but for those of `FileTools` and of the store.  Every other
property of the passing runs has a theorem.

## 6. Where the code and its comments disagree

Four disagreements are runs, with a trace each.

* `jobs_final_output`: a child prints and exits between the read and the `waitpid` of
  one drain.  The reap closes the terminal with the bytes in it
  (`proc_posix.c:335`), and the job is reported and retired, "its output has been
  delivered" (`tools_exec.c:528-529`).  `/ps` and the reminder facts reap without any
  read, so the window is as long as the loop takes to come round.
* `reply_fault`: a framing fault that arrives in one segment with `[DONE]` takes the
  marker with it, since `nm_socket_read_body` returns the error and drops what it has
  decoded in that call; a whole answer fails its round.
* `app_footer`: a catalog answer that lands while the mention picker is open puts the
  models into the shared popup and leaves the picker's footer under them.
* `search_probe`: once a search has found its endpoint dead, a changed endpoint is
  never looked at (`tools_websearch.c:698`, against 703).

Met while modelling, and built into the models as the code does it:

* Reminders: the facts hold a limited number of live jobs; one behind them is never
  told (`agent.c:677`, against `reminder.c:450-452`).  The nudge is appended before
  `chat_begin` may refuse (`agent.c:1620`, against the comment at 1616-1618).
* Requests: an image's stamp is spent before `chat_begin` may refuse
  (`session.c:635`, against 632-634).  The clause moves when the user switches away
  and back, under a prefix that may still be warm (`agent.c:858`, against 389-397).
  Setting echo from off to all adds fields to messages already sent (`agent.c:1969`,
  against `agent.h:246-248`).
* Rounds: `served_signal` fires when the tier is "default" and no provider is named
  though the previous round named one.  `/context` returns early when the last report
  lacked the prompt count.  Cached tokens without prompt tokens can push the cache
  rate over 100 %.
* Jobs: `kill_job` discards what the terminal still holds (`tools_exec.c:800`, against
  796-799).  The trailing end of input is not sent when the window closes with body
  left (`tools_exec.c:689`, against 868).  A running child that closes its terminal
  leaves the call without a source, and the app's step loop (`chat_app.c:2141`) goes
  round until the yield window closes, against `tools_exec.c:18-21`.
* Job output: erased text reappears when something is written behind the erased end
  after `ESC[K` or `ESC[2K`; `ESC[D` without a number moves nothing
  (`proc.c:763-764`, against `proc.h:153`); a parameter accumulates without bound.
  `ShownAsOnTerminal` in `MCForms` states the promise, and no run checks it.
* Commands: one that reaches the capture's cap is told as having closed its output and
  kept running.
* Commands on Windows: a job whose child is still ending when it is closed hands its
  system half to the orphans and frees the job while the half still names it as its
  owner (`proc_w32.c:494-497`, against 43).  The reader signals its event only at the
  end of the output, although the header says when it feeds.  A child that exits with
  259, the number of an active one, is never reaped and told as a timeout.  What is in
  flight when the deadline wakes the loop is lost.  The join's timeout, called not
  reachable in practice, is reached when the cancel falls outside the read.
* Ledger: a file touched without being changed and read again by a window just shown
  is reported changed at the next other window (`file_ledger.c:142`, against
  `reminder.c:408-409`).  A file read under one spelling and written under another is
  reported as somebody else's change (`file_ledger.c:153`, against
  `ARCHITECTURE.md:748-749`).
* Reading: a window whose first line exceeds the budget shows no line, its notice
  resumes at the same offset, and it is remembered all the same (against
  `tools_file.c:1173-1175`).  A file with a NUL byte is shown up to it without a
  notice.  `search_dir` does not say that it stops below a depth of 8.  A listing or
  search that ends exactly at the budget says it was cut.
* Results: the count of bytes left out may be off by the bytes of one character; a
  job's cut result exceeds its maximum by the marker.  The plan line shows the first
  of two arguments of one name twice.
* Name table: the hand may evict the newest entry (`addr_cache.c:134`, against
  123-125).  Connect: when the very first socket cannot be had, the walk gives up
  (`transport_socket.c:858`, against `ARCHITECTURE.md:432-433`), and the connect error
  is left as it was (`transport_socket.c:828`, against `transport.h:190-192`).  A
  family is latched by one silent address though another of it refused
  (`transport_socket.c:341`, against 670-672).
* URLs: a port left empty is port 0, and what follows the digits of a port is ignored.
* Events: an empty first data line is lost.  A chunk size may wrap its integer before
  it is compared with its limit.
* Catalogs: a begin that is refused (offline) shows the built-in list without a note.
  A fetch tests its deadline before it reads.
* Credit: a 402 that arrives during a balance fetch starts none of its own, marks the
  first bracket whatever it is, and is overwritten by the older answer on its way.  The
  middle cell takes the text on the left only, though the header says any known
  bracket.  The cell of the status row holds 15 bytes and cuts a wide pair.  A plan
  without a percentage is known as -1 and shown so.
* App: Enter is swallowed while a turn runs (`chat_app.c:5123`, against 5121).
  `/config set` reports a failed write as an invalid value (`chat_app.c:3955-3958`),
  and a model pinned by the command line as effective.
* `/model`: `ctx:<1` is accepted and filters nothing, since a bound of 0 is none
  (`chat_app.c:2998`, against 139, "never a silent id query").  A tag is cut at 63
  characters and the text at 127, silently.
* Transcript on screen: behind a picture a tool has drawn no blank row closes the block,
  since posting it owes none and the separator finds nothing to close
  (`chat_app.c:816`, against 810-814); likewise where images of the user's are shown.
  A picture's caption is posted while content may be streaming; only reasoning is
  closed first (`chat_app.c:642-651`, against `sysout.h`).  Nothing separates reasoning
  that comes behind content.
* Store: the temporary file is shared by all instances.  A key that needs the output
  cap may be saved while the cap comes from the environment only; the next start
  refuses that line and the next write erases it.  Resetting the cap leaves what
  needed it.  The count of keys counts a doubled line twice.
* Search: the latch is also set by an answer that is too large, malformed or empty.
* Session, history, credentials: a line of the history longer than the buffer comes
  back as several, and the file is truncated in place.
* Prompt: when the registry is full, a project's skill does not replace the user's of
  the same name.  A block scalar ends at its first blank line.  A git line may be cut
  within a character.
* Images: bytes whose kind is unknown keep the format of their label.
* JSON: the reader that keeps some members does not look at the first byte
  (`json.c:1086`).  Of two members of one name, lookup gives the first and copying
  keeps the last.  An escaped NUL ends the string for its users.
* Markdown: an underline directly below a heading, a standalone image, a list item or
  a closing fence makes a heading of it, against `markdown.h:47-59`.  Cells behind the
  most a table may have are taken for its delimiters.
* Mentions: a directory with a space in its name leaves its quote open, and sent as it
  is swallows the rest of the line.

## 7. Plan

What is left, most important first.

1. The algorithms without `Repeat`, as `HttpBody` and `Sse` have their loops, and
   theorems about those that are state machines underneath (`Marks`, `Scrollback`,
   `Screen`).
2. The Windows process layer under the registry of `Jobs`, as `WinCommand` has it for
   one command.

Abstract specifications worth stating beyond `ToolProtocol`: a reply is its events
(the ends of `ChatStream` as the stream of `Agent`), a store is its last committed map.

## 8. Not modelled

* Jobs on Windows: `WinCommand` has one command over the process layer; the registry,
  the pipes' threads and several jobs are not composed.
* Descendants that outlive a job's leader and hold its terminal; hidden jobs; flag
  tables of the shells; the synchronous capture.
* The four TLS libraries behind the handshake step; the blocking drives (`nm_connect`,
  `nm_openai_chat`), which nothing in the program calls.
* Argument parsing, of the tools and of the program; glob patterns; the directory walk
  that finds skills.
* Rendering: styles, colors, widths, the composition of the status row and the view,
  the image codec and the terminal's image protocols.
* The wire recorder, which changes nothing the program reads; the pump of ask mode in
  `main.c`, which calls the same seams; platform shims.
* Wording: of notes, of reports (`/config`, `/ps`, `/session`, `/help`, the balance
  breakdown), of search results.
* The fields of a catalog's row; endpoint tables.
* The reminder rules about single tool results: they keep no state.
* In `Request`, the rows of the catalog are replaced at most once, a model's vision
  does not change, and keys and model change only while no turn runs: the app takes no
  submit while one does (`chat_app.c:5123`).
* Running out of memory.
