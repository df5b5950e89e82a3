# A TLA+ development for MCPod

MCPod is a server of the Model Context Protocol: it gives an agent the tools
`read`, `bash`, `edit` and `write` over one workspace directory, through two
HTTP transports. This directory holds TLA+ models of the parts of it whose
correctness depends on the order in which things happen, the TLC
configurations that check them on small instances, and proofs for every value
of the constants. `PROJECT.json` maps every definition to the lines of code it
stands for. Paths below are relative to `mcp-server/src/`, and to the top of the
repository where they begin with `scripts/` or name a file of the top.

## 1. Inventory

| Component | State it keeps | Operations | Where it is modelled |
|---|---|---|---|
| `write`, `edit` (`tools/write.rs`, `tools/edit.rs`) | the future of each call | validate, resolve, lock, prepare directory or read, compute, commit, answer | `FileMutation` |
| mutation queue (`fs/mutation_queue.rs`) | a map from canonical path to a fair async mutex, static | `lock`, release by dropping the guard | `FileMutation` |
| atomic write (`fs/atomic_write.rs`) | a temp file per call | create, write, fsync, rename, fsync of the directory, remove on error | `FileMutation` |
| `bash` (`tools/bash.rs`) | the future of the call, two reader tasks, the chunk list, the global `CHUNK_SEQ` | spawn, wait or time out, drain, abort, collect, log, answer | `BashTool` |
| process group (`process/process_group.rs`) | child, pid, `defused` | `spawn_bash`, `wait`, `kill_group`, `Drop` | `BashTool` |
| legacy SSE (`transport/legacy_sse.rs`) | session map; per session two channels, a token, a service task, a stream with its guard | `open`, `deliver`, `disconnect`, `sweep`, `close_all`; GET and POST handlers | `LegacySse` |
| lifecycle (`main.rs`) | the shutdown token | signal, graceful shutdown, exit | `LegacySse` |
| edit matching (`tools/edit.rs`, `fs/text.rs`) | the text, the ranges found so far, the text being built | exact and normalized match, overlap, replacement, line endings, BOM | `EditMatch` |
| `read` (`tools/read.rs`, `server.rs` 52-87) | none of its own; an agent keeps the offset of the next page | a page of lines, an image read twice | `ReadPages` |
| truncation (`output/truncate.rs`) | none | `take_head`, `take_tail` | `Truncate` |
| path sandbox (`fs/path.rs`) | none (reads the file system) | `resolve_in_workspace` | `PathResolve`; one step of `FileMutation!Request` |
| configuration, HTTP surface (`config.rs`, `server.rs`, `auth.rs`) | the configuration; the layer a request is at | `from_env`, Origin and bearer layers, routing, the check of the host | `HttpSurface` |
| environment (`environment.rs`) | the cache `MISE_INSTALLED` | `info` | `EnvironmentCache` |
| entrypoint (`scripts/docker-entrypoint.sh`) | mcpod's line of the passwd file, the owners of the entries of `$HOME` and of what its links lead to | remap, prepare, hand over, drop privileges | `Entrypoint` |
| streamable HTTP (`transport/streamable_http.rs`) | none | its layers and the check of the host; the rest configures rmcp's stateless service | `HttpSurface`; rmcp's code is not here |
| instructions, utilities, build files | none | - | not modelled |

How they interact. A transport hands each request to a tool method of
`server.rs`, which runs the tool's future and turns its error into an answer
marked as an error. `write` and `edit` share the static mutation queue and the
file system, and use the blocking pool of the runtime for every file operation.
`bash` shares the file system with them but not the queue. The legacy transport
runs one service loop of rmcp per session, between a channel filled by POST
handlers and one drained by the session's stream; a sweeper task and the
shutdown reach into the same session map. `write` and `edit` resolve their path
before they wait for the lock and use it after; `read`, `write` and `edit` use
the same `resolve_in_workspace`. `read` and `bash` cut what they answer by the
same two limits. All routes but `/health` pass the bearer layer, and all routes
the Origin layer, before they come to a transport. The entrypoint decides as
whom all of this runs.

What is hard in each of them:

- *Files.* Cancellation is the drop of a future. It can happen at any `await`;
  it releases the queue's guard at once, and it does not recall a closure the
  blocking pool already holds. Crashes and power loss strike between any two
  file operations, and an error of the last chunk of a write may come to light
  for nobody. What must hold: no update is lost, no file is torn, an error means
  nothing changed, success that all is written, nobody waits for ever.
- *Bash.* A process tree that may fork, leave its group, or keep the pipes
  open; a time limit against a natural exit; the reuse of group numbers; two
  reader tasks; cancellation at any `await`. What must hold: whoever should die
  dies and nobody else, the output is whole and in order, the call ends.
- *Legacy SSE.* Map, token, stream and service loop of a session are changed by
  five kinds of actors, and two bounded channels close a cycle through a client
  that may never read. What must hold: the four agree, dead sessions go, nobody
  blocks for ever, the shutdown reaches every session.
- *Edit matching.* Two passes normalize a text, one with a map of positions and
  one without; one character may become several, or none; ranges found in the
  original are applied to a text that has already changed. What must hold: the
  passes agree, a range holds the old text and no more, what is outside the
  ranges stays, line endings stay.
- *Read and truncation.* A line budget, a byte cap, the end of the file and a
  line too long for a page coincide in every way. What must hold: who follows
  the notes sees every line once, in order, and comes to an end.
- *Paths.* A path is normalized by its names, then by the links of its deepest
  ancestor that exists, and walked again by the kernel when it is used, after
  other calls have changed the tree. What must hold: one place throughout, and
  inside the workspace.
- *HTTP surface.* Layers on merged and nested routers; unset, empty, blank and
  padded settings; durations too long to be one. What must hold: each route
  passes the checks meant for it and no others.
- *Environment.* Requests that come before the first answer probe side by side.
- *Entrypoint.* Stopped at any line, and started again for another owner; links
  from HOME into a part of the system that is shared. What must hold: the server
  runs as that owner, and owns its home and no more.

The hazards, each at its line and with the properties that cover it, are listed
in `PROJECT.json`.

## 2. Modules

| Module | Role |
|---|---|
| `AtomicFiles` | what `write` and `edit` promise: each call takes effect at one instant or not at all |
| `FileMutation` | the two tools, the queue, the atomic write, cancellation, crash and power loss |
| `MCFileMutation` | instances of it for TLC |
| `FileMutationProofs` | proofs about it |
| `BashTool`, `MCBashTool`, `BashToolProofs` | one `bash` call with its process group, its instances and proofs |
| `LegacySse`, `MCLegacySse`, `LegacySseProofs` | the legacy transport, its instances and proofs |
| `EditMatch` | what one call of `edit` does to a text |
| `Truncate` | the two truncations, and the answer of `bash` cut by one of them |
| `ReadPages` | extends `Truncate`: `read` under an agent that goes from page to page |
| `PathResolve` | calls that resolve a path, wait, and use it, over one tree with links |
| `FileTools` | these four side by side: a behaviour runs one of them |
| `MCFileTools` | instances of them |
| `FileToolsProofs`, `ReadPagesProofs`, `PathResolveProofs` | proofs about `EditMatch`, about `ReadPages` and `Truncate`, and about `PathResolve`; the first also about `FileTools` |
| `HttpSurface` | configuration and layers |
| `EnvironmentCache` | concurrent requests for the environment |
| `Entrypoint` | the container's start |
| `MCContainer`, `ContainerProofs` | instances of these three, and proofs about each and about the three together |
| `MCTools` | instances of `FileTools` and `BashTool` side by side |
| `MCServer` | instances of `MCContainer` and `LegacySse` side by side |
| `SequenceLemmas` | lemmas about numbers, sequences and folds that the proofs share |

`FileMutation`, `PathResolve` and `EditMatch` are three views of the same calls:
`FileMutation` takes resolution as one step and the new text as a constant
function `Edited` of the old one, `PathResolve` says where a call lands when the
tree has links, `EditMatch` what that function is. They are checked apart, as
none of them reads a variable of another. For the same reason the models in
`MCTools` and in `MCServer` sit side by side: a behaviour of either runs one
model and leaves the variables of the others idle, so each is checked over all
its inputs at the cost of the sum of their states. `BashTool` and `LegacySse`,
which came to them last, name their parts `BashInit`, `SseNext` and so on;
`MCBashTool` and `MCLegacySse` instantiate them alone.

### FileMutation

A call's `pc` is where its future is: before the lock (`idle`), in the queue
(`lock`), waiting for one file operation (`mkdir`, `read`, `create`, `fill`,
`sync`, `rename`, `remove`), or ended (`ok`, `error`, `gone`). An operation is
dispatched (`Dispatch`), run by the pool (`Run...`), and its result is seen when
the future is polled again (`Resume`), because `tokio::fs` works that way and
because cancellation falls between the three. `ahead` is the fair mutex: the
calls queued before this one. `file` is what programs see; `entries` is the set
of inodes a power loss may leave under the name, since only a directory sync
makes a rename durable, and an inode that was not synced comes back torn.

What a file holds is a whole text, `Torn` or `Cut`. A temp file is `Torn` from its
creation until it is filled, and stays so if the fill fails with an error. It is
`Cut` when the last chunk was lost and no error came of it: in tokio 1.53.1, the
version of `Cargo.lock`, `write_all` returns once its last chunk is handed to the
pool, and `sync_all` waits for that chunk, keeps its error for a later write or
flush, of which there is none, and syncs what there is. So `RunFill` may end
either way, and the call goes on as if all was written. `overtaken[e]` is history:
the rename of a call already cancelled has replaced the file since edit `e` read it.

| Code | Actions |
|---|---|
| validation, `resolve_in_workspace` | `Reject`, `Request` |
| `MutationQueue::lock`, drop of the guard | `Request`, `Acquire`, `Leave` |
| `create_dir_all`, `read` | `RunMkdir`, `RunRead`, `PrepareFails` |
| `edit` from the read bytes to the new text | `EditRefused`, `EditPrepared` |
| `write_inner`, `write_atomic` | `RunCreate` ... `RunRemove`, `StepDone`, `StepFailed`, `Committed`, `Removed` |
| the future dropped | `Cancel` |
| the process or the machine ends | `ProcessCrash`, `PowerLoss` |

Abstractions. A text is one value, and `Edited[e][x]` is what edit `e` makes of
text `x` (or `NoEdit`, for every error between the read and the write);
directories other than the entry of the target are left out; so is the
"invalid file path" error of `write_atomic`, which a resolved path to a file
does not meet. Temp names never collide (`random_hex(4)` is taken to be
unique).
`Reissue` uses the slot of a finished call for a new
one, but only once its last closure has run: a bound, as a slot with a closure
left over could otherwise be two calls at once.

### BashTool

`phase` is where the call's future is, `leader` the bash process, `proc` its
descendants (in the group, escaped from it, or dead), `holders` who has the
pipes open. `defused` is the drop guard's flag. A chunk is its stream and its
place in it, with the sequence number drawn before the list is locked (`Draw`,
then `Push`). `strayKill` records a `killpg` on a number that may by then name
another group: bash reaped and no member left.

The environment is any command: a process forks (`Start`), leaves the group
(`Escape`), closes its output (`Redirect`), exits, writes (`Emit`, at most
`MaxChunk` chunks per stream). Left out: what tokio does with an unreaped child
after the drop, the text of the notes, the truncation (it is in `Truncate`).
`Return` drops the `GroupChild` as the end of `run` does. An error of `wait`
ends the future in the same way as a cancellation and shares its action `Drop`.
A reader ends at the end of file (`EndOfFile`); that it ends at a read error as
well (`tools/bash.rs` 199) is left out.

### LegacySse

`entry` is the session map; `marked` stands for `disconnected_at` being set and
`expired` for its age being past the TTL. `stream` is the GET request and its
response, whose drop runs the disconnect guard. `service` is the spawned rmcp
loop; the transport's ends of the two channels live and die with it. `post` is a
POST handler: it looks the session up and clones the sender (`PostFinds`), then
waits for room (`PostSends`) or finds the channel closed (`PostClosed`).
`sse_handler` and `open` do not suspend, so `Open` is one step, and so are
`disconnect`, `sweep` and `close_all`, each under the map's mutex.

rmcp's loop is external; it is modelled from the `Transport` it is given: it
takes messages in order, answers each with at most one message, sends one at a
time, and stops on its token, on a closed input or on an error. rmcp may run
several sends at once; sending one at a time makes the cycle through the two
channels tighter, not looser. Time is abstract: TTL, sweep tick and
`SEND_TIMEOUT` elapse at some moment. `Renew` reuses the value of a session
nothing refers to any more for a fresh uuid.

### EditMatch

`editPc` follows `edit_text_file` between the read and the write: `EditStart`
(validation), `MatchNext` (`find_unique_range` and `adopt_line_endings` for one
edit), `CheckOverlap`, `ApplyNext` (`replace_range`, the last range first),
`Commit` (no change, or the new text with its BOM). `Piece` is one step of
`NormalizedText::new`, with the range it stands for; `NormalizeChars` is the
separate pass over a needle, as the code has it, so that their agreement is a
property and not an assumption.

Abstractions. A text is a sequence of characters and a position counts
characters, as every byte offset of the code is the start of one. `map_char`
and NFKC are constant functions `AsciiOf` and `Nfkc`; NFKC works on one
character at a time in the code. `EditAssumption` says of them what holds of the
Unicode data: NFKC makes of no character nothing, and of none something that
ends in a space, but of those that `map_char` has turned into one before. The
diff of the answer is left out.

### Truncate and ReadPages

A text is the sequence of its lines, a line the sequence of the widths in bytes
of its characters. `TakeHead`, `TakeTail` and `CutLine` are the loops of
`output/truncate.rs` as recursive functions. In `ReadPages`, `Read` is one call
of `read`, whose window (`WindowEnd`) is a loop of its own in `tools/read.rs`;
the agent's next call is the next `Read`. The agent goes on behind a line that
is too long for a page, which the answer leaves to `bash`. `append_note` drops
a page of blank lines (`Visible`); of other pages it drops the blank lines at the
end, which the properties tolerate and the model does not show. An image is read by the tool, replaced by
another program or not (`Swap`), and read again by the handler (`AttachImage`);
whether it can be decoded (`whole`) shows then only. Pixels, base64 and the
size limit of a file are left out.

### PathResolve

A tree maps paths to directories, files and links. `Walk` takes a path one name
at a time and goes on at the target of each link; `Canonicalize` is where it
ends. Both are the kernel's, modelled from its contract;
`LexicalNormalize`, `Redirected` and `Inside` are `resolve_in_workspace`.
`WriteTarget` is `create_dir_all` with the rename into the directory it finds; the temp file of
the write is left out, which for the path "." is made in the parent of the
workspace before the rename fails.
Between `Resolve` and either, the other calls may have changed the tree: this
is the time a call waits for its lock. Links of the model hold absolute paths;
a relative one leads to the same kind of place. Nobody but the tools changes
the tree: of a link that a command of `bash` changes meanwhile nothing is said
in the code, nor here. `LandsWhereResolved` speaks of the step in which a call
reads or replaces its file: what is true then of a link on its path, another
call may change afterwards.

### HttpSurface

`StartServer` is `from_env`, in the order of its questions, with the panic of
`Duration::from_secs_f64` where a value is above the longest one and its
rounding below. `Arrive` to `Respond` take one request through the layers:
`layer` is where it is, `reply` what became of it. Requests share nothing, so
one at a time is every case. `unknown` is a path that is no route: axum keeps
the fallback of the router merged last, which is `legacy_sse`'s and carries the
bearer layer. A text is a model value; `Trim` says which texts have blanks
around them. Left out: that the comparison of tokens takes constant time, and
the methods of a route.

### EnvironmentCache

`Look` is `info` up to the first `await`, `Probed` the end of a probe with the
answer, `DropProbe` a request that is cancelled. `OnceLock::set` keeps the first
value (`Kept`), while each request is told what its own probe said. `Mounts` is
the fold over the lines of mountinfo, where a later line over the same path
hides the one before. Left out: the name of the system and the unescaping of
mount points.

### Entrypoint

`phase` is the step of the script that comes next; `Stop` is a stop of the
container or a step that fails under `set -e`, at any phase, and `ChangeOwner`
gives the workspace to somebody else while the container is stopped. What
outlives a start is the state of the passwd file (`ids`, and `first`: mcpod's
line comes before any other of its uid) and the owners of `home`; `interrupted` and `walked` are
history. `RemapUser` includes what `usermod` does to the user's own files.
`Prepare` makes what is not there, as root, and may get to a part of it only.
`Link` are those of them that are
links to preinstalled versions, and `system` has the owner of what each leads to:
a link itself has the owner that made it, and `Walk` shows both sides of it, as
`find` looks at the link and `chown` without `-h` follows it. A `chown` by root on
files that exist is taken to succeed.

## 3. Runs

| Run | Instance | What it shows |
|---|---|---|
| `files` | a write and an edit of one file, both cancellable, and an edit of another file, which is missing; failures, crashes, power loss, reissue | `MutualExclusion`, `NoTornTarget`, `QueueSound`, `NoLostUpdate`, the refinement of `AtomicFiles` (`AtomicSpec`), `Answered` |
| `lost_update` | two edits of one file, the first cancellable | `NoLateOverwrite` is violated |
| `torn_answer` | one write | `WholeAnswer` is violated |
| `tools` | one call of `edit`, one file or image read to its end, one output, or two calls with paths | `Spliced`, `OverlapIsRefused`, `NormalizersAgree`, `RangeIsOldText`, `OldTextIsUnique`, `EndingsKept`; `PagesInOrder`, `PageIsHead`, `PagingEnds`; `TailIsLongest`; `LandsWhereResolved`, `ShellAgrees` |
| | or one call of `bash` with a time limit, two descendants, two chunks per stream | `BashTypeOK`, `TimeoutKillsTree`, `EarlyCancelKillsTree`, `NoStrayKill`, `OutputIsPrefix`, `OutputIsWhole`, `Answered`, `ReadersEnd` |
| `edit_crlf` | one edit of a text of CRLF lines | `CrlfPreserved` is violated |
| `edit_repeated` | one edit of a text of one character and breaks | `OldTextOccursOnce` is violated |
| `bash_late_cancel` | no limit, one descendant | `CancelKillsTree` is violated |
| `server` | one container, one server, or four requests for the environment | `RunsAsOwner`, `HandedOver`; `GuardedRoutes`; `EnvironmentAgrees` |
| | or two sessions, one POST slot | `SseTypeOK`, `OpenIsLive`, `LiveIsOpen`, `EndedIsCancelled`, `DeadAreSwept`, `PostsAnswered`, `ShutdownReaches` |
| `home_handed_over` | one container | `HomeIsWritable` is violated |
| `system_tree` | one container | `SystemTreeStaysRoots` is violated |
| `sse_shutdown_race` | one session | `ShutdownCancelsAll` is violated |
| `sse_dead_session` | one session, one POST | `DeadRefused` is violated |

Each passing run checks `TypeOK` as well. They have about 170,000, 580,000 and
610,000 states, and none takes five minutes.

Bounds.

- *Files.* A lost update needs a call that computes from the text and one that
  commits in between; texts of two halves, of which each call changes its own or
  both, make every loss visible. Cancellation, crash and failure may strike any
  call at any step, any number of times. A second file is there to be left alone.
- *Bash.* One descendant that stays and one that escapes are enough to tell the
  group from the tree; two chunks on a stream are the least for an order, and
  the counter shared by two streams gives all interleavings of drawing and
  pushing.
- *Legacy SSE.* `Capacity` 1 stands for 64: a channel is empty, partly used or
  full, and 1 makes it full with the fewest steps. The slot of a POST is used
  again for the next one, so both channels fill up.
- *Edit.* Texts of up to four characters, over a character that becomes two, one
  that stands for a blank, both breaks and the BOM: four is the least for a
  range in the middle with a CRLF at one end, and for two ranges that touch.
  Three edits are the least for two that overlap and are not neighbours in the
  order of the call.
- *Read and output.* `MaxLines` 3 and `MaxBytes` 5 against texts of up to four
  lines of one to six bytes in characters of one to three: both limits are
  reached, exactly and by one, together and apart; a line alone is too long; a
  cut falls inside a character. Offsets start at 0, limits lie on both sides of
  the budget.
- *Paths.* One link, or one that leads to another, is enough for every way a
  path leaves the workspace and comes back; two calls are the least for one to
  change what the other has resolved. `Hop` runs to 8, which is more than any walk in
  these trees that ends takes.
- *HTTP.* One value of each kind for each setting and each header; `Resolution`
  4 makes a duration round to zero, `MaxDuration` 1000 makes one overflow.
- *Environment.* Two requests whose probes meet and two that come later.
- *Entrypoint.* One directory and one link that the script makes; the ids of root, of the image, of another user of the image and
  of nobody. Starts, stops and owners are not bounded.

The theorems of section 5 have none of these bounds.

`CHECK_DEADLOCK FALSE` where the system ends: in `BashTool` (the call does),
`LegacySse` (the server process exits), `MCFileTools` (so do its calls) and
`MCContainer` (a server fails to start, requests are answered), and so in
`MCTools` and `MCServer`.
`FileMutation` is checked for deadlock.

### What the nine violations say

- `NoLateOverwrite`. "Concurrent tool calls on the same file cannot lose
  updates" (`fs/mutation_queue.rs` 4-5) fails for a request cancelled while its
  rename waits in the blocking pool: the guard goes with the future, the rename
  stays. The premise, that a cancelled request drops the tool's future, is that
  of `process/process_group.rs` 6-7 and of the test at `tools/bash.rs` 406.
- `WholeAnswer`. `write_inner` reports a failed write ("failed to write temp
  file", `fs/atomic_write.rs` 29-31) and "the whole call is atomic"
  (`README.en.md` 220); a last chunk that meets a full disk is reported to nobody,
  and the temp file, synced as far as it goes, replaces the target. A `flush`
  before `sync_all` would report it. `NoTornTarget` says what does hold: a crash, a
  power loss, a cancellation or an error that is reported leaves no torn target.
- `CancelKillsTree`. "Dropping the tool future takes the whole tree down too"
  (`process/process_group.rs` 5-7, `README.en.md` 215) fails after bash was
  reaped: `wait` disarms the guard, and the call then drains for up to two
  seconds. Before that moment `EarlyCancelKillsTree` holds.
- `ShutdownCancelsAll`. "Cancel every session" (`transport/legacy_sse.rs` 169)
  fails for a session opened after the sweeper has run `close_all` and ended.
- `DeadRefused`. "Unknown or dead sessions yield None" (125-126) fails for an
  entry marked disconnected: `deliver` looks the entry up, not at the mark.
- `CrlfPreserved`. "CRLF endings and UTF-8 BOMs are preserved"
  (`README.en.md` 220) fails for an `oldText` that begins with LF: it matches
  the second half of a CRLF exactly, before normalization is tried, and the
  text put there, converted to CRLF, leaves the CR of the old one behind.
  `EndingsKept` holds for ranges that split no CRLF.
- `OldTextOccursOnce`. "Must match exactly one unique, non-overlapping region of
  the original file" (`tools/mod.rs` 119-120, also `README.en.md` 218-219,
  `server.rs` 123) fails for an `oldText` whose places share characters, as those
  of "aa" in "aaa": `match_indices` goes on behind a match. The search of the
  normalized text counts such places. `OldTextIsUnique` says what does hold: the
  first place is the one edited, and every other begins inside it.
- `SystemTreeStaysRoots`. "The preinstalled system runtimes ... stay read-only"
  (`scripts/docker-entrypoint.sh` 75-78, `Dockerfile` 137-138) fails with the first
  start that remaps mcpod: `find` takes a version link for stale by the link's own
  owner, `chown` follows it, and the version's directory in the system tree is
  mcpod's from then on. The link stays root's, so it is stale again next time.
- `HomeIsWritable`. "[mise] state ... lives in its HOME so `mise install` works as
  an unprivileged user" (`Dockerfile` 135-136) fails for a workspace of the
  image's own ids: nothing is remapped, so nothing is walked, and what the
  entrypoint has made in HOME as root stays root's. A start cut short between
  `usermod` and the walk has the same effect on the next one. `HandedOver` says
  what does hold.

Two more places where code and text disagree have no run of their own; the
properties leave the case open, so that they hold whichever side is right.

- `http://[::1]` without a port. `README.en.md` 136 and `config.rs` 24-25 and 81-82
  allow a loopback origin on any port; `config.rs` 96 cuts the "port" at the last
  colon, which here is inside the address, and refuses it. `GuardedRoutes` asks
  that every request fit for a route reach its handler, but for those with this
  origin (`Portless6`); that none that is not fit gets there holds of all.
- Ranges that touch. The comment at `tools/edit.rs` 60 says "reject the whole call
  if any two ranges touch"; the check below it (line 70) lets ranges pass that
  touch without sharing a character, as `README.en.md` 219 ("must not overlap")
  has it. `OverlapIsRefused` forbids to accept an overlap and to refuse ranges that
  are apart, and `Spliced` says that touching ones, accepted, are edited each by
  itself.

## 4. Fairness

- `FileMutation`: weak fairness of the pool on each call's dispatched closure
  and of the runtime on each call's future. tokio polls what is ready and its
  pool runs what it was given; the mutex is fair, which `ahead` states.
- `BashTool`: weak fairness of the future (it includes both timers) and of each
  reader. Nothing is assumed of the command, nor of the client.
- `LegacySse`: weak fairness of handlers, streams, service loops, timers, sweeper
  and server; strong fairness of a POST's send, because a tokio channel serves
  its senders in order of arrival, so a sender that waits is not overtaken for
  ever. Nothing is assumed of clients: they may stop reading and never leave.
- `FileTools`: weak fairness of `Read` and `AttachImage`. The handler of a
  request finishes; that the agent asks for the page a note names is the premise
  of `PagingEnds`, not a promise of the code: the property says that following
  the notes comes to an end, not that somebody follows them.
- `MCContainer` states none, as its properties are all invariants.
- `MCTools` and `MCServer` state those of the models they put side by side.

## 5. Proofs

All are checked by TLAPS for every value of the constants.

`FileMutationProofs`. The invariant `IInv` is `TypeOK` with the queue
(`QueueSound`, and mutual exclusion from it: of two holders one would be ahead
of the other, but nobody is ahead of a holder), the state of each call's temp
file as a function of where the call or its left-over closure is (a rename is
pending only on a synced inode that is not `Torn` - what `NoTornTarget` needs), and
that the same holds of every file and of all a power loss may leave of it.
`UpToDate` adds that what a holder has read, or computed from it, is still what
the file holds unless it was `overtaken`. Theorems: `TypeCorrect`, `QueueCorrect`,
`MutualExclusionHolds`, `NeverTorn` and `NoUpdateIsLost`, all with cancellation.
The exception in the last one is needed, as the run `lost_update` shows, and is
the only one.

`ImplementsAtomic` says that `FileMutation` implements `AtomicFiles`, cancellation
included. `AtomicFiles` states the two things in which the code falls short of one
instant per call: a text that has lost its end, and a cancelled call that lingers,
takes effect late and makes the edits it overtakes be applied to a text that is no
longer there. The mapping is by status: a call is open until its rename, applied
from the rename to its answer, then done or failed; cancelled with its rename in
the pool, it lingers. Three kinds of steps move it: the rename, which is where the
abstract call takes effect (it needs `UpToDate`, that what the call computed from
is what the file holds, and `CarriesText`, that a write carries its own text, and
an edit what it makes of some text, to the rename), at once (`RenameApplies`) or
late (`RenameLingers`); the poll that sees the result; and a crash or a power
loss, where the inodes a disk may come back with are the texts the abstract file
has had since its last sync. Every other step is a stutter.

`BashToolProofs`. Two halves. For the kills, `GuardSound` says that the drop
guard is armed exactly until bash is reaped, and that no phase before the drain
has it disarmed; then every `killpg` finds bash unreaped (`NoStrayKill`), and
once it has struck nobody is left who could start a member of the group
(`TimeoutKillsTree`, `EarlyCancelKillsTree`). For the output, `ReaderSound`
says that the chunk a reader has in hand comes after all that it has pushed, in
place and in number, `ListSound` that the list is in order and, until it is
taken, complete, and `EndSound` that a reader ends before the collection at the
end of file only. From these the answer is, at the moment it is taken, an
initial part of each stream (`OutputIsPrefix`), and all of it if both readers
had ended (`OutputIsWhole`): then nobody has the pipes open, and nobody can
open them again. The theorems hold for any set of descendants and any amount of
output.

`LegacySseProofs`. `OpenIsLive`, `LiveIsOpen` and `EndedIsCancelled` support
each other; `EntrySound` adds that a session without a stream has no entry and
that a marked entry has lost its stream, and `PostSound` that a POST with a
sender names a session whose channels exist. Theorems: `TypeCorrect` (so both
channels are bounded), `OpenStaysLive`, `NoOrphanEntry`, `NoOrphanService`.

`FileToolsProofs`, about one call of `edit` on any text over any characters with
any normalization. The lemmas say what the loops of `EditMatch` return: the
pieces of a normalized text come from positions that never go back, so a match
in them is a range of the original; `MatchIndices` jumps over what overlaps a
match it has found, but finds the first one (`MatchIndicesCover`), so one match
by its count is the first place, and the others begin inside it (`OnlyOnePlace`). `EditInv` says at each phase
what the ranges found so far are; two facts carry the rest. `NeighboursSuffice`:
the code compares only neighbours of the list sorted by start, and that is
enough for all pairs, because each range ends before the next begins
(`OverlapsAreRefused`). And `SpliceGoesOn`: replacing the last range first
leaves the positions of all the others what they were, so each round turns the
text that is spliced in its last ranges into the one with one range more
(`EditsAreSpliced`). The third theorem is `OldTextsAreUnique`. The fourth,
`NormalizersMirror`, compares the two passes of the normalization: what the one
over a needle has kept of the first characters is what the pieces of the file
give, but for a run of blanks at the end, which it still counts (`Meets`). What
comes next decides at once what becomes of them in both: they are dropped before
a break or the end (`BlanksDropped`) and are spaces otherwise (`BlanksKept`).
The fifth, `RangesHoldOldTexts`, is `RangeIsOldText`, for a range found exactly
or after normalization. A needle never ends in a blank (`NeedleEnds`), so neither
does the range it matches; of the characters a piece stands for only its own
becomes any (`PieceAround`), and the range does not begin between a CR and its
LF. Such a part of a text is normalized as it is inside the text (`HeldPiece`,
`HeldText`): whether a blank stays is decided by what comes before the end of
the part. And if the characters at its ends become one each, what comes before
the range and what goes up to its end are as long as the match has them
(`RangeText`), so that both are the same text (`EndsMeet`).
The last, `EndingsStay`, is `EndingsKept`: an invariant of its own, `Adopted`,
says that each new text was given the endings of the file, and the lemma
`CrlfSplice` goes through the spliced text character by character. After each of
them it is a text with CRLF only, or such a text and the CR of a CRLF that is
kept (`Closes`): the LF that follows is then kept as well, and nothing is
inserted before it, because no range begins or ends there. That is where the
proviso on the ranges is needed: without it the run `edit_crlf` violates the property
(`CrlfPreserved`).

`ReadPagesProofs`, over `ReadSpec` and `TailSpec`, for any text, caps, limits
and offsets. The bytes of a line and of a text are sums (`TextBytesIs`), which
grow with what is appended. The window of `tools/read.rs`, cut again by
`take_head`, is then the head of the text that is longest within both caps
(`WindowIsHead`): where the loop of the window stops, that of `take_head` on all
that was asked for would stop as well. `ReadInv` keeps that each page is such a head and that `shown` runs on
to its end, from which `PagesFollow` and `PagesAreHeads`. For `bash`,
`TailsAreLongest` says that what an answer shows is the longest end within both
caps: whole lines if one fits, else the longest end of the last line, cut
between characters.

`PathResolveProofs`, for any tree, links and number of calls, while the tools are
the only ones to change the tree. The invariant `PathInv` says that the workspace
stays a directory and that the target of a call that waits is `Safe`: no prefix
of it that leads anywhere leads out of the workspace. That the target itself is
in the workspace would not be enough: a link on it may dangle when the path is
resolved and lead somewhere later. `resolve_in_workspace` returns a safe path
(`ResolvedIsSafe`) because what it finds of the path is canonical, so a link can
come only after the last name that leads anywhere, and nothing is behind a name
that leads nowhere (`RedirectedStays`). It stays safe (`StaysSafe`) because a
walk after a write ends where it ended before or in what the write has made
(`EndsAsBefore`), and all of that is in the workspace (`WriteWithin`).
`LandsWithin` is `LandsWhereResolved`: the entry a call touches is in the
workspace, and is its target if no name of the target is a link. `AgreesWithShell`
is `ShellAgrees`: normalizing a path without ".." drops its "." and no more
(`NormalizePlain`), and a path that leads to an entry is redirected to it
(`RedirectedWhole`). All three
have the hypothesis `Hop = Nat`: a walk may take any number of steps. In the run
a walk has a limit; the kernel's own, on chains of links, is not modelled. What
does not depend on it is kept apart, in `PathTyped`: that a write leaves a tree
and that the calls hold paths (`PathType`) holds for any `Hop`.

`ContainerProofs`. The server: `ConfigSound` says that a server that runs has the
configuration its environment asks for, `LayerSound` what a request has shown
when it comes to a layer; the lemmas `OriginChecked`, `TokenChecked` and
`HostChecked` say that each check of the code, on the configuration, is the
property's, on the environment, but for the origin that is left open. `RoutesAreGuarded` follows for any environment,
any requests and any way blanks are trimmed. The entrypoint: `WantSound` ties
each phase to what the script knows by then, the owner it has read and mcpod's
ids after each of the two remaps. `NameSound` says that mcpod's line comes first
wherever its uid is taken, but between `usermod` and the move of the line.
`HomeSound` says that once HOME was handed over it belongs to mcpod's ids, its links
to the system tree aside (`AllOwned`),
unless this very start has remapped them and not walked yet; a remap of the
group alone breaks it already, so it names the phase after. Theorems:
`ServerRunsAsOwner` and `HomeStaysHandedOver`, for any ids, any entries and any
history of starts. The environment: `CacheSound` says that once somebody was
answered the cache is known, and whoever came later was told what it holds
(`LateRequestsAgree`); `ToldInv` that whoever was answered was told the mounts
of the table, and the lemma `MountsAre`, by induction over its lines, that the
fold keeps of each mount point what its last line says (`MountsAreTold`);
together they are `EnvironmentAgrees` (`RequestsAgree`).

The three are proved apart and then side by side: `Invariance`, `TypeCorrect`
and `SideBySide` are about the specification of `MCContainer`, which the run
`server` checks beside the sessions, each of whose steps moves one part and leaves the variables of the
others alone. `TypeCorrect` includes that the configuration of a server that
runs has durations that are durations: `RoundingFits` says that rounding to the
resolution does not leave the range the check has allowed.

Induction over data. The library's induction theorems take an operator, which
the provers cannot instantiate. `SequenceLemmas` goes around that: a property
of numbers is the set of those that have it, and the least number outside that
set cannot exist (`Induction`, `Climb`). A recursive function is a CHOOSE: a
lemma shows that some function satisfies its equation, from which the chosen
one does (`Recursion` for folds, `Searches` for the loops that stop at the first
line that does not fit), and the equation then carries the induction.

The theorems about one component are over its own specification (`EditSpec`,
`ReadSpec`, `TailSpec`, `PathSpec`, `EntrySpec`, `HttpSpec`, `EnvSpec`). The runs of
`MCFileTools` and the part of `tools` that is not about `bash` check the file tools
side by side, and so do the last theorems of `FileToolsProofs`: of each part, `Spec` is either its own specification or leaves
it idle for ever (`EditSide`, `ReadSide`, `TailSide`, `PathSide`), and what is
idle violates nothing. `FileToolsType` is `TypeOK` of that run, `ToolsSideBySide`
and `PathsSideBySide` are its safety properties. `MCTools` and `MCServer` add one
model each, whose theorems are over `BashSpec` and `SseSpec`.

Assumptions, all named in the models: `CallAssumption` and `ContentAssumption`
(calls and texts are what they are called; an edit that changes nothing is an
error, `tools/edit.rs` 86-91), `SseAssumption`, `BashAssumption`,
`EditAssumption` (a break is neither a blank nor the BOM, normalization makes texts of characters,
none of them empty or with a space at its end, and `map_char` leaves blanks and breaks alone), `TruncateAssumption` and `ReadAssumption` (caps and line budgets
are positive numbers, lines are sequences of widths), `PathAssumption` (what
lies above an entry is a directory, the workspace is one and its path, which
`canonicalize_root` made, has no ".."), `HttpAssumption`
(trimming makes a text of a text, routes are named, the defaults are durations), `ConfigAssumption`
(a configuration that was made is not the mark of none),
`EntrypointAssumption` (the image's mcpod is not root and shares its uid with
nobody, links are among the entries the script makes), `EnvAssumption`.

Only model-checked: everything under fairness (`Answered` twice, `ReadersEnd`,
`DeadAreSwept`, `PostsAnswered`, `ShutdownReaches`, `PagingEnds`), out of the
prover's reach.

## 6. Not modelled

- rmcp's protocol loop, in both transports, but for what the channels of the
  legacy transport show of it; `list_tools`, schemas and the wording of answers.
- The instructions of the server (a fixed text), `random_hex` (temp names are
  taken to be distinct), logging, the command line and the health check command.
- The growth of the mutation queue's map of locks: an entry per path for ever,
  by design.
- The diff of an answer of `edit`, `format_kb`, `os_name`, the unescaping of
  mount points: conversions no property is about.
- A read error of a pipe of `bash`, and the temp file of a write in `PathResolve`
  (section 2).
- Temp files left behind by a crash: nobody removes them, and nothing is said
  of them.
- Build files and the acceptance script.

## 7. Plan

1. `LegacySse` with the bearer and Origin layers in front of GET and POST.
