# A verification project for miau

miau is an IRC bouncer: it keeps one connection to an IRC server open, and
clients of its owner attach to it and detach from it. It is a single-threaded C
program (`src/src`) around one `select()` loop, `run()` in `miau.c`, that reads
the server, the attached clients and one client that is registering, and calls
`check_timers()`, which does the work of a second when a second has passed.
Signals add a little: SIGALRM ends a connection attempt, SIGHUP rereads the
configuration, SIGTERM and SIGINT end the program.

What makes it hard is not parallelism but order: lines are on their way to and
from the server while clients attach and detach, the connection is lost, the
configuration is reread and counters that several functions share run up and
down. This project models those parts in TLA+, checks them with TLC and proves
the main results with TLAPS.

File names without a path are in `src/src`.

## Inventory

| Part | State | Operations | Properties that make it correct |
|---|---|---|---|
| Send queue (`irc.c`, refill in `check_timers()`) | `msg_queue`, `msgtimer`, `floodtime` | `irc_write()`, `irc_write_head()`, `irc_process_queue()`, `irc_clear_queue()` | order and rate of lines, nothing survives its connection, the queue moves |
| Server list and connection (`server.c`, `run()`, JUMP, STONED, `rehash()`) | `servers`, `i_server.current`, `servers.fresh`, `working` marks, `status.good_server`, `timers.connect`, the socket and its timer | `server_change()`, `server_drop()`, `server_check_list()`, `server_set_fallback()`, `server_reset()`, `irc_connect()` | the pointer stays in the list, only failures mark, a walk ends, JUMP is honoured, miau gets back online |
| Channel lists (`channels.c`, callers in `server.c`, `client.c`, `miau.c`) | `active_channels`, `passive_channels`, `old_channels`, `jointries` | `channel_add()`, `channel_rem()`, `channel_join_list()`, `clients_left()` | one home per channel, agreement with the server, channels are joined or given up |
| Client sessions (`read_newclient()`, `fakeconnect()`, `client.c`) | `c_newclient`, `status.init`, `status.passok`, `c_clients`, timers | accept, PASS/NICK/USER, `client_drop()`, `drop_newclient()` | only with a password, at most `maxclients`, a registering client cannot block the others |
| Nick keeping (`get_nick()`, 433/437) | `nicknames`, `getting_nick`, `got_nick` | timer, NICK, errors | registration with what the server accepts, the wanted nick in the end |
| Away (`set_away()`, `cmd_away()`) | `status.awaystate`, `awaymsg` | AWAY of clients, attach, detach, 001 | what miau believes the server shows is what it shows |
| Quicklog and inbox (`qlog.c`) | list of lines with times, inbox file | write, replay, flush, check | no private message is lost unseen |
| Forwarding (`server.c`, `check_timers()`) | `forwardmsg`, `timers.forward` | append, fork of a command | messages are forwarded in the end |
| Automode (`automode.c`, `parse_modes()`, RPL_NAMREPLY) | `oper` and `mode_queue` of each entry, `status.automodes`, `timers.automode` | queue, do, drop | what is due is given, the timer does not stop before, miau is operator where it thinks so |
| DCC bounce (`dcc.c`) | table of bounces, sockets | initiate, resume, accept, copy, timer | every descriptor has one owner, a bounce is connected or given up |
| Ignore list on tables (`ignore.c`, `table.c`) | array with holes, `allowreply` | add, count down, compact | a host is ignored for its time, replies keep their distance |
| Lists (`list.c`, `llist.c`) | nodes and pointers | insert, delete, move | pointers represent a sequence |
| Wildcards and permissions (`match.c`, `perm.c`, `matchlist.c`) | none | match, chain of rules | who is permitted is covered by a rule that permits |
| Logs (`privlog.c`, `chanlog.c`) | open files, timers, rules | open, close, finalise | a log is finalised once, a channel has the log that is asked for |
| Configuration (`parser.c`, `rehash()`) | `cfg` and lists, `listid`, `virgin`, errno | parse, rehash | a good file is read as it stands, state that outlives the old settings stays valid |

How they interact: everything that talks to the server goes through the send
queue. `server_drop()` clears the queue, moves channels from the active to the
passive list and ends the session state; `server_change()` then picks the
server that `run()` connects to when its timer allows. RPL_WELCOME turns the
connection into a session: the join timer and attaching clients rejoin the
passive channels. The last client that detaches (`clients_left()`) may leave
the channels. `rehash()` replaces settings and the server list under all of
these.

The hazards of the whole program, each at its line, are in PROJECT.json.

## Plan

The order is that of importance to a user: getting lines out, staying online,
staying on channels, then sessions and the rest.

1. `SendQueue`, with the abstract `Outbox` it implements. *Done, proved.*
2. `ServerConn`. *Done, proved.*
3. `Channels`, with the server at the other end. *Done, proved.*
4. `Away`, what miau believes about the away state against what the server
   shows. *Done, proved.*
5. `Session`, the handshake of a new client and the table of clients through
   the turns of `run()`. *Done, proved (its liveness only model-checked).*
6. `Nick`: the list of nicks, the tries at a server that refuses some, and how
   the first one is got back. *Done, its safety proved.*
7. `QuickLog`: lines with times, replay, flush and inbox, and what becomes of
   private messages. *Done, proved.*
8. `DccBounce`, descriptors and deadlines. *Done, its safety proved.*
9. `Automode` and `Chanlog`, what an entry of the channel lists holds, composed
   with `Channels` and the people on a channel in `ChannelState`. *Done, its
   safety proved.*
10. `Forward` and `Privlog`, timers against messages, composed in `Messages`.
    *Done, proved (its liveness only model-checked).*
11. `Config`, what the parser keeps from file to file, composed with the
    settings of `Away`. *Done, proved.*
12. Algorithms: `Lists`, pointers that implement the sequences of `NodeList`;
    `Ignore`, the table with holes on the same heap, as the set of
    `IgnoredHosts`; `Match` against the meaning of a mask. *Done, proved.*

Left: a composition of `SendQueue`, `ServerConn` and `Channels`, in which a lost
connection empties the queue that the channels are asked for with (the modules
meet in `server_drop()`, whose effect on each is in each of them).

## Modules

`Outbox` is the promise of the send queue: a box of lines, some of which have
left, and a budget that grows with time. Its actions are accepting lines at the
end, letting one overtake, letting time pass and discarding everything.

`SendQueue` is `irc.c`'s queue with `check_timers()`' refill. `msg_queue`,
`msgtimer` and `cfg.burstsize` have their names from the source; `age` is
`newtime - floodtime`; `wire` holds what the last step sent. `WriteTail` is
`irc_write()`, `WriteHead` is `irc_write_head()`, `ProcessQueue` is
`irc_process_queue()` with the double cost of a MODE, `CheckTimers(d)` is a turn
of `check_timers()` that finds `d` seconds gone, `Register` is the PASS, NICK
and USER of `irc_connect()`, `Push` the PONG and MODE written at the head,
`WriteUnchecked` the anti-idle PRIVMSG and the answer to a CTCP that are written
whether or not a server is connected, `ServerDrop` clears the queue and `Rehash`
changes the burst size.

`ServerConn` is the server list as a sequence; the fallback entry that
`servers.servers` begins with is index 0, and `Nowhere` is the pointer that
`i_server.current--` leaves. `ServerChange` is `server_change(next, disable)`
with its walk, its early return for a good server, `nevergiveup` and the exit
of a miau without a working server. The outcomes of `irc_connect()` are the
actions under `Connect`; `ConnectRaced` is the alarm that goes off after
`connect()` has returned and closes the socket of a connection that `run()`
believes in. `Reread` is what `read_cfg()` does to the list, and `Rehash`,
`RehashBind` and `RehashIdentity` are the three ways through `rehash()` that
differ for the connection. `fate` says how the process ended, if it did.

`Channels` has the three lists of `channels.c` (a set each for active and
passive channels, a sequence for the old ones, which may repeat a name),
`jointries`, and the lines on their way: `out` holds JOIN, PART and JOIN 0 lines
with the channels that they name, `in` the server's JOIN, PART and KICK of miau.
`member` is where the server has miau. `Activate` is
`channel_add(LIST_ACTIVE)`, `Deactivate` and `Forget` are `channel_rem()`,
`JoinPassive` is `channel_join_list(LIST_PASSIVE)`, `Leave` is what
`server_drop()` and `clients_left()` do to the lists. `Fits` is the cutting of a
line at IRC_MSGLEN by `irc_write_smart()`, with `LineCap` names to a line. The
server answers a line channel by channel and may refuse a JOIN. `Rehash` does not
touch the list of channels: `channels` of miaurc is read at startup only
(`parser.c:706`).

`Away` has the two bits of `status.awaystate` (`away`, `custom`),
`status.awaymsg` and, external, the message `shown` at the server. `SetAway`,
`ClientsLeft` and `Detached` are the functions `set_away()`, `clients_left()` and
`client_drop()` on these four; the actions apply them where the code calls them.
A connection is `accepted` before its RPL_WELCOME is read: `cmd_away()` passes an
AWAY on whether or not miau is registered, and then it counts. `wish` remembers
what the user has set by hand.

`Session` is `run()` turn by turn: `Select` chooses what `select()` reports, and
`pc` goes through the server, the listening socket, the clients, the registering
client and `check_timers()`, in the order of the code. Descriptors are numbers
that `accept()` takes from the bottom, so that one that was closed in a turn
comes back in it. `registering`, `socket`, `init`, `passok` and `timer` are
`i_newclient.connected`, `c_newclient.socket`, `status.init`, `status.passok` and
`c_newclient.timer`, and `idle` the timers of the clients in the table.
`AcceptFails` and `AcceptDenied` are the two ways in which `sock_accept()` has no
client, `NewclientBlocks` is the `recv()` on a blocking socket that was not the
one reported. `said` is what the registering client has really sent.

`QuickLog` has the list `qlog` of `qlog.c`. A line has an age instead of a time
stamp, a flag for private messages and a `fate`: nobody has seen it, clients got
it live (`seen`), it was replayed to a client that attached, or a client asked
for it with QUICKLOG. The clock counts seconds. `Flush` is `qlog_flush()`, `Replayed` is `qlog_replay()`,
`Write` is `qlog_write()` with the flush at its beginning. `Attach(late)` is
`fakeconnect()`: it reads the clock for the flush (`miau.c:1597`) and again for the
replay (`miau.c:1693`), with writes to the client and the server in between; `late`
says by how many seconds, any number of them, the clock went on. The erasure takes
every line whatever the time is. `FlushQlog`, `ReplayQlog` and `DelInbox` are the
commands FLUSHQLOG, QUICKLOG and DEL, `Rehash` is `rehash()`, whose
`free_resources()` drops every line, and `Restart` the exit and the next start.
`lost` notes in which of these ways a private message that nobody has seen was
dropped while the inbox was open.

`Messages` composes `Forward`, the buffer `forwardmsg` with `timers.forward`, and
`Privlog`, the list `open_logs` with `timers.privlog`; both have operations on
their own state only. `PrivateMessage` is `parse_msg_me()`, `Say` the logging of
`cmd_privmsg()`, `Tick` a second of `check_timers()`, in which `popen()` and each
`fopen()` may fail, `Exit` is `escape()`. `mark` is, external, the last header or
footer in the file of a nick. When `fopen()` fails for an entry of the list,
`privlog_write()` frees the entry and leaves it there (`freed`): what a later
walk of the list does is undefined in C, and here it finds nothing of use or ends
the program (`Crash`).

`Nick` has the list `nicks`, the place `current` on it (an index, NULL, or `Freed`
after a REHASH), and what `status.nickname` and `status.got_nick` say. `GetNewNick`
is `get_nick()`, `Connect` the start of a connection in `run()`, `Tick` the getnick
part of `check_timers()`, `NowKnownAs` the server's NICK about miau. `lines` are
the NICKs that have not been answered; the server judges one when its answer is
read, by the set `refused` that others change at will. `Leave` is the NICK that
`remote_cmd()` sends for somebody else, `Forced` a change by the network.

`DccBounce` has the table `dccs` and, external, the descriptors that are `open`.
`pc` goes through a turn of `run()` as in `Session`: `Select` reports readers and
leaves the set of writers as `Readers` and `Writers` (`dcc_socketsubscribe()`)
filled it, clients are read, and `Bounce` is `dcc_socketcheck()`, one entry at a
time; an action of its own for each way through it. `Offer` is
`dcc_realinitiate()` with the entry and the socket that stay when it succeeds.
`Tick` is `dcc_timer()`. `lost` collects descriptors that nobody knows any more.

`Lists` has `list.c` and `llist.c` as functions from nodes to their links, with
`Junk` in memory that was freed or never written, and one list of each kind in
the same memory. `Chain` follows the links it is given. `NodeList` is what a list promises: a
sequence of nodes in which any place may grow, any node go and the first move.

`Ignore` extends `Lists` with the array `ignores` of `table.c` and with entries
that come from the same heap. `TableAddItem`, `TableRemItems` and `TableCompact`
are the functions of those names; an item that is taken out leaves a hole, and
holes at the end go. `Reply` is the answer to a CTCP query with `ignore_add()`,
`Second` is `ignores_process()` with the reply timer of `check_timers()`, and
`UseLists` lets anybody else use the heap. `IgnoredHosts` is what the list
promises: a host with the seconds for which it is ignored.

`Automode` extends `Channels` with the fields `oper` and `mode_queue` of an entry
(`oldoper` for the entries of `old_channels`, which may repeat a name) and with
`status.automodes`. `NamesReply` is RPL_NAMREPLY, `ParseModes` and `ModesChange`
the MODE of a channel, `AutomodeQueue`, `AutomodeDrop` and `AutomodeTimer` are
`automode_queue()`, `automode_drop_nick()` or `automode_drop_channel()`, and the
timer with `automode_do()` and `automode_clear()`. `AutomodeFollows` is what
happens to the fields in the steps of `Channels`: `FollowOper` when
`server_drop()`, `clients_left()` and `channel_add()` set them, `FollowQueue`
when an entry goes. `Chanlog` does the same for the log of an entry: `ChanlogOpen`
is `chanlog_open()`, with a log of the channel's own rule, one of the rule for
all channels, or one that could not be opened; `ChanlogRehash` is the closing
and opening in `rehash()`.

`ChannelState` composes the three: `ListStep` is any step of `Channels` with
`Follow`, `RehashAll` the one of `rehash()`. The channels themselves are
external: `people` who is on them, `chanop` where miau is operator, and the lines
that the server sends about it, which are read in their order by `NewsReply`
(`JOINED`, `PARTED`, `KICKED` and `QUIT` of others, `MODE` and `NAMES`). What a
MODE line means is said a second time, independently of `ParseModes`, by `Takes`
and `Param`. `ParseModes` goes through the line one flag at a time with `ParseFlag`.

`Match` has `match()`, `match_replace()` and `is_perm()` as functions of their
arguments, and `Covers`, what a mask stands for. It has no state;
`ChannelState` extends it and asks what masks decide where miau starts
(`MasksDecide`).

`Config` is `parse_cfg()`: a file is a sequence of lines, each a setting, the
opening of a list, an item, a `}` or one that is refused. `ListAt` is the list
that the parser takes a line to be in, for which `listid` counts when the file
begins, since it is `static` and survives from file to file. `AssignInt` is
`assign_int()` with what `strtol()` leaves in `errno` (`erange`) and the
truncation to an int. `Read` and `ReadRest` say what a file makes of the
settings. `Reload` is `rehash()`: the `Rehash` of `Away` with what was read.
`ConfigInit` is a miau whose first file passed `check_config()`, and `Holds` and
`Says` are what a file means to a reader.

## Runs

| Run | States | What it shows |
|---|---|---|
| `send_queue` | 11 147 | `ImplementsOutbox`, `NothingLeftOver`, and that the queue moves and plain lines are sent in the end if no line is put at the head for ever |
| `server_conn` | 16 543 | `WalkEnds`, `BlamesItsOwn`, `JumpIsHonoured`, `Reconnects` with an empty list, one server, three servers, and two of which one is entered twice |
| `channels` | 307 710 | `OneHome`, `Agreement`, `Settles` with two channels, one of them a safe one |
| `channels_rejoin` | – | counterexample to `RejoinsAfterLoss` |
| `config` | 29 080 | `Truth`, `OwnWords`, `AttendedIsHere`, `GoodFileIsRead` with two clients and a REHASH of any of five files, three of them broken |
| `session` | 28 286 | `OwnDescriptor`, `OwnHandshake`, `Places`, `SilentIsDropped`, `DeadIsDropped`, `ListensAgain` with at most two clients and a third that registers |
| `quicklog` | 845 568 | `MissedIsUnseen`, `MovedOrReplayed` with two lines, two clients and 24 settings that a REHASH exchanges |
| `messages` | 52 516 | `Bracketed`, `IdleIsClosed`, `ForwardedInTheEnd` with two nicks, failures of `fopen()` and `popen()`, and a REHASH |
| `nick` | 60 448 | `PlaceOnList`, `GotTheFirst`, `WantedInTheEnd`, `Registers` with two nicks in lists of both orders, of one and of none, and one that is made up |
| `dcc` | 798 425 | `Owned`, `Decided` with two bounces and a client on five descriptors |
| `ignore` | 20 318 | `ImplementsSequences`, `ImplementsIgnored`, `RepliesSpaced` with three hosts, two lists and five pieces of memory |
| `channel_state` | 282 704 | `Covered`, `OperKnown`, `ActiveIsLogged`, `AreGiven` with a channel and one other person on it; `MasksDecide` for masks of three characters |

Type invariants and invariants that only serve a proof are not among the runs;
where a theorem has them they hold for every instance.

Every property of a passing run has a mutant in PROJECT.json, an operator of
the module that changes one modelled function the way a slip in the code would;
TLC finds the property violated with it.

### Bounds

*`send_queue`*: `FloodTimer` 2, burst sizes 2 and 3, delays of up to 3 seconds
between two looks at the clock, and a queue of 4. The budget then takes all
values from -1 (after a MODE with one left) to 3, a REHASH meets it above and
below the new burst size, and a refill of more than one line happens. Three kinds of
lines in one call (PASS, NICK, USER) need a queue of at least three.

*`server_conn`*: a reconnect delay of 2, a stoned timeout of 4 with a warning at 2
and a good-server delay of 2 seconds. What matters is their order, not their length; the
timer of a registering server, 120 seconds in the code, is the same constant.
Three servers are the fewest with which the walk can pass one and stop at
another; the list with a server twice is there because `server_check_list()`
compares names. REHASH goes from any list to any other.

*`channels`*: two channels, one client, at most two tries, two lines each way and
one old channel. Two channels in one line are what the order of answers and
`Fits` need; the second client would only delay `clients_left()`. With two
entries of `old_channels` the run takes too long, so that a name entered twice
there is not reached; the proofs cover it.

*`config`*: two clients, so that one can leave another behind; the default message
and one other that is a quit reason, a hand-set message or both; `awaymsg` set or
not, every `autoaway` and `usequitmsg`. The five files are a whole one with settings
before, between and after its lists, a short one, one without lists whose number
does not fit an int, one that ends inside of a list, and one with everything
that is refused; after each of them any other is read, with every state of the
away machine. An int has three bits (largest 3) and a long four (largest 7), so that
numbers are in range, truncated (4, which an int has as -4) and out of range of
`strtol()` (9).

*`session`*: three descriptors are as many as can be open with `maxclients` up to
2. Timeouts of 2 and 3 seconds instead of 30 and 120, and 2 instead of 15
between two registrations: a timer that is inherited, one that is set back and
one that runs out all occur.

*`quicklog`*: two lines are the fewest of which one can be flushed and the other
kept. Two seconds instead of minutes make a line old, three older than that, and
an attach takes from none to three: one second, which no line outlives unseen, and
two, after which a replay misses a line that the flush has left; `qloglength` 0 and 2, and `autoqlog` -1, 0 and 1 are
all the orders that the two can be in, and 0 is special in both.

*`messages`*: two nicks, so that one conversation can be in the list while another
is not; a check every two seconds, files closed after one and finished after
three, instead of 30, 300 and 3600 seconds, so that every remainder of the check
period meets every age; two lines of `forwardmsg` and a `forwardtime` of 2.

*`nick`*: lists of two nicks have a first, a next and an end; the third name is the
one miau makes up. Two unanswered requests let one of miau pass one of a client.
An interval of two seconds and a release of one make the timer start below, at and
above zero. `cfg.getnick` has its default, which asks only without clients.

*`dcc`*: five descriptors let two bounces be connected or a client be there, and
run out otherwise, so that `accept()` and `socket()` fail. The time to wait is one
tick of the clock, in which any number of turns may pass. Two entries are the
fewest that leave a hole in the table.

*`ignore`*: five nodes give three in one list and two in the other, of any order: a
node in the middle, and the first and the last next to each other; or three in the
ignore list, with a hole in the middle. An entry lives for 4 and the reply timer runs
for 2 seconds instead of 6 and 4, which leaves the timer the shorter of the two, and
up to three hosts on the list at once. Nodes are interchangeable and so are hosts,
which the symmetry uses; both properties of the lists hold of each node alike.

*`channel_state`*: a channel, another person and no quicklog. The lines of modes have
signs in both orders, flags with and without parameters before the one that is about
miau or the other person. Two modes on the queue and two lines in flight are what
one person on one channel needs. Masks of up to three characters, or two of up to two,
of an ordinary character, `@`, `*` and `?`, meet names of up to four: a star at each
place, two stars, and what `match()` misses. The other bounds are those of `channels`,
which has the second channel.

### Fairness

`SendQueue` asks for weak fairness of `Tick`: `run()` calls `check_timers()` on
every turn and `select()` waits for a second at most. `ServerConn` asks for it
of `Tick` and `Connect`, both of which a turn of `run()` does whenever it can;
nothing is asked of servers, commands or signals. `Reconnects` assumes in its
premise what the network owes: from some time on the others fail in ways that
get them marked and some reliable server of the list does not refuse miau.
`Channels` asks for weak fairness of the join timer, of reading
what the server has sent, and of a server that deals with the lines it gets.
`Session` asks for weak fairness of the next phase of a turn, and for strong
fairness of `Tick`: a turn takes a second at most and the clock goes on, but a
turn within the same second is possible in between. Nothing is asked of a peer
that holds a turn up; `Turns` in the properties says that none does so for ever.
`Messages` asks for weak fairness of `Tick`, the 1 Hz of `check_timers()`, and for
strong fairness of a due `Tick` whose `popen()` succeeds: it does not fail for
ever. `Nick` asks for weak fairness of reading what the server answers, and for strong
fairness of the getnick timer, which runs in a second with room in the send
queue; the premises of its properties have what is asked of users, servers and
configurations. `DccBounce` asks for weak fairness of each phase of a turn and for
strong fairness of `Tick`, as `Session` does. `ChannelState` asks for weak fairness of
the automode timer, which `check_timers()` looks at once a second. `Config`,
`QuickLog` and `Ignore` have safety properties only and assume no fairness.

### What the counterexample means

* With `leave` and `rejoin`, the join timer never sets `jointries` of the passive
  channels after RPL_WELCOME has reset them; an attached client waits in vain.

Other differences met while modelling, for which no run is kept:

* `burstsize = "1"`, which the parser accepts, stops all output once the budget
  is down to one line: the refill needs `msgtimer < burstsize` and a line is sent
  at once only with `msgtimer > 1`: `QueueMoves` fails with it, and `doc/miau.1:338-341`
  makes no exception.
* A REHASH with a changed real or user name does not come back to the current
  server but to the first of the list; if the server had been good for long
  enough, `i_server.current` points before the first entry when `run()` follows it;
  `doc/miau.1:242-244` has miau "reconnect to it's current server".
* Without `awaymsg` in miaurc `set_away()` returns before it looks at a message
  set by hand, which is then not shown on the next server, against ChangeLog:353.
* `clients_left()` forgets the channels whose names do not fit into its one PART
  line (`miau.c:1100`, `irc.c:560-562`): `Agreement` fails with `LineCap` less than
  the number of channels, which the runs and the proof exclude.
* Servers that hang up without ERROR before registration, fail while the
  registration is written or go silent are never marked. miau cycles among them
  and leaves out a server that has been marked once, for ever: `Reconnects` fails
  without `Unmarked` in its premise, whereas ChangeLog:282-284 says that miau
  moves to the next server of the list.
* `rehash()` always empties the quicklog; the comment at `miau.c:889-891` means to
  do so only with `flushqlog` and clients, or with `qloglength` 0.
* Old private messages are "moved" to the inbox "instead of simply dropping them"
  (doc/miau.1:471-473), but not by FLUSHQLOG, REHASH, the exit and, with
  `flushqlog`, an `autoqlog` shorter than `qloglength` (`lost` has them all).
* An attach that takes two seconds or more between its flush and its replay loses,
  with `flushqlog`, the private messages that grow older than `qloglength` in that
  time: the flush leaves them (`miau.c:1597`), the replay skips them (`qlog.c:223`)
  and the erasure drops them without the inbox (`miau.c:1698`). `MovedOrReplayed`
  says that one second does no harm; `lost` notes the others as a slow attach.
* `forwardtime` counts from the last line (`server.c:503`), not from the first one
  (doc/miau.1:543): while messages keep coming none is forwarded.
* Private messages of ignored users are not logged or forwarded but do get into
  the quicklog (`server.c:420` only ends `parse_msg_me()`).
* `getting_nick` counts the NICKs of miau whose refusal clients should not see, but
  is lowered by the refusal of a client's NICK and by 437 for a channel as well
  (`server.c:1338-1346`), and reset by the first success (`server.c:1074`): a client
  may miss its own answer and get one of miau's.
* After a REHASH that makes the current nick the first one, or when get_nick() has
  come round to the first nick, `got_nick` stays 0 (`miau.c:918`, `miau.c:1504`):
  miau asks for the nick it has until the connection ends. Of a nick that the
  server shortens in RPL_WELCOME it stays 1.
* `dcc_socketsubscribe()` fills a set of writers that `select()` is not given
  (`miau.c:2387`): all in it count as writable. A bounce therefore accepts its
  near side without waiting for the far one, and a full peer ends it at once
  (`dcc.c:127-132`). A failed `accept()` leaves the listening socket open
  (`dcc.c:269-276`).
* A failed `accept()` is reported as 0 (`irc.c:429-432`), which `run()` takes for a
  client on descriptor 0 (`miau.c:2406`, `miau.c:2414-2418`): until the 30 seconds
  are over it asks `select()` about that and accepts nobody (`AcceptFails` of `Session`).
* An entry of `old_channels` keeps `oper` from before miau left or was kicked, and
  RPL_NAMREPLY sets only what is unknown: after the next JOIN miau may take itself
  for operator of a channel where it is not, against `channels.h:66-70`. `OperKnown`
  fails with a `MaxOld` of 1, which the run excludes.
* The mode queue of an entry survives `server_drop()`: modes that were decided about
  people of one connection may be given to people of the next who have their
  nicks. It also survives a KICK of the person, and the count `status.automodes` is
  not lowered when people leave, so that the timer may run for nothing.
* `chanlog_open()` of a channel that rejoins with its log still open opens the
  file of its own rule once more and loses the first `FILE`; without a rule of its
  own it goes on with the log it has, even if a REHASH has withdrawn it.
* `parse_modes()` does not take the parameter of an `O` (`server.c:1440`) and reads
  past the end of a line of modes that ends in a sign (`AutomodeAssumption`).
* `match()` does not go back to a star: "foobar" does not match "*oba*", which
  `test_match.c:38` expects; `match.c:33` knows. `MasksDecide` says what holds
  nevertheless.
* `ignore_del()` is called by nobody.
* A REHASH of a miaurc without `awaymsg` or `leavemsg` forgets the message
  (`miau.c:222-223`); `doc/miau.1:396-400` says that it is not reverted.
* A list without an end leaves `listid` set: the settings before the first list of
  the next file are lost. A number that is out of range leaves ERANGE in `errno`
  and the numbers after it are refused, in the next file as well unless a call in
  between fails in another way. `GoodFileIsRead` has both as premises.
* With time stamps at the end, a replay cuts the last character of a CTCP line in
  the list (`qlog.c:318-325`), so that a second replay sends it without one.

## Proofs

`SendQueueProofs`, `ServerConnProofs`, `ChannelsProofs`, `ClientProofs`,
`SessionProofs`, `QuickLogProofs`, `MessagesProofs` and `NickProofs` hold for every value of
the constants that the modules' assumptions allow. The theorems about `ChannelState`
are in `ChannelsProofs`, those about `Away`, `Config` and `DccBounce` in `ClientProofs`,
those about `Lists` and `Ignore` in `MessagesProofs`.

*SendQueue.* The inductive invariant is `TypeOK`, `NoBypass` and `RefillIsDue`
(while the budget is below the burst size the age of the last refill is
bounded), without which the ranges of `msgtimer` and `floodtime` are not
inductive. `KeepsPromise` is the refinement: the initial state maps to one of
`Outbox` and each action to `Accept`, `Overtake`, `Elapse`, `Discard` or a
stutter, by way of the fact that the lines `ProcessQueue` sends are a prefix
that the budget pays for.

*ServerConn.* `TypeOK` and `WalkEnds` need to know, while miau runs: some server
works whenever the walk begins at the fallback entry (`SomeWorks`), a pointer to
no entry comes with a fresh list (`AstrayIsFresh`), a connection that is not
fresh is to the entry that `i_server.current` is at (`OnCurrent`), a server asked
for with JUMP is the current one (`AskedIsCurrent`), and sockets go with
connections (`Linked`). `BlameIsFair` and `JumpsAreHonoured` are action
properties that follow from these.

*Channels.* `TypeOK` and `OneHome` are inductive with the fact that nothing is on
its way without a connection (`Quiet`). For `Agreement`, what miau *will* take
itself to be on once it has read everything (`Says`, the last line about a
channel decides) is compared with where the server has it: whatever `Says`
claims is true at the server, and the server has miau on further channels only
if a line that leaves them is on its way (`Known`). Both halves survive
every step, and with empty lines they are `Agreement`. `AgreementHolds` has the
hypothesis that the names of all channels fit into one line; without it TLC
finds a counterexample.

*ChannelState.* `Covered` is inductive with the finiteness of the queue: what a step
adds to it is counted (`QueuedCounted`), what the timer takes away is taken off
(`GivenCounted`), and every other step only shortens it (`FewerCounted`).
`ActiveIsLogged` is inductive with the fact that active channels are channels and
lines are lines (`Spoken`). `OperKnown` compares what miau believes of a channel
(out, not told yet, operator or not) with what is so there, through the lines that it
has still to read: read one after the other they take the belief to what is so
(`Aware`). A step of the server adds a line that says what it changes
(`StepOper`), and a step of miau reads the first line and believes what that says
(`ReadAware`). For a MODE line this needs that `parse_modes()` gets out of it what
it means (`ReadsModes`): `ParsedInTurn` unfolds the flags one by one, and `UsedFits`
keeps the parameters in step with them, given that every flag has its parameter
(`StateAssumption`; RFC 2812, 3.2.3). The theorem has the hypothesis that there
are no old channels, since the property fails with them.

*Match.* `MasksDecide` compares two definitions that go along both strings from
their ends. `DefinedAhead` and `SameAll` say that a function which looks only
further on is there, and only one; with `EndInduction`, which is the least
element of a set of numbers, `MatchCovers` and `PlainMatches` follow place by place:
what `match()` finds is covered by the mask, and what a mask with a star at the
end at the most covers is found. `ReplacedIsMask` is what `match_replace()` makes
of a mask, and the rest is which rule comes last.

*Away.* Everything that marks the user is a sequence of `SetAway`, of which one
lemma says what it can do (`Advances`): nothing, or mark the user with the
hand-set message if there is one. With that, `Truth` and `OwnWords` are inductive
together with `Early` (before RPL_WELCOME only an AWAY of a client is shown) and
`Noted` (a hand-set message that miau has is the last one set).
`AttendedHolds` is an action property from the same invariant. *Config* adds
nothing to these but a `Rehash` with settings that a file can have:
`ConfigImplementsAway` shows that its steps are steps of `Away`, whatever the file
and wherever the parser was, and the three properties follow for it
(`TruthWithAnyFile`, `OwnWordsWithAnyFile`, `AttendedWithAnyFile`). For
`GoodFileIsRead` the lists of a good file are counted line by line (`Depth`): before
a line it is 1 exactly if the last line before it that begins or ends a list
begins one, and that line decides where the parser takes it to be
(`TurnDecides`). So settings are taken for settings (`SettingsAre`), the items of a
list are what stands between its two ends (`GoodList`), and the parser ends up
outside (`GoodEnds`). A number is the one in the file since it fits an int
(`IntKeeps`), and the one before, where the file has none, since `maxclients` always
does (`ClientsFit`).

*Session.* `OwnDescriptor`, `OwnHandshake` and `Places` need to know what a turn
remembers of `select()`: while the listening socket is reported nobody registers
and there is a place (`Offered`), nothing reported is left when a turn ends
(`Read`), and without a registering client `status.init` is empty (`Blank`). Most
steps only take clients away, which `ShrinkingKeeps` deals with once.

*DccBounce.* `Owned` speaks of all bounces at once; its proof of one bounce and the
`Rest`: `Replaced` says which new entry at one place keeps ownership, and each way
through `dcc_socketcheck()` is one such entry, or none (`KillKeeps`). That
`accept()` and `socket()` return a free descriptor and `table_add_item()` a free entry
rests on least and greatest elements (`Least`, `Greatest`), and every bounce has a
near socket that is not its far one (`Sound`).

*QuickLog.* The order of age is what makes a flush, which stops at the first young
line, take all old ones: `CutIs` shows where it stops, `FlushIs` that only young
lines are left. In `AttachKeeps` these are younger than `qloglength`, a second
later at most as old, and within reach of a full replay, after which none of
them is missed; so the erasure loses nothing, unless `late` is more than 1. The invariant is the conjunction
of the properties, with `MissedIsUnseen` as freshness of the list.

*Messages.* `Bracketed` and `IdleIsClosed` need one relation between the timer
`timers.privlog` and the age of each entry: an entry that is over or whose file
should be closed is younger than its limit plus the timer. It lets `CloseOld`
find every such entry at the next check. The failures of `fopen()` add to `torn`,
about which nothing is claimed.

*Nick.* `PlaceOnList` is inductive with `MadeUpBehind`: nicks are made up only with
the pointer at NULL and while that is allowed. `GotTheFirst` needs `Introduced`:
while miau registers its one request is for the nick it calls its own, so that
RPL_WELCOME changes no nick that `got_nick` was said of.

*Lists.* The refinement reads a sequence off the pointers, so the invariant has to
say that there is one: `HeapInv` names two sequences of nodes without repetition
and says that `next` and `prev` thread them from one end to the other (`Threads`),
that `last` and `tail` are their last nodes, that all their nodes are taken and no
node is in both, and that the entries of the table are among the other taken
nodes. `ChainIs` turns this into what `Chain` computes: following the
links gives the sequence, since one has at the most as many nodes as there is
memory (`ListsFit`) and links are followed in one way only (`OneWay`). Every
operation is then one of three on sequences: `With`, `Without` or `Moved`. What
each of them does to the threads is proved once (`WithThreads`, `WithoutThreads`,
`MovedThreads`), and one lemma per operation shows that its assignments to
pointers do that (`LinkedInAt`, `OutList` and the like for the head, the
middle and the end). The same three operations are the library's `InsertAt` and
`RemoveAt` (`WithIs`, `WithoutIs`, `MovedIs`), and so every step is a step of
`NodeList` (`SteppedIs`).

*Ignore.* A table with holes is a set to its users. `Added`, `Compacted` and
`Removed` say what the functions of `table.c` do to the set of entries, wherever
its holes are. `TableInv` says which set that is: each entry is of a host that was
answered as many seconds ago as its time to live has been counted down, no host has
two, and each host answered recently enough has one. So what is left of a host's
time is a function of when it was answered (`LeftIs`), which is what `IgnoredHosts`
keeps. `TimerInv` says that the reply timer counts the seconds since the
last reply to anybody while replies are held back, from which `RepliesSpaced`
follows. The table is allocated from the memory of the lists, so the three
parts are one invariant (`IgnoreInv`); TLC found it to hold on the instance of the
run `ignore` before it was proved.

Every invariant and action property of the runs is stated by a theorem. Only
model-checked are the liveness properties `AreGiven`, `QueueMoves`, `NoStarvation`,
`Reconnects`, `Settles`, `SilentIsDropped`, `DeadIsDropped`, `ListensAgain`,
`ForwardedInTheEnd`, `WantedInTheEnd`, `Registers` and `Decided`, which TLAPS does
not reach.

## Assumptions and what is left out

* Texts: lines are kinds of lines; wording, prefixes and CTCP are left out.
* After the race of the alarm `select()` watches descriptor 0; standard input is
  taken to be silent, so that the registration timer ends the connection.
* A server sends RPL_WELCOME once per connection.
* `server_change()` sets `timers.connect`, and so do all its callers to the same
  effect; the callers' setting is the one modelled.
* The join timer counts 60 seconds in the code; here it is due at any time.
* A name cut in the middle by `irc_write_smart()` is left out with its channel;
  in reality it names another channel.
* Whether the quicklog has lines of a channel is left open at each look.
* `Away` is built without EMPTYAWAY, and its clients send AWAY with a colon:
  `cmd_away()` skips one character after the blank, so that an AWAY of one
  character without a colon is passed on and noted as none. RPL_WELCOME marks a
  user without clients away also where `autoaway` is `never`; nothing is claimed
  about that mode. `maxclients` is constant in `Away` and varies in `Session`.
* In `Session` peers send whole lines; a line that comes in parts holds
  `irc_read()` up on a blocking socket as `NewclientBlocks` does. The handshake
  is over when the client is in the table, and what `fakeconnect()` sends it is
  left out. `status.passok` is kept as the code keeps it. Descriptors of other
  parts (server, DCC, logs) are not taken from the same pool.
* In `QuickLog` a channel line and a private message differ in a flag only; the
  texts, their time stamps and `qlog_no_my_quit` are left out. The inbox opens or
  not; whether a write to it fails is not looked at by the code either.
* `Messages` takes that walks of the list find nothing of use in a freed entry
  unless they crash, and `ignorelist` as a part of who is a nick.
* `Nick` takes that a server registers the nick it was asked for, and begins with
  the end of the first connection attempt: before it `status.nickname` is NULL, and
  a SIGHUP would pass it to `strcasecmp()`. `randname()` gives any nick of a set,
  and `getting_nick`, which no other state depends on, is left out.
* In `DccBounce` bytes are left out, and so is the age of a bounce once its far end
  is dialed, when nothing looks at it. `errno` is not kept: a connection may go on
  or end at each read. Descriptors of the server and of logs are not taken from
  the pool.
* In `Lists` data and its lifetime are left out; callers delete only nodes that are
  on the list, which walks with the macros of `list.h` see to. `list_insert_at()`
  and `list_move_first_to()` are used by the unit tests only.
* In `Ignore` entries are of the type IGNORE_CTCP, the only one, and `malloc()` gives
  any piece of memory that is free. `Host` is what an entry is compared by.
* `ChannelState` leaves open whom the rules give a mode; the order of a queue and
  the grouping of its MODE lines by threes are left out. The server names the people
  of a channel in one line before it says anything else about it. `fopen()` may fail
  for a channel log; what is written to it is left out.
* `Match` leaves out case, and the lists of `matchlist.c`. Names hold no wildcards.
* `Config` has one setting of each type and one list of each kind. The settings that
  other modules have are changed by their own `Rehash`; ports, values with braces,
  comments, blanks and quotes are left out. A miaurc that cannot be opened ends
  miau (`read_cfg()`); the files of the model can be read.
* `rehash()` runs between two turns of the loop. From SIGHUP the code runs it
  inside whatever function is at work, which has no meaning in C to model.
* The parts listed as not modelled in PROJECT.json, for the reasons given there:
  wording and output, text tools, the command table, commands on connect, and the
  unit tests.
