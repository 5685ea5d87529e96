# ft_p: specification, model checking and proofs

ft_p is a small file transfer system in C: a threaded server that serves the
directory it was started in, and an interactive client (`ls`, `cd`, `pwd`, `get`,
`put`, `quit`). This directory holds TLA+ modules translated from its source, the
TLC runs that check them on small instances, and theorems about them that TLAPS
checks for every instance. Paths below are those of the repository (`src/server`,
`src/client`, `libft`).

## The system

### Components

| component | state | operations | modelled |
|---|---|---|---|
| client session (`client.c`, `client_handler*.c`, `send_code` in `utils.c`) | the command in hand, local files, control and data descriptor | prompt loop, `send_code`, `handle_ls/pwd/cd/get/put/quit`, `connect_to_data_sock`, the receive and send loops | `FtpClient` |
| server session thread (`server.c`, `server_handler*.c`, `connect_data.c`) | request buffer, working directory on its stack, data descriptor, file offset | `handle_connection`, `handle_cmd`, the five handlers, `establish_data_sock`, `exec_to_socket` and its `ls` child, `err_exit` | `FtpServer` |
| sockets and descriptors (kernel) | streams, connection states, descriptor copies | send, receive, close, reset, inherit at `fork()` | `FtpNet` (external) |
| accept loop and launch (`main`, `launch_thread`, `server_log`) | the new descriptor, a stack slot, the descriptor table | accept, log, launch, thread start, close | `FtpLaunch` |
| progress bar (`write_progress` and the loops that call it) | a 51-byte buffer, a running total | count, draw | `ProgressBar`; `ProgressFits` is its precondition |
| request encoding (`send_code`, `ft_strsplit`, both `handle_cmd`) | a 200-byte message, the server's buffer | format, cut, receive, split, dispatch | `Request` |
| working-directory strings (`handle_cd`, `cd_helper`, five path builders) | a 1024-byte buffer | append, cut at the last `/` | `WorkingDir` (and as paths in a tree in `FtpServer`) |
| line reader (`get_next_line`, the prompt loop of the client's `main`) | a cache | read a line | `LineReader` |
| local commands (`lls`, `lcd`, `lpwd`), start-up | environment, working directory | | not modelled: no interaction with the rest |
| libft's strings and memory | | `ft_strlcat`, `ft_strchr`, `ft_strrchr`, `ft_strsplit`; `ft_memmove`, `ft_memccpy`, `ft_strncpy`, `ft_strnstr`, `ft_strtrim` and others | `CStrings`, `CMemory` |
| libft's lists (`lst/`, `ft_strsplit_lst`) | nodes on the heap | new, add, append, iterate, delete, reverse, map, split | `Lists` |
| `ft_printf` | the rest of a format, the arguments, a count | parse a directive, write its field | `Printf` |
| the rest of libft | | | not modelled: one-line helpers |

### How they interact

A client opens one control connection and keeps it. Every command is a line on it
(`CODE` or `CODE:name`), answered with `ACK`. `ls`, `pwd` and `cd` go straight to a
data connection: the thread opens a listening socket, sends its port as two raw
bytes and accepts one connection; what comes over it, up to its end, is the output.
A `get` has three more steps: `ACK` and the size in eight raw bytes (or `BAD`), the
second code `SFILE`, and its `ACK`; a `put` has one, the second code `TFILE`. The
control stream has no framing and no types. Each side knows what the next bytes
mean only because it is in step with the other.

Threads share the process: `err_exit()` in one of them ends all, `fork()` in one
copies the descriptors of all, and they work on the same files without locks.

### What is hard here

* **Being in step.** Nothing but the order of calls distinguishes an `ACK` from a
  size or a port. A second code left unread becomes a command.
* **Failure of one, end of all.** `recv() == -1` enters the request loop and
  `getpeername()` fails; `send_ack()` exits on error. Which client can cause it?
* **Ends of streams.** A data transfer is over when the last copy of the server's
  descriptor is closed, and an `ls` child of another session may hold one.
* **Results nobody looks at.** The `recv()` of the second code, the `send()` of size
  and port, the `send()` of a block.
* **Shared files.** Size and content are taken at different times, `put` truncates
  before its data comes, two `put`s write through separate offsets.
* **Lines out of reads.** `get_next_line` calls `read()` before it looks at its cache,
  takes a short read for the end of a line, and reports errors as true.
* **Strings in fixed buffers.** Requests are cut at 199 bytes and received over older
  ones; a request is split at every `:`; `cd ..` edits a string, not a directory; the
  same path is built in five places.
* **Thread launch.** The argument of a thread lives on a stack frame that is dead
  when `launch_thread` returns; the thread may never have been created; descriptors are reused
  after `close()`.
* **Failures that go unnoticed.** No socket, no descriptor for `accept()`, no `fork()`,
  `read()` of a directory: the code goes on with -1, and -1 added to a `size_t` is drawn.
* **libft.** Lists half built when memory runs out, a static variable in
  `ft_strsplit_lst`, overlapping copies, fields whose length is computed apart from what
  is written.

`PROJECT.json` lists each hazard with its line and the properties that guard it.

## Modules

    FtpNet ---- FtpClient --+
       |                    +-- FtpSystem -- MCOne, MCTwo
       +------- FtpServer --+       |
                                    +-- FtpProofs ---+
                                    |                +-- FaultProofs
                                    +-- FtpFaults ---+
                                            |
                                            +-- MCFaults
    FtpLaunch -- MCLaunch
        |
        +-- FtpLaunchProofs
    LineStream (abstract)
        ^ implemented by
    LineReader -- MCLineReader
        |
        +-- LineReaderProofs ------+
                                   +-- Pieces (lemmas)
    CStrings -- WorkingDir --------+
       |            |      WorkingDirProofs
       |            +-- MCWorkingDir
       +------- Request -- MCRequest
                   |
                   +-- RequestProofs (also uses Pieces)

    Printf -- PrintfStandard --+
    Lists (implements ListSpec)+
    ProgressBar ---------------+-- Libft -- MCPrintf -- MCLibft
    CMemory -------------------+     |
                                     +-- LibftProofs (also uses Pieces)

**FtpNet** has the sockets of each client `c`: the control connection (`ctl`, with
the requests `c2s` and reply tokens `s2c` in flight), the data connection (`dcli`,
`dsrv`, the blocks `dq`), the threads whose child holds a copy of the server's end
(`holders`) and whether the server process lives (`up`). `ctl` distinguishes an
orderly close (`fin`), a close the server has since written to (`lost`) and a
reset (`rst`), because `recv()`, `send()` and `getpeername()` do. A socket closed
with unread data is reset at once.

**FtpClient** is one client process. `pc` says at which blocking call it is, `cmd`
which command it executes, `lfs` what its files hold, `sent` how far a put is.

| action | code |
|---|---|
| `Issue` | prompt, `handle_cmd`, the head of each handler, `send()` in `send_code` |
| `RecvAck`, `NoAck`, `ServerGone` | the outcomes of `recv()` in `send_code` and its siblings |
| `RecvVerdict`, `RecvSize`, `SendCode2` | the rest of `handle_get` and `handle_put` |
| `ConnectData`, `ConnectRefused` | `connect_to_data_sock` |
| `RecvBlock`, `RecvEOF`, `RecvReset` | `read_data_from_request` |
| `SendBlock`, `SendEOF`, `BrokenPipe` | `send_data_for_request`, SIGPIPE |
| `Quit`, `Crash` | `handle_quit`; the process is killed, and its kernel closes the sockets |

**FtpServer** is the process with a thread per client. `spc`, `req`, `cwd`, `off`
are the thread's, `fs` the shared files: directory, name, sequence of blocks.

| action | code |
|---|---|
| `SrvRecv`, `SrvHangup`, `SrvAck` | `handle_connection`, `log_receive`, `send_ack`, dispatch |
| `SrvGet`, `SrvCode`, `SrvCodeReply` | `handle_get`, `handle_put` up to the data connection |
| `SrvListen`, `SrvAccept` | `establish_data_sock` |
| `Fork`, `ChildWrite`, `ChildEnd` | `handle_ls`, `exec_to_socket`, and the child |
| `SrvPwd`, `SrvCd` | `handle_pwd`, `handle_cd` |
| `SrvOpenGet`, `SrvTx`, `SrvTxEnd` | `send_file_to_client` |
| `SrvOpenPut`, `SrvRefusePut`, `SrvRx`, `SrvRxEnd` | `rec_file_from_client` |

Every action runs from one blocking call, or one place where another thread can
matter, to the next. `touched` is a history variable: it becomes true of a thread
when another one truncates or writes the file whose size it has announced or that
it has opened. A failing `send()` on the data connection loses its block, as in
the code; what an ignored `recv()` leaves in the buffer of the second code is a
free choice.

**FtpSystem** composes the two over the sockets and states the properties.

**FtpLaunch** is the main loop: `MainAccept` puts a connection into a free
descriptor (any one: data sockets take some too) or fails with -1, `MainLog` leaves
anything in the dead frame of `launch_thread`, `MainLaunch` writes the descriptor
there and creates a thread (`Created`) or fails to (`NotCreated`), and `ThreadStart` copies what it
finds. Nobody looks at the result of `pthread_create()`: without a thread the descriptor stays open,
in nobody's hands (`orphans`, a history variable), main goes on, and `pthread_detach()` is given an
uninitialized thread id, which may end the process (`mpc = "detach"`). A thread keeps
only the number: `ThreadRecv`, `ThreadHandle` and `ThreadHangup` act on what the
number refers to at that time (`Peer`). `args` begins with the descriptor, more than
1 KiB below the frame's top, so the frame of `accept()` does not reach it; those of
`ctime()` and `printf()` may. `overtaken` is a history variable: main has accepted the
next connection before a thread made its copy. `fadd_len` stands for the length that main
passes to `accept()` uninitialized: the kernel takes it or refuses it, every time.

**LineReader** is `get_next_line` under the client's prompt loop. `input` is what has
been written to standard input and not read, `cache` the reader's, `lines` the lines
that main has been given.

| action | code |
|---|---|
| `Write`, `Close` | whoever writes standard input |
| `Prompt` | main, up to `read()` in `cache_filler` |
| `Read`, `ReadEnd`, `ReadFail` | `read()` returning characters, 0 and -1, then `line_builder` (`Build`) and the tail of `get_next_line` (`Return`) |

A terminal's `read()` (`tty`) stops behind a newline; that of a pipe or a file returns what
there is, up to the size asked for. `Init` takes a file, with all it holds, or a pipe or
terminal that is written while the client runs. In `lines_cut` the writes themselves end anywhere.

**LineStream** is what main expects: `Line` delivers up to the next newline, `Rest`
what follows the last one once the input is closed, `End` the end. Its constant
`Ragged` also allows `Cut`, a line short of its newline. `LineReader` implements it
with `text <- cache \o input`, which says at once that nothing is lost, repeated or
reordered: with `Ragged` in every case (`NothingLost`), without it when every write
ends a line and no read fails (`WholeLines`).

**CStrings** are the functions of libft on which strings depend; a C string is the
sequence of its characters before the NUL.

**WorkingDir** is `cwd` of one session and every path that is built from it. `trail` is
a history variable: the directory after each `cd` that was not taken back, as a client
would count, never cut. `traced` says that none of these `cd`s began in a directory that fills its
buffer: such a `cd` adds nothing, and the `cd ..` that should undo it undoes the one before. `asked` is the path last given to the
kernel and `wanted` what it should be: the client's directory and a name.

| action | code |
|---|---|
| `Cd`, `CdUp` | `handle_cd`, `is_valid_directory` (`DirPath`), `cd_helper` (`Leave`) |
| `Transfer` | `handle_get`, `handle_put`: the four functions that build `FilePath` |
| `List` | `handle_ls` |

Whether a name is a directory is the kernel's answer: `Cd` takes either. `FtpServer`
keeps the same directory as a path in a tree; `Retrace` is why it may. After a `cd` from a full
directory the history is given up until the session is back in its root. The four copies of
the code that builds the path of a file are equal in the source and one operator here,
`FilePath`: should one of them be changed, `Addressed` would not see it.

**Request** follows one command of one session from the line that was `typed` to the
handler that is `served` and its `av[0]`: `Type` is the client's `handle_cmd` up to
`send()`, `Serve` the thread's `recv()`, newline cut, split and dispatch, `ServeSecond` the
second code of a `get` or `put`. `buf` is the server's buffer with what earlier requests
left there; what is behind a buffer in memory, up to a NUL, is a free choice (`Behind`). When
the newline did not fit into the message, `ft_strchr` goes on behind the buffer and the NUL may be
written there (`stray`): into something that does not matter, or into anything, after which
nothing is followed (`pc = "wild"`).
`pc = "null"` is a process that has used a null pointer.

**FtpFaults** extends `FtpSystem` by calls whose failure the code does not look at, in the
sessions of `Unlucky`. `dfd` says whether a thread's data descriptor is -1, and why;
`reaping` that it waits for any child because it has none of its own. Sending on -1 is
lost, as to a client that has closed; `recv()` on -1 never returns 0 (`Spins`).

| action | code |
|---|---|
| `NoSocket`, `AcceptFails` | `server_listen_eph`, `establish_data_sock` returning -1 |
| `ForkFails`, `Reap` | `fork()` returning -1, then `wait4(-1)` |
| `UnservedConnect`, `UnservedReset` | the client's `connect()` and `recv()` on a socket nobody accepts from |
| `PutDirectory` | `send_data_for_request` on a directory |
| `Process`, `Thread` | all steps of `FtpSystem`, as far as `Guarded` lets them |

**Printf** is `ft_printf` from the format string to what is written. `Plain`, `Directive` and
`Return` are the turns of its loop; `BlockParser` and the handlers are operators with the
names of the functions. **PrintfStandard** says, from the parts of a directive, what the C
standard wants. It is written without a look at the handlers.

**Lists** has a heap (`heap`) whose allocations may fail, the caller's `list`, a `new` node and
a `copy`. Loops take one action per turn, so that each place where memory may run out or
the caller's function is called is a state: `RevStep`, `MapStep`, `DelStep`, `SplitWord`. `lost` is a
history variable: nodes nobody can free. A second `ft_strsplit_lst` starts from an uninitialized
pointer; when that is stale, to a node of another list or to one that was freed, the model ends
(`at = "stale"`), as what follows is undefined. **ListSpec** is a sequence with the same
operations, and `Lists` implements it with what a caller sees, or will see, as the sequence.

**ProgressBar** is the client's two data loops with `total` as a `size_t` and `Marks`, the
number of `=` that `write_progress` puts into its buffer.

**CMemory** has a few bytes of memory and one call of a function on any of them; `Meant` is
what the function is for, on sequences. `full` says that `malloc()` has nothing left for the
result of `ft_strsub` or `ft_strtrim`.

**Libft** puts these four side by side, with the constants of each, and states their
properties. `Lists` it extends, the others are the instances `Bar`, `Mem` and `Pf`, as the names of
their actions and variables overlap. They share no state: `MCLibft` lets one work while the others rest.

Definitions called "Mutant of ..." are not part of any specification. They are
variants with a plausible bug; every property below is violated by one of them.

## Runs

The runs of `FtpSystem`, `FtpFaults`, `FtpLaunch` and `MCLibft` set `CHECK_DEADLOCK FALSE`: when every client has
quit, or been killed, the system rightly stops, and so does a function that has returned; so do those of `Request`, for `"null"`
and `"wild"`, and of `Lists`, for `"stale"`. Those of
`LineReader` and `WorkingDir` check deadlock.

| run | instance | distinct states | properties |
|---|---|---|---|
| `one` | one mortal client, all commands on three names and a subdirectory, a put onto a directory | 132 750 | `TypeOK`, `InStep`, `RightToken`, `NoMutualWait`, `SameCommand`, `ServerExitNeedsACrash` |
| `read_write` | get and put, mortal, against put, one file | 1 897 731 | `ProgressFits`, `GetFaithful`, `PutFaithful` |
| `progress` | get or put against ls, both mortal, fair | 37 949 | `CommandEnds`, `QuitEndsSession`, `CrashEndsSession` |
| `faults` | ls against ls, get and put of a file and a directory with failing calls, fair | 128 458 | `WaitNeedsNoSocket`, `OthersInStep`, `OthersEnd` |
| `launch` | three connections on two descriptors, three threads, fair, up to an overtaking | 323 909 | `TypeOK`, `OneOwner`, `ExitExplained`, `AnswersGoBack`, `RequestRead` |
| `launch_race` | as `launch`; TLC finds the violation | | `OneThreadPerConnection` |
| `lines` | a terminal, a pipe, or a file of up to three lines; lines of 1 to 5 characters, buffer of 2 | 29 415 | `NothingHeldBack`, `WholeLines` |
| `lines_cut` | writes that end anywhere, two failing reads, fair | 129 253 | `TypeOK`, `NothingLost`, `EndsWithInput` |
| `dirs` | six names of up to four characters, buffer of 9 | 401 097 | `TypeOK`, `Retrace`, `Inside`, `Addressed` |
| `requests` | 45 lines, messages of 8, three stacks | 47 973 | `TypeOK`, `CommandKept`, `Understood`, `SecondTaken`, `NullExplained` |
| `names` | as `requests`; TLC finds the violation | | `NameHeard` |
| `libft` | `Printf`, `Lists`, `ProgressBar` or `CMemory`, one at a time | 312 400 (symmetric) | `CountIsWritten`, `AsStandard`, `Accounted`, `ListsAreSequences`, `BarFits`, `AsMeant` |

What they show:

* `InStep`: while the server lives, client and thread are at matching places and the
  wire holds exactly what is still to be read. `RightToken`: an `ACK` is read as an
  `ACK`, a size as a size, a port as a port, also after the server has died.
  `NoMutualWait`: the two never both wait on the control connection. `SameCommand`:
  a data connection serves the command in hand.
* `ServerExitNeedsACrash`: a client that leaves with `quit`, or that ends because its
  `connect()` was refused, its data connection reset or a pipe broken, never makes a
  thread call `err_exit()`, although the thread's last reply may cross its FIN. One that
  is killed can: that is how the code is, and the reason for the property's form. With
  calls that fail it is a theorem (`FaultProofs`), as is `RightToken`.
* `GetFaithful`, `PutFaithful`: a transfer that no other put has disturbed delivers
  the file; a put whose client was killed delivers the beginning of it (and the
  server logs success). `ProgressFits`: while the server is up, what a get receives fits what was
  announced unless another session wrote the file, the condition under which
  `write_progress` stays inside its buffer. It says nothing of a put.
* `CommandEnds`, `QuitEndsSession`, `CrashEndsSession`: nothing blocks for ever, with
  one exception the last property names: a thread in `accept()` whose client was
  killed before `connect()`. A killed client's kernel closes its sockets; of a machine that
  loses its power see "Not modelled".
* `OthersInStep`, `WaitNeedsNoSocket`, `OthersEnd`: a session whose data descriptor is
  good is in step, whatever has failed elsewhere or earlier. Of all calls that may fail unnoticed, only a missing
  listening socket leaves client and thread waiting for each other, and only the four
  situations of `Stuck` have no end: that wait, a put into a connection that could not
  be accepted, a put of a directory, `wait4(-1)` while other sessions list. Everything
  else ends, in every session, also when another session's `ls` child was reaped.
* `OneOwner`, `AnswersGoBack`, `RequestRead`, `ExitExplained`: as long as main overtakes
  no thread, descriptors are never shared or answered on the wrong connection, whatever
  is closed and reused, and only those are lost for which `pthread_create()` failed: these
  stay open, and what their clients ask is never read. `ExitExplained` lists what ends the
  server; among it are an `accept()` that failed and `pthread_detach()` without a thread, and
  no property says that these do not happen. `launch_race` shows what happens
  otherwise: the repository's README's "simply spawns a new thread to handle each connection"
  fails, as two threads serve one connection and none serves the other.
* `WholeLines`, `NothingLost`, `NothingHeldBack`, `EndsWithInput`: the client executes the
  lines it was given, wherever reads end; on a terminal none waits in the cache. On a
  pipe one may: the second of two lines that came in one `read()` is returned only
  after another `read()`, so `NothingHeldBack` is stated for terminals. Writes that do
  not end with a line can cut a line in two, as the short read counts as its end.

* `Retrace`, `Inside`: `cd ..` leads back to where the last `cd` started, after `cd .`, names
  of dots and any detour, and also when the name of that `cd` was cut at the end of the
  buffer, although `cd_helper` looks at text only. It does not after a `cd` in a directory that fills the
  buffer, which `Retrace` leaves out. No name that fits makes a component `..`. One that is cut
  may (`..a`, with room for two characters), so the repository's README's "Directories above the
  server root cannot be accessed" is not shown for such a directory; `Inside`
  says that this can only be the last component, at the very end of the buffer, to which no `cd`
  adds anything. `Addressed`: `is_gettable_file`, the size, `open()`, `lstat()` and `ls` are asked for
  the same path, the one the client means, as long as it fits. `TypeOK` includes that
  `cwd` never fills its buffer and begins with the `/` that `cd_helper` needs.
* `CommandKept`: however long or odd the name, the server runs the command that was
  typed. `Understood`: a name without `:` arrives whole, or as much of it as has room,
  and never with bytes of an earlier request; and the NUL that ends a request is written inside
  the buffer whenever the newline fits. When it does not, and a newline lies behind the
  buffer, the NUL goes there, and both properties leave out what that may break. `SecondTaken`: the second code is accepted
  although nobody cuts its newline. `NullExplained`: only a line of blanks (client) and
  a `put` of a name of nothing but `:` (server) reach a null pointer. `names` shows
  what `:` in a name does: a `get` of `:b` goes on with `b`.

* `CountIsWritten`, `AsStandard`: `ft_printf` returns how much it wrote, and writes what the
  standard says, with every argument going to the directive it was meant for. (The flag `0` with
  `%c`, `%s`, `%p` and `%%` is undefined in C; `PrintfStandard` takes it for zero fill, as libft does.) The
  exceptions are part of the properties: the `-` of a `%f` is not counted (nor padded for),
  powers of ten from 10 on come out with `:` for their `1`, `%#o` does not fill with zeros, `%p`
  takes the flag `0` in spite of a precision, nan has no sign, and what is not a directive is
  dropped up to where the parser stopped.
* `Accounted`, `ListsAreSequences`: until a second `ft_strsplit_lst` of the program starts from a
  stale pointer, no list function loses, repeats or reorders a node, frees
  one twice or leaves a pointer to it, wherever memory runs out. The nodes that
  `ft_lstmap` and `ft_strsplit_lst` leak when they fail, that `ft_lstdelone` cuts off and that
  a second `ft_strsplit_lst` that starts from NULL hangs nowhere are known by name (`lost`).
* `BarFits`: nothing is drawn past the buffer as long as no more is counted than announced,
  even when the last call fails. A call that fails before any byte was transferred
  always overruns it, which is what `RecvReset` and `PutDirectory` build on.
* `AsMeant`: overlapping copies, empty strings, lengths that just fit, no memory for the result. `ft_strtrim` on a
  string of blanks depends on the bytes in front of it.

### Bounds

Files have at most three blocks and sockets buffer one or two (`DataCap`), so a
sender blocks, a file spans several reads, and end of file, a full buffer and a kill
can fall anywhere. A block stands for one `read()` or `recv()` worth of bytes. An ls
writes one or two blocks (`LsBlocks`). Two clients are enough for every pairwise
interference the code has: a shared file, a shared process, an inherited
descriptor. Clients give any number of commands: the state space is finite
because a session returns to the prompt. In `FtpLaunch`, `MaxThreads` bounds the
launches; three connections on two descriptors reach reuse and exhaustion. `launch` does not go
on from states after an overtaking (`CONSTRAINT BeforeOvertaking`), of which four of its properties
say nothing and `ExitExplained` gives the overtaking as the reason; `launch_race` does.

In `LineReader`, `BuffSize` is 2 against lines of 1 to 5 characters, so a newline falls on
every place of the buffer and lines take up to three reads. `MaxText` bounds what is
written while the client runs (six or nine characters), `MaxFails` the reads that fail.

In `WorkingDir`, a buffer of 9 (`Size`) with a root of two characters lets names of up to four
characters fill it in two to four levels, with every alignment of the cut to a `/`;
`BigSize` keeps the proportion of the code's 2048 to its 1024. Names stand for what matters
of one: short and long, `.`, `..`, one that begins with `..`, one with a `/`. In `Request`,
`MaxTn` is 9 and names have 1 to 7 characters: room to spare, just none, and one and two
too many; or a `:` at any place.

In `FtpFaults` calls fail in one session and the other one shares its process and its
file; a client sends one block of its stack at most (`MaxStray`). Integers of `Printf` have 3 to 7
bits (`Bits`), so that each length modifier wraps, widths are 1 to 12 against fields of
0 to 15, every pair of flags that interact is there, and `%f` gets halves on both sides of 1, 10
and 100. `Lists` has four nodes for lists of up to three words and a copy, so memory
runs out at every place. `ProgressBar` has files of up to seven bytes against a bar of 51: each
byte is several marks, as it is for small files, and blocks of up to four bytes fill or
exceed the file at any call. `CMemory` enumerates every content of five bytes and what may be in front.

### Fairness

Weak fairness of each client's own steps, of each thread's, of `NetReset`, and of
main: a preemptive kernel schedules processes and threads, and TCP delivers or
resets. Commands, quits and kills are never assumed to happen. In `LineReader` only the
client is scheduled: nobody has to write or to close. In `FtpFaults` threads that wait in
`wait4()` are scheduled too, but nothing makes a call fail, nor a loop that can only
break something go on. A client that is
stopped but not dead is not modelled. Without its reading, its session would not
end, nor, through inherited descriptors, might the transfer of another.

## Proofs

`FtpProofs` proves of `FtpSystem`, for any set of clients, names, blocks, files and
menus, any subset of mortal clients, any buffer size and any amount of ls output:

| theorem | statement |
|---|---|
| `Invariance` | `Spec => []Inv` |
| `Types` | `Spec => []TypeOK` |
| `SessionsInStep` | `Spec => []InStep` |
| `RepliesInOrder` | `Spec => []RightToken` |
| `NoTwoReaders` | `Spec => []NoMutualWait` |
| `OneCommand` | `Spec => []SameCommand` |
| `ServerExit` | `Spec => []ServerExitNeedsACrash` |

The invariant is `TypeOK /\ InStep /\ (\A c : Orderly(c)) /\ ServerExitNeedsACrash`. None
of its parts is inductive alone. Types need `InStep`: appending to a local file, or
indexing the server's, keeps its type only if the file exists at that point. That a
thread exits only after a kill needs `Orderly`: a client that ended by itself sent
its FIN with nothing unread, so there is no reset, and its thread owes no reply that it
would write to a connection already closed. That needs `InStep` in turn, which says at which
places of the thread a client can end. `InStep` is a conjunction per client of `ClientShape`
and `ThreadShape`, what a program counter says of its own process, and `Lockstep`,
the table of matching places. The first half of the module shows that every step keeps the types and
that every step of a client and of its thread keeps that session in step, the
frame lemmas that it leaves every other session in step (files that exist stay).

`InStep` speaks of the wire only while the server lives. `RightToken` also holds after
it has died, when a client still reads what was sent: `Wire` is the part of `Lockstep`
about replies, implied by `Inv` while `up`, and preserved by every step when not.

The proofs use the named assumptions of the modules: a positive buffer, `NoFile` not
a sequence of blocks, a tree of directories closed under parents, no file where a
directory is, and the types of `Menu`, `LocalInit`, `FsInit` and `LsBlocks`. TLC
evaluates them in every run.

Its second part, on transfers, proves under the same assumptions:

| theorem | states | rests on |
|---|---|---|
| `DataInvariance` | `[]DataInv` | `Invariance`, one lemma per group of actions |
| `NoMoreThanAnnounced` | `[]ProgressFits` | `Announced` |
| `GetsAreFaithful` | `GetFaithful` (`[][...]_vars`) | `GetData` |
| `PutsAreFaithful` | `PutFaithful` (`[][...]_vars`) | `PutData`, `Receiving` |

The properties compare the two copies of a file when a transfer ends. Their invariant
says what holds on the way. `GetData`: what the client has written, with the blocks in
flight, is the server's file up to the thread's offset, or all of it when the thread
has closed the connection. `PutData`: the server's file with the
blocks in flight is what the client has read so far. Both are stated for sessions whose
file nobody else writes (`~touched[c]`), as the properties are. `Announced`: until the
transfer ends, the size that `handle_get` sent is that of the file. `Fresh`: a get begins with an
empty local file, a connection with nothing in flight, a transfer at offset 0. Nothing is
said once the server has died: no block comes after that, and the
properties judge only what ends before.

`FaultProofs` proves of `FtpFaults`, with any set of unlucky sessions, mortal clients and
local directories:

| theorem | states | rests on |
|---|---|---|
| `FaultInvariance` | `[]FaultInv` | `InitFaultInv`, `NextFaultInv` |
| `FaultTypes` | `[](TypeOK /\ FaultTypeOK)` | |
| `GoodSessions` | `[]OthersInStep` | `Lost` needs a descriptor of -1 |
| `WaitsForPort` | `[]WaitNeedsNoSocket` | `Adrift` |
| `RepliesStayInOrder` | `[]RightToken` | `Wire`, as in `FtpProofs` |
| `FaultsSpareServer` | `[]ServerExitNeedsACrash` | `Orderly` |

`InStep` is false here: a thread whose `accept()` failed goes on to serve descriptor -1,
is in `recv()` again while its client still connects, and the client may give its next command
before the thread has come back. `Session` says what holds instead. A session
is `Kept`, that is in step, with no port on its way if the descriptor once was -1; or it is `Lost`. In a
lost one nothing that the thread sends on the data connection arrives, and `Adrift` says how far
the two can be apart: which replies are still on the wire (`Acked`, `Offer`), that the thread serves
the command its client is at, and that the client cannot get further than one request
ahead. When the thread is in `recv()` again and finds that request, the session is back in
step (`Settle`). The exception is the missing socket: the client stays at `port` and
nothing settles it, which is `WaitNeedsNoSocket`. `Wire` and `Orderly` hold in both kinds, so replies keep
their order and the server its life.

The steps of `FtpSystem` are those of `FtpFaults` restricted by `Guarded`, so a kept session is treated with the
lemmas of `FtpProofs`, which speak of one session (`InStepAt`) and ask nothing of the others but
`Facts`, what the program counters say. That is what makes them hold next to a lost one. New are the seven actions of the faults,
and what a client and a thread do while adrift (`AdriftStep`, `LostServer`). `Reap` is the only one
that moves a thread of another session, with the step that thread would take itself (`ChildEnd`).

`FtpLaunchProofs` proves the hand-off, for any set of connections, any set of
descriptors and any number of launches:

| theorem | states | rests on |
|---|---|---|
| `LaunchInvariance` | `[]IInv` | `InitIInv`, `NextIInv` |
| `LaunchTypes` | `[]TypeOK` | first conjunct of `IInv` |
| `Ownership` | `[]OneOwner` | `OpenAndOwn`, `Exclusive`, `Owned`, `Orphaned` |
| `Exits` | `[]ExitExplained` | `ExitByBad` |
| `Answers` | `AnswersGoBack` (`[][...]_vars`) | `Listening` |

`IInv` is `TypeOK`, `Order` (threads are launched in order, so the one at `n + 1` is
unused) and, until main overtakes a thread, `HandOff`. None of the checked properties is
inductive alone. That two threads do not share a descriptor needs `Exclusive`: the
descriptor on its way to a thread is nobody else's. That it arrives needs `Intact`:
the thread that has not copied `args.afd` is the last one launched, main is back at
`accept()`, and `slot` still is what main put there; this is what `overtaken` breaks.
That `close()` frees what its owner had, and that a thread still answers on the
connection it waited on, needs `Listening`. `Orphaned` keeps the descriptors without a thread
apart from all of these. `ExitByBad` says that the `err_exit()` of a
thread comes from a descriptor that was never open. The assumptions are
`FdsAssumption` (descriptors are naturals, so that -1 is none of them),
`NoConnAssumption` and `ThreadAssumption`.

`LineReaderProofs` proves of `LineReader`, for any characters, buffer size, input and
number of failing reads:

| theorem | states | rests on |
|---|---|---|
| `LineInvariance` | `[]IInv` | `InitIInv`, `NextIInv` |
| `LineTypes` | `[]TypeOK` | |
| `HeldBack` | `[]NothingHeldBack` | `Unheld` |
| `ReaderLosesNothing` | `Spec => NothingLost` | `NextShreds`: every step is one of `LineStream`, or a stutter |
| `ReaderKeepsLines` | `Spec => WholeLines`, given `WritesLines` and no failing read | `Lined`, `ShortRead`, `NextStream` |

`IInv` is `TypeOK /\ Lined /\ Unheld`. `Lined`: while the input is open, what is not yet part
of a line ends with a newline, so a short read without one (`ShortRead`) can only be
the last of a closed input, and what it returns is the `Rest`. `Unheld`: on a terminal the
cache never has a newline, and is empty while a command runs. The refinement steps
rest on lemmas about `SubSeq` and `\o` (`Piece`, `Parts`, `Shift`, `FrontOfCat`, `BackOfCat`).

`WorkingDirProofs` proves of `WorkingDir`, for any characters, buffer sizes, root and names:

| theorem | states | rests on |
|---|---|---|
| `DirInvariance` | `[]IInv` | `InitIInv`, `NextIInv` |
| `DirTypes` | `[]TypeOK` | `StrlcatType`, `EnterLevel`, `LeaveLevel` |
| `Retracing` | `[]Retrace` | `EnterCut`, `LeaveBelow`: `cd_helper` undoes `handle_cd`, cut or not |
| `StaysInside` | `[]Inside` | `EnterUps`, `LeaveUps`: a name without `/` that is not `..` adds no way up, unless it is cut |
| `Addresses` | `Addressed` (`[][...]_vars`) | `Fits`, `DirFits` |

`IInv` is `TypeOK`, `Way` and `AtEnd` (a way up is the end of a full buffer). `Retrace` alone is not inductive: that `cd ..` leads to the last
directory but one needs every element of `trail` to be the one before it with one more
entry (`Way`), because only then is the last `/` the one that `handle_cd` wrote. The
assumptions are `CharAssumption`, `NameAssumption` (no name is empty: `ft_strsplit` makes
none) and `SizeAssumption` (the root fits; root, directory and name fit the bigger buffer).
That a last `/` exists comes from the well-foundedness of the naturals (`Greatest`).
`Pieces` has the lemmas about parts of sequences that both this proof and the line
reader's use.

`RequestProofs` proves of `Request`, for any characters, codes, names, room in the
buffers and names in the directory:

| theorem | states | rests on |
|---|---|---|
| `RequestInvariance` | `[]IInv` | `InitIInv`, `NextIInv` |
| `MessagesFit` | `[]TypeOK` | `MessageShape`, `CodeType`, `NameType` |
| `CommandsAreKept` | `[]CommandKept` | `Dispatched` |
| `NamesAreUnderstood` | `[]Understood` | `Dispatched`, `SecondWord`, `Joined` |
| `SecondsAreTaken` | `[]SecondTaken` | `Alone` |
| `NullsAreExplained` | `[]NullExplained` | `NoLength`, `NoPieces` |

The properties judge a request when it has been split, so each needs to know where the
message came from. `IInv` is `TypeOK`, the two properties about the second code and null
pointers, and four facts about the exchange: what is wanted is a call
or nothing yet (`Asked`); the bytes on the wire are the message of that command (`Sent`) or
of its second code (`SentAgain`); the handler is the one of that command, with what
could be heard of its name (`Answered`). The rest is about strings. `Cut` ends a string at the first
NUL, and the first of its kind exists because the naturals are well-founded (`Least`).
`Dispatched`: the first piece of a message is its code, whatever the cut took from the
name. `LineRead`:
the thread's line is that message, up to the newline or to whatever follows a full one, and its
NUL is in the buffer when the newline is. `Alone`: a second code has no `:`, so it
is one piece.

`LibftProofs` is about the specifications in `Libft`. It proves of `Lists`, for any nodes, contents and number of words, with `Null` not
a node as the only hypothesis:

| theorem | states | rests on |
|---|---|---|
| `ListsKeepInv` | `[]ListInv` | `ListInit`, `ListNext` |
| `ListsAccounted` | `[]Accounted` | `InvAccounts` |
| `ListsRefine` | `ListsAreSequences` | `ListNext`: every step is one of `ListSpec`, or a stutter |

`Accounted` counts nodes between calls; nothing follows from it about a step in the
middle of `ft_lstrev`. `ListInv` has four parts. `Sound`: from every node, following `next`
ends at `Null` after finitely many nodes (`Chain`), so there is no cycle and no pointer to a
freed node. `Held`: the heap is the disjoint union of the nodes known to be lost and the four chains
that are in somebody's hands (`Shares`), which are the list (while it is reversed: what has been turned round and
what has not), a node not yet linked, and a copy; nothing points into another's chain. The pointer with which a later `ft_strsplit_lst`
may start is in none of them, and no step is taken from there.
`Running`: what the loop has done so far, such as that `prev` of `ft_lstmap` is the last
node of the copy and that the copy, with what is still to come, reads as the list.
`ListTypeOK` is the rest. What a new node, a freed one, a `next` that is set or a list that is
appended does to the chains of the heap, and that the others stay as they are, is a lemma
each (`MadeHeap`, `FreedHeap`, `PointedHeap`, `AppendHeap`), so that the proof of an action says which
chains it changes and no more. `Nodes` is a recursive function; `NodesOfChain` shows, with
the well-foundedness of the naturals, that it returns the chain.

Of `ProgressBar`:

| theorem | states | rests on |
|---|---|---|
| `BarAlwaysFits` | `[]BarFits`, given `BarAssumption` | `BarInv`, `FewMarks`, `ManyMarks` |

`BarAssumption` is what makes the second half of `BarFits` true: `total` has wrapped below 0
and must be far above any file. With `w` for `2^Bits` it is `53 * MaxSize < 51 * (w - MaxCalls)`: on the
code's machine `w` is `2^64` and a file has less than `2^63` bytes, so that the left side is about
half the right one. It also says that `2^Bits` is a natural number, as the provers
know nothing of powers. The values of the run satisfy it (371 and 52 020).

Of `CMemory`:

| theorem | states | rests on |
|---|---|---|
| `MemoryAsMeant` | `[]AsMeant`, given `MemAssumption` | `EveryCallRight`: `MemmoveRight` to `StrtrimRight` |

The loops of `CMemory` are folds over the addresses they visit. For each function it is first
shown what its fold leaves at every address (`MoveIs` for both directions of a copy, `StrrevIs` for
the exchange of the two ends), then that this is `Meant`, which speaks of sequences and not of
addresses. `memmove` needs that a copy which goes up never reads what it has written when it
ends in front of its source, and a copy which goes down when it ends behind. The exception of
`ft_strtrim` stays in the statement: of a blank string it looks at the byte in front.
`MemAssumption` is a size, `NUL` different from a blank, and a `Pending` that no function returns; the
model values of the run satisfy it.

Of `Printf`, on the block that the parsers hand to a handler:

| theorem | states | rests on |
|---|---|---|
| `FieldsAsStandard` | text and length of `HandleD`, `HandleU`, `HandleO`, `HandleX`, `HandleP`, `HandleC`, `HandleS` are those of `Standard` | `NumberField` (`PreciseNumber`, `BareNumber`), `TextField` |

This is the part of `CountIsWritten` and `AsStandard` that is about fields, for every width,
precision, set of flags, argument and figures. `pad_block` adds up the parts of a number on its own
(`BlockLen`), the handlers write them one after another; `Layout` says that start filling, sign or
prefix, zeros, digits and end filling in the order of the code are the field of the
standard, as long as they should be, and `FlagsDropped` that the flags which `flag_manager` takes away do not matter.
`Countable` asks for at most 64 digits, the limit of `Places` in the model. Excepted
are `%o` with `#`, for which one must know that a number's first figure is not 0, `%p` with `0`,
where code and standard differ, and `%f`.

What stays with TLC, and why:

* Liveness under fairness and `ENABLED` (`CommandEnds`, `QuitEndsSession`, `CrashEndsSession`,
  `OthersEnd`, `RequestRead`, `EndsWithInput`): TLAPS has no rules for them here.
* `AsStandard` and `CountIsWritten` for whole calls. The parser reads widths and lengths of
  formats with folds (`Atoi`, `FormatOf`), whose value for every input needs an induction that
  cannot be instantiated here; the digits themselves (`Dtoa`) and the wrapping of arguments rest on powers,
  of which the provers know nothing.

Every other property that a passing run checks is a theorem. Of two theorems there is no run:
`RightToken` and `ServerExitNeedsACrash` with failing calls.

## Plan

Done: the protocol, its composition, the launch, the line reader, the working directory,
the request, failing calls, the bar, libft's lists, memory functions and `ft_printf`, and the
theorems above. Left:

1. `FileService`, an abstract specification in which a get or put is one atomic
   operation on two file systems, and `FtpSystem` shown to implement it when no put
   overlaps another transfer of its file. `GetFaithful` and `PutFaithful` are its two steps,
   stated as action properties.
2. The fields of `%f` and `%#o`, from lemmas about the digits of a number.
3. Short reads of the control stream.

## Not modelled

The local commands (`lls`, `lcd`, `lpwd`), which do not touch the protocol; libft's character
classes, wrappers of `write()` and plain copies and comparisons, which TLA+ has built in;
the buffer of `ctime()` that all threads share in `server_log`, which only the log shows; the pointers that
`ft_strsplit` writes past the `8 * n + 1` bytes it asks for (malloc rounds the size up).
The content of messages printed or logged; the names of hosts; the order of `ls`
output; permissions; files other than regular files and directories; a file removed
or changed by something other than ft_p; symbolic links; partial `write()`s to disk.
The addresses of sockets are left out: a data connection is always the one that its
client opened. A machine that loses its power, or a network that loses its way: then neither FIN nor
RST comes, `recv()` in `handle_connection` (`server.c`, line 76) has no timeout and its socket no
keepalive, and the thread waits for ever. `CrashEndsSession` is about killed processes only.
What a program does after undefined behaviour has hit: a NUL written behind `buf` by
`handle_connection`, a list continued from a stale pointer by `ft_strsplit_lst`.
