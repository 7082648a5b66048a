# Verification of ktelnet

ktelnet 2.00 is a set of Windows programs with Kerberos 4 authentication: a terminal program with telnet, serial and
FTP connections (`src/APPL/KTELNET.W32`), an FTP client (`Kftp.w32`), a POP proxy (`KpopProxy.w32`), what the three
share (`KtCommon.w32`), and the Kerberos, DES and window libraries under `src/LIB`. This directory holds TLA+
modules translated from that code, TLC configurations for small instances of them, and theorems checked by TLAPS.

What passes a terminal session byte by byte:

    recv / ReadFile            (reading thread, one per connection)
       |  Decrypt                                     EncryptStream, DesModes
       |  PutChars                                    BufferedStream, ByteStream
       |  post WM_REG_CONNREAD                        TerminalInput
       v
    EvConnectionRead           (window's thread)
       |  telnet commands, escape sequences, text     TerminalInput
       |  what a telnet command means                 Negotiation
       |  what an escape sequence does                Screen, Printing
       |  option replies, keys, paste, file           SendPath
       v
    send / WriteFile

    what to connect to, and over which settings       NewConnection
    open, close, reopen, errors, the thread's end     TelnetConnection
    what a key sends                                  Profile

And around it:

    FTP: the library's machine in ktelnet, its login  FtpMachine, FtpSecurity
    Kftp: window and machine, tree and list           KftpOperation, FileLists
    POP proxy: thread, relay                          PopProxy
    starting, the ticket manager's window, the log    Programs
    tickets in shared memory, service requests        Tickets
    key servers, initial tickets, passwords           KdcExchange
    settings in the registry and their sheets         Setup

| module | models | checked by | proved in |
|---|---|---|---|
| `ByteStream` | what a receive buffer promises, without chunks | abstract specification of `BufferedStream` | |
| `BufferedStream` | `class BufferedStream`, BSTREAM.CPP | `stream` | `BufferedStreamProofs` |
| `TerminalInput` | `TnRead`, `SerRead`, `EvConnectionRead`, `ProcessReceived`, `TelnetNegotiate`, escape parsing | `terminal_input` | `TerminalInputProofs` |
| `Printing` | PRINT.CPP, printing and capture of TERMEMUL.CPP and ANSIEMUL.CPP | `terminal_input` | |
| `SendPath` | `Send`, `TryResend`, `SendPossible` and their callers | `telnet_paths` | `TelnetPathsProofs` |
| `Negotiation` | TOPTIONS.CPP, AUTHOPT.CPP, ENCROPT.CPP against a server | `terminal_input` | `TerminalInputProofs` |
| `EncryptStream` | `EncryptOption` and `CryptoEngine`, the receiving half | `telnet_paths` | `TelnetPathsProofs` |
| `DesModes` | the cipher and the modes of `src/LIB/DES`, `CryptoEngine` of CRYPTO.CPP | `telnet_paths` | `TelnetPathsProofs` |
| `TelnetConnection` | `KTelnetConnection` and its thread from open to delete | `telnet_connection` | `TelnetConnectionProofs` |
| `NewConnection` | NEWCONN.CPP, SERCONN.CPP, the command line, INPUTH.CPP | `telnet_connection` | |
| `FtpMachine` | `FTPMachine::Run`, the parser's commands, `FTPWorker`, `FTPDataStream` and their threads | `ftp_session` | `FtpMachineProofs` |
| `FtpSecurity` | `FTPWorker::Login` and the security handlers of KTFTP.CPP, MK_ and RD_SAFE.C and PRIV.C, tickets at the server | `ftp_session` | `FtpMachineProofs` |
| `KftpOperation` | FTPHND.CPP and the commands of FCLIENT.CPP over two threads | `kftp` | `KftpOperationProofs` |
| `FileLists` | FCLIENT.CPP, LFILTER.CPP: tree, list, paths, listings | `kftp` | |
| `PopProxy` | POPPROXY.CPP: the thread and its message window | `pop_proxy` | `PopProxyProofs` |
| `Programs` | MAIN.CPP of three programs, MWindow.cpp, LOGWND.CPP: starts, `CmShowTickets`, tray icons, the log | `pop_proxy` | |
| `Tickets` | TICKET_MEMORY.C, KCLIENT.CPP, GET_CRED.C, MK_REQ.C, the ticket list | `tickets` | `TicketsProofs` |
| `KdcExchange` | SEND_TO_KDC.C, GET_HOST.C, GET_IN_TKT.C, kadm_cli_wrap.c, the password dialog | `telnet_connection` | `TelnetConnectionProofs`, in part |
| `Setup` | SETUP.CPP, PRPSETUP.CPP, REGIST.CPP, the registry half of GET_HOST.C; their sessions are in `SetupSessions` | `telnet_connection` | `TelnetConnectionProofs`, in part |
| `Screen` | the buffer of TERMEMUL.CPP, ANSIEMUL.CPP, painting, marking | `stream` | |
| `Profile` | PROFILE.CPP: keys, tables, registry, files, the sheet | `stream` | |

## 1. Inventory

### The terminal program

*Receive buffer* (BSTREAM.CPP). State: a linked list of chunks of `CNBUF_SIZE` = 512 bytes with `Head`, `Tail`,
`Mark`, `MarkIndex`, the `Ptr` and `Size` of each chunk, and the event `CharsReceived`. Operations: `PutChars` by the
receiving thread; `RawGetChar`, `UngetChar`, `GetBuffer`, `SkipTo`, `MarkAsRead`, `GetReadData`, `RestoreToMark`,
`IsCharReceived` by the reader. Every call holds `ReadLock`. Correct when the reader gets the bytes that were put, in
order and once, nothing deleted can be reached, and the event is never clear while bytes wait.

*Reading threads* (`KReadThread`, `TnRead` in TELNET.CPP, `SerRead` in SERCONN.CPP). State: `ErrStr`, `ErrorId`,
`ShouldTerminate`. They loop over `recv` or `ReadFile`, put the bytes and post `WM_REG_CONNREAD` to the window; an
error is kept in `ErrStr` and posted with its kind. The telnet thread also closes the socket when the peer is gone.
There is one socket number, `mSocket`, that both threads read and write without a lock.

*Terminal window* (TERMEMUL.CPP). State: the current connection, `ProcessingChars`, `ErrorType`, the paste and the
file being sent, `CancelFlag`. `EvConnectionRead` is a loop that handles what has arrived, then *dispatches messages*,
and goes on until nothing is left; messages that arrive while it runs only set `ErrorType`. The paste loop dispatches
messages too, so keys, replies and menu commands run between two characters of a paste.

*Telnet protocol* (TELNET.CPP, TOPTIONS.CPP, ENCROPT.CPP, AUTHOPT.CPP, NEGOT.CPP). `TelnetNegotiate` parses a command
out of the stream; every option keeps the state of both directions and replies over `SendReply`, which may be refused.
Authentication sends a ticket and checks the server's; its session key becomes the encryption's. `EncryptOption`
switches the encryption on and off in the middle of the stream. Correct when both ends agree on every option and on
the cipher of each direction, whatever was refused, and the exchange ends.

*Screen* (ANSIEMUL.CPP and the screen part of TERMEMUL.CPP). State: a ring of lines of which the last ones are the
screen and the others the scrollback, the cursor, tabs, modes, the scroll region, the marked area, what the window has
painted. Correct when the window shows the buffer, the scrollback is never changed, and what is copied is what is
highlighted.

*Printing and capture* (PRINT.CPP and its users). State: a printer of one of three kinds, open or not, the page and
the position on it, the flags that turn printing on, the capture file. Correct when all that was to be printed or
captured is, once.

*Connections* (NEWCONN.CPP, CONNECT.CPP, TELNET.CPP, SERCONN.CPP). Asked for in a sheet of pages or on the command
line, opened, reopened after a failed authentication by a posted message, deleted when replaced. `Close` closes the
socket and waits for the thread. The settings of a serial line are kept per port. Correct when what was asked for is
what is opened, sockets and threads are never mistaken for another's, and closing does not hang.

*Sending* (TELNET.CPP, SERCONN.CPP). `UnsentData` with `UnsentSize` and `UnsentOffset` holds what the system did not
take; while it is there a new block is refused with a beep. `SendPossible` tries again first.

*Profiles* (PROFILE.CPP). State: a sorted list of key descriptors, two translation tables and texts, in memory, in the
registry, in files, and in a sheet whose pages change them in place; all windows are told of a save. Correct when what
is saved is what the user saw, and comes back as it was.

### FTP

*The library* (KTFTP.CPP, FTPMACH.CPP, FTPPARSE.CPP, FTPCONN.CPP). State: the control stream with the replies not
read yet, `LastCode`, `RetryOp`, the semaphores for abort and exit; for every transfer a data stream with `CurrentOp`,
`EndOfFile`, `IoError` and its own reading thread; the security handler. `Run` logs in, then reads what is left unread,
asks for a command, carries it out and sends an `ABOR` after an abort. Correct when each reply is taken by the command
it answers, a transfer called complete is complete, ends that have logged in open each other's seals, and everything
comes to an end.

*Kftp* (FTPHND.CPP, FCLIENT.CPP, LFILTER.CPP) drives the same library from windows: the window waits for an operation
with `while (!cb.Done)` around its own message loop, and the thread waits for an event `NewCommand`. The window keeps
a tree of directories, a list and a path, each computed from another. Hard: the handshake of the two threads, commands
that begin within others, and which directory a command means.

### The other programs and what they share

*POP proxy* (POPPROXY.CPP). A thread that serves one client after the other: `USER`, the connection to the server with
retries for the ticket, then a relay in both directions woken by one manual-reset event, which a hidden window sets on
notes of the system. Hard: notes lost between a read and a reset.

*Windows of the programs* (MAIN.CPP, MWindow.cpp, LOGWND.CPP, TICKETS.CPP). A ticket manager and a proxy exist once;
others find their window, or start one and look thirty times for its window. A window may be hidden behind an icon.

*Tickets* (TICKET_MEMORY.C, KCLIENT.CPP, GET_CRED.C). A vector in shared memory that several processes append to,
search and compact, with a message to the others at a change. Hard: no lock, boundaries of the vector, positions kept
over steps of others.

*Key servers and passwords* (GET_HOST.C, SEND_TO_KDC.C, GET_IN_TKT.C, kadm_cli_wrap.c). Requests to a list of hosts by
UDP, TCP or HTTP, a first pass and rounds of retries, a late, cut or wrong answer; three ways to make a key of a
password.

*Setup* (SETUP.CPP, PRPSETUP.CPP). Every program has a sheet and a copy of the settings in memory; the registry is
shared; the library caches what it read. Hard: several copies, and lists that are deleted before they are written.

*DES* (`src/LIB/DES`, CRYPTO.CPP). A block cipher of sixteen rounds, once or three times over, and functions that
encrypt texts with it in seven chains. Some of them leave a vector and a number with the caller for the next call;
`CryptoEngine` keeps them for a telnet direction, with a copy to undo its last call. Correct when the other end, which
divides the same text into calls of its own, reads what was written. Hard: what is carried from call to call, at a call
that ends inside a block.

*Libraries.* Kerberos 4, roken, the window library and the password client are mostly sequential library code; of them
what keeps state or asks others is modelled with its users.

### How they interact

Threads share the stream (locked), `mSocket`, `ErrStr`, `mDecrypt` and the engine (not locked); everything else crosses
between threads as a posted window message. Within the window's thread the danger is re-entrance: dialogs, message
boxes and `PumpWaitingMessages` dispatch messages in the middle of a handler. Programs share the registry and the
memory of tickets, tell each other by broadcast, and find each other by the class of a window. `PROJECT.json` lists
every component with its status, and under "hazards" what is hard to test, line by line.

## 2. How the modules correspond to the code

The convention in all of them: an action is a handler or a piece of one, cut where another thread, another program or a
dispatched message can make a difference, and nowhere else. Names are the code's where it has one. What the peers, the
user and the system do is chosen within a record `session` that `Init` picks; it says what may happen in a behaviour,
or a history variable notes when something has happened that a property has to except. A definition that begins with "A
slip:" in its comment is a mistaken variant that the model does not use; each property is known to fail with one.

The tuple of a module's variables, or of one part of them, stands for the class whose members they are, and `map` gives
the declaration of that class; what a class keeps for display or for the library only has no variable.

Components that share no state within a behaviour are checked in one run over a partition of the behaviours: the MC
module declares the variables of all, and `grain` says in `Init` which of them moves (`MCBufferedStream`,
`MCTelnetConnection`, `MCFtpMachine`, `MCKftp`, `MCPopProxy`; in `MCTerminalInput` it is the input, the printing or the
options, in `MCTelnetPaths` the `way` of the bytes, out or in, or the cipher alone). Two are composed in earnest, one
behind the other: `MCTelnetConnection` lets a program ask the hosts that the users' sheets left in the registry.

**BufferedStream.** A call is one action because it holds `ReadLock` throughout. Chunks are numbered in the order they
are allocated, so `Next` is "+ 1", and deleted chunks are kept in the set `freed`. A byte is the count of bytes put
before it, which is all that order and loss need. `SkipTo` may stop after any number of bytes of the chunk, since where
it does depends on the data. `calls` is the set of calls this user of a stream makes; the FTP library never goes back
to the mark. *ByteStream* is what the class promises: a reader position and a mark in one sequence of bytes. The
refinement maps `rd` to `tail * ChunkSize + ptr[tail]` and `mk` to the same of the mark.

**TerminalInput.** The stream is reduced to positions (`put`, `rd`, `mk`), which the refinement above justifies for a
reader that stays within a chunk. `gui` is the place in the code the window's thread is at: `loop` (ProcessReceived),
`chars`, `escape`, `restore` (before RestoreToMark), `pump` (dispatching), `box` (a message box), `junk`. Messages that
come in `pump` or `box` are swallowed as by the code's test of `ProcessingChars`.

**Printing.** What the host sends is a sequence of texts and printing sequences. `printer` is the PrinterWin,
PrinterFile or PrinterSerial with its page and position, `enable` the flag of PrintOn and PrintOff; dots stand for
device units. Opening, starting a page and writing fail where the session says so. `boxes` are message boxes with what
the user may do behind them.

**SendPath.** A first attempt and all that follow are modelled with the code's own arithmetic: `Kept` and
`LeftAfter` are the four assignments of `UnsentSize` and `UnsentOffset` in the telnet and the serial version, which
are not the same. The system's answer to every attempt is an error, or any length up to all of it. `serial` says which
connection it is. A remainder taken in part is counted wrong by both versions; `miscounted` is a history variable that
notes it (`Miscounts`). `asked` separates SendPossible from the Send that follows, as the reading thread may close the
socket in between.

**Negotiation.** A message is an option command or suboption as a record; `YesNoOption` keeps the two directions as in
the code. The server follows RFC 1143, asks for changes in any order and takes them back; it picks the types of
authentication and encryption from `session`. A cipher is a pair of key and vector, and an end can read a direction
when both ends hold the same pair. `SendReply` may be refused at any place the session names: that is `SendPath` with a
block unsent. When no pair of a SEND fits, or only one-way pairs come last, the loop of `NegotiateSend` goes on behind
the suboption (`Overread`): it answers nothing, or after a character of text, or it takes the IAC of the next command
(`NegotiateSendOn`), whose rest is shown; `eaten` has the options that lost a command so.

**EncryptStream.** A cell is a byte with its place and its form: plain, cipher or garbage. Decrypting gives the plain
byte only if exactly the encrypted bytes before it have gone through the engine, which is what CFB needs. Each chunk has
its own `Ptr`, since `RestoreToMark` sets back only one. `Receive` and `PutChars` are two actions: the code decrypts
first and takes the stream's lock afterwards, and the window's thread takes several steps from the last GetBuffer to the
assignment of `mDecrypt`. Nothing keeps the peer or the other thread from going on meanwhile; `missed` notes when one of
the three things has happened that the code does not see (`Misses`). `START` and `END` are single tokens.

**DesModes.** Two ends begin with the same keys and the same vector. A call is a loop over units (blocks, the numbits of
cfb and ofb, single bytes), each turn a step, so that text can be decrypted while more of it is being encrypted. `Chain`
is the loop's own copy of vector and place, `iv` and `num` what the caller has; `TurnedTo` writes back what the
function writes back, which is not the same for all. A byte is a set of bits and addition is symmetric difference. The
rounds are written as in the source, four to a turn of the loop, the halves exchanging their names; what the S boxes
and the selection of key bits compute is any function, since nothing rests on it. `UndoDecrypt` repeats the last call
from the copy, for its first units only.

**TelnetConnection.** A connection has `mSocket`, a thread at one of the places of `TnRead`, and `stop`. `owner` is what
the system knows: which connection a socket number was opened for. The same number may be given out again after a
close, which is what makes an unlocked double close interesting. `gui` walks through Close, the assignment behind it,
Terminate and the wait. A dialog in the middle of processing is the state `process`.

**NewConnection.** `sheet` has the pages (telnet, serial, FTP) with what each holds; `history` and `lastUsed` are kept
per page, `stored` are the settings of a port in the registry, `line` those the device has. A command line is a sequence
of options, read by the code's loop. `asked` and `conn` are what was asked for and what was opened; `asked.given` is
what the command line said and the page that it brought up did not (`Wish`).

**FtpMachine.** `at` is the place the machine's thread is at: the name of a command that is sent there and whose reply
is waited for, or a place of its own (`drain`, `prompt`, `wait` for a transfer, `final` for its last reply). `part` is
the function that is executed, and `AfterReply` is where that function goes on after a reply. A reply carries the
number of the command it answers, which the program cannot see. `data` is the data stream of the present transfer:
blocks `sent` by the server and `got` by `Receive`, and the flags that decide when its event is set. `ctl` and `woken`
separate what the reading thread does at the end of the control connection (the socket becomes invalid, the event is
set) from what the machine makes of it when it looks. The server executes commands in order, answers with the codes of
`Codes`, and may refuse, close a data connection early or drop the session. A reply arrives as a whole, commands that
send one command and ignore the reply are all `DELE`, and in active mode the server has connected before it says 150,
so a blocking `accept` is not modelled.

**FtpSecurity.** The places of `FTPWorker::Login` and of the commands about tickets; `sec` and `stream` are the handler
of the worker and the one the control stream uses, `service` what a ticket is wanted for, `told` what the user was told,
`out` and `in` the command and the reply under way. An address
is its rank in the order `krb_lsb_antinet_ulong_less` compares in; a seal has the key, the sender's address and the
direction bit that `lsb_time` makes of two addresses, and is opened by the code's comparisons, the file krb.equiv
included. Sessions have this machine and the server directly connected, behind a translator, behind a firewall, with
addresses in either order.

**KftpOperation.** `stack` is the window thread's stack: the commands that have begun, the innermost last, each with its
block, its place in the command, and the operations it has still to ask for. `cb` and `NewCommand` are the machine's
pointer and flag, which the machine reads again when it writes a result. `late` and `unread` are replies no operation
waits for, `posted` the CM_CLOSECONN in the window's queue. The opening takes a lock for its authentication only
(`RemAuth`, `Dialog`), so that the user may close before it goes on.

**FileLists.** A text is a sequence of words with the separators among them, so paths, names and lines of listings are
taken apart as `strtok_r`, `BuildPath` and the filters do. `fs` is what is at the server, `tree`, `rows` and `path`
what the window has. A command of the user is one step, as its handshake with the machine is `KftpOperation`'s; a
listing is read line by line, with messages between.

**PopProxy.** `at` is the place in `Run` the thread is at; `input` what a peer has sent and the proxy has not read, `up`
and `down` the two halves of the relay's buffers, `upOut` and `downOut` what the other side has got. `notes` are
those of the system on their way to the message window, `event` the manual-reset event they set; notes of a closed
socket may still be among them. A connection may break at any time (`Breaks`): recv and send then fail, and the relay
ends with what the other direction holds. `replies` counts the answers to the client's last command, or greetings.

**Programs.** `proc` has the processes with their windows and places, `order` which window is in front, `kept` what the
registry keeps between starts. A started program takes its steps later. `waiting` is the loop of `CmShowTickets`. The
log is a string of lines with the code's positions.

**Tickets.** The vector, its count, the address and name tables are one record per shared word; a function of
TICKET_MEMORY.C is cut at each access that another process can fall between when the session says `apart`, and is
otherwise one step; `crossed` notes that it has happened. `at` is a process's place in GetTicketForService, krb_mk_req,
get_ad_tkt and the dialog; `i` and `j` are the indices that a save, a search or a sweep goes on with while others move
the records.

**KdcExchange.** `hosts` and `orealm` are the static list and its realm, `req` the request with pass, host and round,
`dialog` and `link` the password change, `wild` the variables that were read without a value. An answer is whole, cut,
empty, late, noise or a refusal, under one of three keys.

**Setup.** `prog` has each program's copy, its sheet with the pages that were created and what they hold; `reg` is the
registry, `cache` the library's, `file` an exported file. `stored` notes what users asked to be stored.

**Screen.** `scr` has the buffer as one array of cells with the code's index arithmetic (`Addr`), all of the
emulator's attributes, and what the window has painted. An operation is one control sequence, or a piece of text, with
its arguments.

**Profile.** Descriptors are allocated and freed by number, so that a pointer that is kept can dangle: `used` notes an
access to a freed one. `km` and `registry` are the copies in memory and on disk, `sheet` the pages, `meant` what the
user sees. The conversions to and from the registry and a file are modelled as what they keep and lose of each entry.

## 3. Runs

Every bound is a CONSTANT; a comment at its declaration names it as one. The whole takes about ten minutes.

| run | instance | distinct states | checks |
|---|---|---|---|
| `stream` | chunks of 2, 5 bytes, blocks up to 3, users with and without RestoreToMark; a buffer of 4 lines by 2 columns, 5 operations; 2 profiles, 2 keys, 2 shifts, a table of 2 characters, buffers of 14 and 24 characters, 8 steps | 1,190,240 | `NoDangling`, `NoLostWakeup`, `StreamPromise`, `ShownIsHeld`, `ScrollbackKept`, `NothingFreedIsUsed`, `CopiesAgree`, `SavedIsMeant` |
| `terminal_input` | sessions of 4 to 7 bytes, blocks up to 4; printing on pages of 2 by 2 characters, 3 commands of the user; up to 3 demands of the server, 1 change of size, refused replies, pairs that fit or do not | 227,755 | `HandledInOrder`, `PrintingIsTrue`, `EndsAgree`, `AllHandled`, `Settles` |
| `telnet_paths` | out: paste of 2, file of 5 in blocks of 3, replies of 1 and 3, telnet and serial; in: every text of up to 6 tokens and some of up to 8, chunks of 3, blocks up to 4; cipher: 12 functions, 4 bytes of 1 bit in blocks of 2, 3 keys, every vector | 880,519 | `NothingLost`, `ReadAsSent`, `ReadBack`, `PasteEnds` |
| `telnet_connection` | 3 connections, 2 socket numbers, 2 blocks; sheets and command lines of up to 7 steps, histories of 3; 2 programs with 4 steps of their users, 2 realms, then a request over up to 2 hosts and 2 rounds, 2 requests | 432,325 | `SocketsKept`, `OpensAsAsked`, `HostsAreWhole`, `HostsAreAsked`, `CloseEnds`, `SavedIsMeant`, `ChangeIsTold` |
| `ftp_session` | sessions of up to 2 commands, files of up to 2 blocks, 1 retry of the login; and logins with tickets over every order of addresses | 158,100 | `RepliesMatched`, `Complete`, `Understood`, `ToldIsTrue`, `JobEnds`, `LoginEnds` |
| `kftp` | up to 3 commands, 2 files; lists under 5 commands on UNIX and VMS | 425,708 | `NothingFreedIsUsed`, `ResultIsOwn`, `CommandEnds`, `ActsWhereShown` |
| `pop_proxy` | 2 items each way, 2 clients, 2 stale notes, 1 retry, both connections break; three processes, a log of 8 | 186,756 | `Conserved`, `RelayGoesOn`, `WindowsServe` |
| `tickets` | 2 clients and the manager, 2 realms, 2 users, a vector of 4, 1 destruction per request | 367,207 | `HandsOut`, `Recovers` |
| `null_is_sent` | servers that offer a one-way pair, or no pair that fits | violated | `NullIsSent` |
| `given_is_taken` | command lines with a user or a profile that bring up the sheet, 4 steps | violated | `GivenIsTaken` |
| `tried_again` | hosts behind a proxy, 2 rounds, 2 requests | violated | `TriedAgain` |
| `in_vector` | as `tickets` | violated | `InVector` |

What the properties say:

* `stream`. Nothing deleted can be reached; whoever waits for the event is woken; the chunk list implements
  `ByteStream`. The last two are about users that only go forward in the stream. The window shows the buffer, the copied
  text is the highlighted one, cursor and lines stay inside; lines in the scrollback never change, and the oldest alone
  go, when the buffer is full. No freed descriptor of a profile is used but in the two ways named below; what is saved
  and loaded, exported and imported is the same but for named losses; what is saved is what the user saw and set.
* `terminal_input`. Text is shown once and in order, commands are obeyed and not shown, whatever the blocks and the
  messages in between; all of it is dealt with in the end and an error is shown. What was to be printed is printed,
  what came while the capture file was open is in it, and the printer is there when it is called. Both ends can read
  each other and agree on the options whenever nothing is on its way, but for a reply that was refused and an option
  whose command was eaten behind a SEND without a pair that fits; the exchange ends, encrypted where all are willing.
* `telnet_paths`. What was accepted reaches the system in order, the rest is exactly what is kept, and a paste ends,
  unless a part of a remainder was counted wrong; what SendPossible allowed is refused only if the connection was
  closed. Each byte that comes in is decrypted once and in its turn, and taken back where it was not encrypted, however
  the stream falls into blocks and chunks and whatever arrives meanwhile, unless one of three things has happened, which
  `Misses` gives with all that each takes: a byte was received while the window's thread was between its look at the
  buffer and the assignment of `mDecrypt`, or before and put there later; GetBuffer gave the next chunk, or not all that
  is behind an END; more is behind an END than the last block. None of them can be left out: without any one, or without
  any of its conditions, TLC finds a byte that is read wrongly. In every mode what is decrypted is what was encrypted,
  unit by unit, however the calls of the two ends divide the text, undone calls included.
* `telnet_connection`. Sockets and threads are those of the connection they were made for and end with it; closing
  ends, and the user is told of a close by the peer. What is opened is what was asked for, but for what a command line
  gave to a sheet, a serial line has the settings that are shown, and names that were used can be chosen again. The
  registry holds what the users meant and no more; the hosts a program asks were set up as a whole; a request is given
  up only after all of them were asked as often as they should be (where only hosts behind a proxy are left, that is
  once); what is said of a password change is what happened, and nothing of it stays behind.
* `ftp_session`. No command takes another's reply; what is called complete is; commands and the machine end. Who is
  let in and the server understand each other, what the user is told of a command is what became of it, and tickets
  that are stale do not stand in the way of a login that renews them.
* `kftp`. No operation runs in a deleted handler or on a freed entry, but the first one behind the authentication within
  an opening that the user has closed meanwhile; each returns with its own result; each ends. The
  window shows what is at the server, and a command acts in the directory that is shown.
* `pop_proxy`. The relay passes on everything, in order, and to the end unless a connection breaks, and each command is
  answered as often as it should be; it goes on whatever notes are lost, and the thread ends when told. A hidden window
  has an icon, the log is the tail of what was said with the marked part still marked, and who asks for the ticket
  manager is answered.
* `tickets`. As long as no process has fallen into another's accesses (`crossed`; no lock keeps it from that), a ticket
  that is used is not older than the destruction of the realm's tickets, and while nobody clears tickets it is complete
  and the principal's it was issued to. Expired tickets do not keep a client from the service for ever, and the list
  comes to show what is there, where processes stay apart.
* The last four runs state what a comment of the source says, and TLC finds each violated: the findings below.

Why the bounds are enough. *Stream*: five bytes in chunks of two make three chunks, so there is one being filled, one
being read and one holding the mark, with a block that ends inside a chunk, at its end, or covers more than one. The
code compares chunks only with their neighbour. *Input*: the parser looks three bytes ahead at most and an escape
sequence is two tokens here; every session has something before and behind what it is about, and blocks of up to four
bytes end everywhere. A page of two lines is filled and left. *Sending*: blocks of three can be taken in part, the rest
in part again, which is where the count goes wrong, and one more block waits behind them. *Decryption*: six tokens in
chunks of three have a START, an END and text on both sides of a chunk's end and in two blocks behind a command; the
proof covers longer ones. *Options*: three demands are one that is answered, one that
meets the answer, and one that takes it back; tokens behind a START lie in its own chunk, in the next, or arrive during
the work on it. *Ciphers*: four bytes are two blocks, or four units that end in and at the end of a block; a key stream
that was cut in a block goes on in the next call. *Connections*: with three connections and two numbers a number is
reused while messages of its former owner are queued; a history of three is filled and overflows. *FTP*: what one
command leaves behind meets the second; each kind of trouble has a session with the commands it is about, and files of
two blocks have a beginning and an end that differ. Addresses take every order, which is all that the direction depends
on. *Kftp*: three commands nest and leave one to come after them. *Proxy*: two items are split between, or joined in, a
block; the second client meets what the first left behind. *Tickets*: a vector of four holds the two initial tickets
and overflows with the service's. *Setup*: two programs, each with one step between two of the other; one session looks
hosts up while they are edited, another carries lists through files. *Screen*: four lines are scrollback, screen of two
or three, and the wrap of the ring; a row of two has a first and a last column. *Profile*: two descriptors have a
neighbour to be sorted by and inserted before; some strings fit into the short buffer of the export, and some do not.

All configurations say `CHECK_DEADLOCK FALSE`: a
session's input is finite, a behaviour may have sent, read and closed all there is, and then nothing more happens.

### Findings

Four places where a comment of the source says what the code does not do; each has a run that finds the violation.

* `NullIsSent`. A server whose pairs do not fit should be sent a NULL pair ("Cannot do kerb4, one-way -> Send NULL
  authpair", AUTHOPT.CPP:172). The loops at AUTHOPT.CPP:145-159 do not look where the suboption ends. With a one-way
  pair last, or none of Kerberos 4, they take IAC SE for a pair and read on; if nothing has arrived there,
  NegotiateSend returns without an answer, and the server waits.
* `GivenIsTaken`. `-f -l user` and `-i profile` "on all variants" (TERMEMUL.CPP:508-512) bring up the sheet, whose pages
  start empty, or with the window's profile, and write that over what was given (NEWCONN.CPP:152-159, 278-282, 547).
* `TriedAgain`. "Several attempts (retries) are made for each server before giving up entirely" (SEND_TO_KDC.C:58), but
  a host behind a proxy does not clear `no_host`, so that the request is given up after the first round (189).
* `InVector`. `cred_vec` has `CRED_VEC_SZ` records (TICKET_MEMORY.H:64). nextFreeIndex compares with `>`
  (TICKET_MEMORY.C 256) and gives out the index behind them; when processes overlap, which "tf_init() opens the ticket
  file and locks it" (301) is to rule out and nothing does, more than one. `StaysInReach` proves how far it can go.

### Met while modelling

What the code does and the properties name as an exception, or what no session has because the property would only say
that it is so. Each was seen in a run of an earlier or larger instance, or read while translating the lines.

*Stream and input*

* RestoreToMark sets `Ptr` of the marked chunk back, not of the chunks behind it (BSTREAM.CPP:191; CHANGES.TXT:154-155
  speaks of sequences that cross a boundary): a sequence that is given back over a chunk boundary loses the bytes of the
  second chunk. It also clears the event although a block has arrived meanwhile; a serial connection looks only at the
  event and shows that block when the next one arrives. Hence `Forward` in the stream's properties; on telnet
  connections ProcessReceived looks at the next byte itself.
* A telnet command whose bytes come in two blocks is not given back; its rest is shown as text. For `IAC IAC` the second
  byte is put back and taken for the start of a command (TELNET.CPP:742). A command inside an escape sequence: GetChar
  refuses the IAC, the sequence is restored, and the loop never ends (TELNET.CPP:680, 819). No session has these.
* Junked bytes stay ahead of the mark and come back with an escape sequence that is restored (TERMEMUL.CPP:1524). An
  error that arrives while the box of another is up is forgotten (TERMEMUL.CPP:852).

*Printing*

* `PrinterWin::Close` keeps the job open without AutoEject. CmPrintSelected prints nothing when a closed file or serial
  printer is left from the host's printing, and ends that printing. Ejecting a page while the host prints leaves
  `EnablePrint` with a closed printer, and the text is lost silently. A device that was opened in part makes the next
  Open succeed and print nothing. The setup saved while a box about the printer is up deletes the printer, which the
  code then closes. A character from 128 on wraps one column early.

*Sending and encryption*

* TryResend counts `UnsentSize` as what was left at the start of the attempt while it advances `UnsentOffset`
  (TELNET.CPP:637; CHANGES.TXT:110): a third attempt tries a length that is too small or negative. On a serial line
  the offset of a block taken in part is subtracted twice (SERCONN.CPP:461). `miscounted` notes both; bytes are then
  lost, or the paste waits for ever.
* An END takes back one decrypted block; with two behind it the length asked for exceeds what is kept (`outran`). The
  assignment of `mDecrypt` races with the reading thread (ENCROPT.CPP:383, 413; `raced`). A START whose text continues
  in the next chunk finds that chunk's `Ptr` moved, and GetBuffer at an END gives one chunk only (`split`).
* AUTHENTICATION leaves WILL, WONT and DONT unanswered. `mAuthenticated` is true from the constructor
  (TELNET.CPP:236), so ENCRYPT is never refused for want of it, and offered before authentication it keeps an engine
  of key 0. The response to the challenge is compared, and the result ignored (AUTHOPT.CPP:373). REQUEST_START is
  ignored; START is answered with START each time. A reply that is refused leaves the ends with different ideas of an
  option (sessions with `jam`, which `EndsAgree` and `Settles` name). A command behind a SEND without a pair that fits
  loses its IAC and is shown.

*DES*

* `des_cfb_encrypt` counts bytes (CFB_ENC.C: `l -= n`), `des_ofb_encrypt` units (OFB_ENC.C: `l--`), so the same length
  means different texts. `des_cbc_encrypt` and `des_pcbc_encrypt` leave the vector as it was, and `des_cfb64_encrypt`
  does not: which text can be continued depends on the function, `carries` in the model. The last block of a call of a
  chained mode is filled up with zeros and comes out whole, so that a text cannot be continued behind it.

*Connections*

* A second REJECT posts a second retry (TERMEMUL.CPP:863); the model has one for each connection.
* With `-o`, or `-f` and `-s` without a host, what the command line gave is overwritten by what the page holds
  (`GivenIsTaken` of the findings; `-h` and the ticket as well). `-l`, `-h` or `-p` without a host
  and without `-o` open nothing, silently. A port as an argument of its own after `-s` is ignored.
* A telnet page refused for an unknown host leaves its profile for the next page. A name that was refused is forgotten
  when the next one of the same sheet is taken; names typed in visited pages that are not in front are remembered; an
  empty name takes a place.
* The results of GetCommState and SetCommState are tested for `< 0`, which they never are: a refused setting is shown as
  set. A dialog left with nothing selected stores -1. After settings on the command line, CM_SERIALSETUP changes what is
  shown and stored, not the line. SerRead never reports an error.

*FTP*

* Three ways to wait for ever, which `JobEnds` names. `SendHangs`: the server closes the connection of an upload, and
  the loop around `SendPossible` asks an invalid socket (KTFTP.CPP:1704). `ReplyHangs`: the control connection ends
  while a reply is unread; reading that reply resets `CharsReceived`, which the end of the stream had set, and the
  next reply is waited for for ever (KTFTP.CPP:1004). `DrainHangs`: the window is closed with replies unread;
  `GetReply` returns at once and `while (NewCharsReceived())` goes round (FTPMACH.CPP:145).
* After a failed write the last reply is not read (KTFTP.CPP:1989), and an abort outside a download has the same
  effect; `RepliesMatched` is stated of `Tidy` sessions. MGet waits for an event that the first block sets
  (FTPMACH.CPP:483).
* The rule about a firewall's address flips a direction only when the own address is the lesser and the firewall is
  outside, so it never turns both directions when both need it: such logins fail (`Understood` holds, since Login
  checks both). The own address behind a translator is found with DES keys only, so users with AFS keys cannot log in
  authenticated there and are refused without a retry; so are those whose seal of the ADAT reply names an old address.
  RemoteKauth's AFS key uses the host's realm.
* `PrintfHelper` ignores a failure to encode and sends the plain text; a failure to decode leaves code 631 or 632. A
  comment in the last line of krb.equiv without a newline makes `krb_equiv` loop for ever (KRB_EQUIV.C:96).

*Kftp*

* A close during the authentication within the opening deletes the handler before the opening goes on with it
  (FCLIENT.CPP:875-881; `ClosedInOpen`). F5 during a deletion frees the entries that CmDeleteFile holds. Renaming in
  the tree or list, CmOpenConnection and CmMkDir take no lock, so that an operation within another overwrites `cb`. A
  greeting that is refused, or 421 during the login, posts CM_CLOSECONN, which deletes the handler inside its own
  Operation. A window that does not sleep can lose a command (FTPHND.CPP:390) or find a second result in its next block
  (408). The reply of an ABOR may be read by the machine's drain loop (`ReplyTaken`); when the machine's thread has
  ended, Operation waits for ever (`ThreadGone`). A Stop while LIST is being asked for leaves `AbortSemaphore` set.
  Each end of a machine posts CM_CLOSECONN, which may hit a newer connection.
* F5 while a listing is read clears the rows already read, and the list stays partial. Renaming in the tree changes
  neither list nor `CurrentPath`; after two, commands can act on another directory. Typed paths make nodes of
  directories that do not exist, and a rename can then give two nodes one name. VMS paths are split at "[,]", not at
  ".", so one directory can have two nodes. Device files and groups of two words get wrong names. `BuildFileName`
  compares an uninitialised buffer. Several versions of a VMS file are downloaded into one local file. `session` and
  the variables `whole` and `moved` of `FileLists` name them.

*Proxy and programs*

* A refused password is told twice. Notes of closed sockets make an accept fail and reset a client that waits. A note
  lost between WOULDBLOCK and Reset delays a login until the next note. A server that is silent holds the proxy for ever
  (INFINITE wait). When a side closes, or a connection breaks, data of the other direction may be dropped.
* Two managers, or two proxies, run when two start between FindWindow and the creation of the window. Kftp and the proxy
  without a `TicketManager` setting start their own program with `-m`: Kftp ignores it and opens another FTP window, and
  the proxy shows the log of the one that runs; the user is told "???". A command posted to a manager that closes is
  lost. An icon is not restored when the shell restarts.

*Tickets and servers*

* Nothing is locked, and the 21st ticket overwrites what lies behind the vector (`InVector` of the findings).
  A full vector, or tickets cleared under a request, end it like a cancelled dialog; clearing
  may leave a ticket without a principal. A record that is written half can be found by name. Two clients may go on
  destroying each other's tickets. Expired tickets are never removed; two logins at once store the initial ticket
  twice.
* A connection closed without data counts as an answer, a cut TCP or HTTP answer is accepted, and
  a proxy's error page ends the search. The last verdict other than a bad password wins. Names that were not found
  while offline are not tried again until another realm is asked. In the password client `priv_pak` is freed twice and
  `ret_sz` read without a value when the connection is lost; a lost reply tells an error although the password was
  changed.

*Setup, profiles, screen*

* "Overwrite?" answered with yes at an import writes the old entry last, which wins. ApplyConfig deletes all realms
  before it writes one: who reads in between finds no hosts. SaveData writes all parts, so that it undoes what another
  program saved before its broadcast; pages that were created overwrite what others saved. A user without write access
  who has opened a list page that is not empty cannot press OK. An exported empty default realm comes back as
  "NO.DEFAULT.REALM". WriteEnabled is uninitialised when its key is missing.
* CmDelete with a changed operation uses a freed descriptor; a SENDSTRING that is posted points into a descriptor that
  another window's broadcast frees (both in `stray`). A cancelled sheet leaves key edits in memory. WINDOWS and DEAD
  entries are not saved. A string is exported into 128 characters
  and cut there silently, although the sheet takes 1023 (PROFILE.CPP:1702, 2533; `MayBeCut`). Translation by Windows is
  not exported, backslashes are not doubled, commands without a name
  are exported as numbers that the import refuses. A syntax error leaves a part imported.
* A tab goes past the right edge and BS left of the first column. Shrinking makes `CursorLine` negative, and a scroll
  region outlives it. IL, DL and ICH take negative lengths near a margin. Marks do not move with the lines when the
  buffer is full. MarkAll omits the last column, and a line of full width loses its line end when copied.

## 4. Fairness

Only liveness properties use it, and it is stated of the modules' own actions.

* Threads, and programs that have started, take their next step when they can: Windows schedules all that can run
  (`Window` and `Post`, `Handler` and `Reader`, `Machine`, `Machines` and `Windows`, `Thread` and `EvProxyNote`,
  `Runs`, `Step`). Message boxes and dialogs that a thread waits in are answered (`Dismiss`, `Reopen`, `User`; those
  of the others are part of the thread's steps), by any of their answers.
* Peers: `Receive` of `TerminalInput`, a peer that goes on sending while the connection is open; the servers of
  `FtpMachine`, `FtpSecurity`, `Negotiation` and `PopProxy` answer what they have received; replies on their way to Kftp
  arrive. Both ends of the negotiation take what has arrived.
* A system that is asked again and again makes room at some time: strong fairness of an attempt that leaves nothing
  unsent (`SendPath`), and of sends that take something (`PopProxy`).
* Never forced: the user's commands, closing, aborts, lost connections, notes of closed sockets, another program's save,
  new clients, requests and starts.

## 5. What is proved

The theorems hold for every value of the constants that satisfies the module's ASSUME. That of `FtpSecurity` is made in
`MCFtpMachine`, which the proofs extend: there it is `S!SecurityAssumption`. Those of `SendPath` and
`DesModes` are made in `MCTelnetPaths` (`PathsAssumption`, `CiphersAssumption`), those of `Setup` and `KdcExchange` in
`MCTelnetConnection` (`SetupAssumption`, `KdcAssumption`), those of `Negotiation` in `MCTerminalInput`
(`OptionsAssumption`, `EncryptionBehind`).

* `BufferedStreamProofs`. `ListInv` is inductive under all eight calls: `TypeOK` and `NoDangling` with two facts they
  need, that the mark's offset is inside its chunk (`MarkInChunk`), and that chunks behind `head` are empty
  (`EmptyBeyondHead`), without which PutChars could not start a chunk at offset zero. `TypeCorrect` and `ChunksSafe`
  follow. `WakeupNeverLost` is about users that do not call RestoreToMark. It adds `NothingReadAhead`: no chunk behind
  `tail` has been read in part, the very thing RestoreToMark breaks. `StreamKeepsItsPromise` is the refinement: for a
  user that only goes forward every step of the list is a step of `ByteStream`, or a stutter. What it needs
  is the place of every byte (`Layout`): the one at offset `i` of chunk `n` is number `n * ChunkSize + i` of the
  stream, and every chunk before `head` is full, so that the reader's position does not jump where a chunk ends; and
  that the mark does not overtake the reader (`Trailing`), also when a byte is given back (`JustTaken`).
* `TelnetPathsProofs`, the way out. `AllowedIsAccepted`: between SendPossible and Send the pending block can only stay
  empty and the connection can only close (`AskInv`). `NothingIsLost`: `NothingLost`, on a telnet and a serial
  connection whose system answers every attempt as it likes: until a part of a remainder is counted wrong, the bytes on
  the wire and those unsent make up one run from 1 to `accepted`. `SendInv` strengthens this to whole runs (`Run`,
  `Block`), so that a partial write splits a run into two; it also has what `UnsentSize` means in each version as long
  as nothing was miscounted. `RunHead`, `KeptOrNot`, `ResendKeeps` and `FirstWriteKeeps` say this of TryResend and
  Send, and each caller cites them.
* `TelnetPathsProofs`, the way in. `StreamReadAsSent`: `ReadAsSent`, for any texts, blocks and chunks, with both
  threads going on at every step. The invariant `StreamInv` is claimed while `missed` is empty, and a step that adds
  nothing to `missed` keeps it: so the proof says that what `Misses` names is all that can go wrong. `Decoded` says of
  every byte that has arrived which form it has: up to `Deep` it has been through the engine, from the place the
  window's thread has come to on, and behind that it is as it was sent. `Deep` depends on where that thread is: while
  it decrypts the rest of the buffer it is the reader's place, which is ahead of the mark (`InPlace`). `Remembers` is
  why UndoDecrypt can mend what was decrypted behind an END: `lastIn` has all of it as it came. `Quiet` is that nothing
  is on its way when `mDecrypt` is about to be set. That the engine's count is right needs how many bytes are encrypted
  between two places, which is why `Encrypted` counts the members of a set (`EncryptedSplit`, `EncryptedNext`).
* `TelnetPathsProofs`, the cipher. `CiphersReadBack`: `ReadBack`, for blocks of any even size, any keys, any lengths of
  calls, and any functions in the place of the S boxes and of the selection of key bits, provided the first and the
  last permutation undo each other (`CiphersAssumption`). A round undoes itself with the halves exchanged, so sixteen
  of them do with the keys in the opposite order, and so do three passes with three keys. `CipherInv` says that the end
  that decrypts meets at each unit the chain that the other end had at that unit (`Meets`), which is true behind a call
  as far as the function writes back what it went on with (`Goes`), and that the copy which UndoDecrypt repeats is the
  state at the unit where its last call began (`Stands`). `AllWays` puts the three ways together for what
  `telnet_paths` checks, without a further assumption.
* `TelnetConnectionProofs`. One inductive invariant gives `SocketsAreOwn`, `ReadersEndFirst`, `SocketsAreClosed` and
  with them `SocketsAreKept`. Its core is `OnlyAttached`: every connection is either attached (it is the window's, or
  the one being closed) or fully detached (no socket, no thread, no owner), and `ClosedFirst` with `RetryIsClosed`:
  while a retry is queued or being asked the window's connection is closed, so Reopen cannot hand its number to a
  thread that still looks at `mSocket`. `OneRetry` keeps a second retry out.
* `TelnetConnectionProofs`, what is set up, for any programs, realms, pages, hosts and edits, and with the requests
  behind them. `ListsAreWhole`: `HostsAreWhole`. The realms are deleted one after the other and written one after the
  other, so what the registry holds is whole only while no program is between the two (`ListsWhole`); a cached list was
  read then, or is not used (`CachedWhole`). `OnlyAskedIsSaved` is the half of `SavedIsMeant` that says nothing else is
  stored than what was asked for. SaveData writes every part, whatever was changed, so this rests on the copy in memory:
  a part whose page was not opened, or is not to be saved, is in memory as it is in effect, or another program has just
  stored it and its broadcast is still to come (`Loaded`), and a page is taken over only by who pressed OK
  (`SheetInv`). They are parts of `SInv`.
* `TelnetConnectionProofs`, the requests, for any hosts, protocols, fates of a packet and kinds of key.
  `ChangesAreTold`: `ChangeIsTold`. That a change is told is about the last reply alone; that nobody's password is
  changed who did not know it needs that whoever has a connection to the administration server got its ticket with the
  old password typed into the dialog (`ChangeInv`), and that nothing of the exchange is left needs what each way out of
  it closes (`LinkInv`). `VerdictsAreRight` is the part of `HostsAreAsked` about what is told: one key of the three
  that opens the answer is enough, and a bad password is told only if all three fail (`VerdictFacts`), which the
  answer's own key decides as it was made by the password of the data base (`VInv`).
* `FtpMachineProofs`. `TransfersComplete`: `Complete` for every session, size of file and behaviour of the server,
  aborts and lost connections included. It does not depend on replies being matched. `IInv` says what the code
  takes for granted: the event of a stream that stores or shows its data is set at the end only (`EndIsEnd`), the
  stream has been assigned for the function that waits on it (`Assigned`, `PartKnown`, `FilesLeft`), and no event of
  an earlier transfer is met again (`FreshStream`). `RepliesMatch`: `RepliesMatched`, which is the protocol read as a
  whole. `RInv` names for every place of the machine what is due there: nothing (`Quiet`), one reply of a command
  (`Asked`), the two of a transfer (`AskedTransfer`, `Running`), those of an aborted download (`Aborting`, `Aborted`),
  and that behind them nothing is unread but the server's farewell (`Unread`). It needs what `IInv` says of the data
  stream: GetFile's last reply is due exactly because the stream was up until the server closed it.
* `PopProxyProofs`. `RelayConserves`: `Conserved`, for any lengths, blocks and number of clients. `Flowing` says of
  each direction that what was passed on, what is held and what is unread are consecutive runs that end where the peer
  has sent to; at the end of a side that has closed the last two are empty, which is `Drained`; a connection that
  breaks is its exception, since recv and send fail then with what is held. `Place` says for every
  place of the thread how often its client has been answered, and that nothing of an earlier relay is left where one
  will begin, which makes `Flowing` hold when it does.
* `FtpMachineProofs`, second part. `LoginIsUnderstood` and `TellsTheTruth`: `Understood` and `ToldIsTrue`, from
  `SecurityAssumption`, for any order of the addresses, any translator, firewall and krb.equiv, settings and number of
  retries. The directions are tried one after the other: the server's by AssignSecurity, after which the program opens
  what the server seals (`Opened`), the program's by the reply to USER or PASS, since a server that cannot read refuses
  (`Heard`). `Handlers` says why both last: the stream gets the worker's handler once, and a retry, which deletes the
  handler, comes only while the stream still uses its own. `Honest` says that the server has not done what it is still
  asked for, and `Exchange` that every command and reply under way is sealed with what the handler says (`SealInv` is
  all of this). The two hold in the composition that `ftp_session` checks as well (`SessionsUnderstood`,
  `SessionsTellTheTruth`, at the end of `FtpMachineProofs`): a session of transfers leaves the state of the seals
  alone.
* `TerminalInputProofs`. `InputHandledInOrder`: `HandledInOrder`, for any input whose commands are whole and known, any
  blocks that do not end inside a command, and any order of messages, errors and interruptions. `Placed` says where the
  reader and the mark are: nothing between what was dealt with last and the reader ought to have been dealt with
  (`Skipped`), and reader and mark stand where something begins (`Stands`), since a command is read as a whole. While
  RestoreToMark is due the first is true of the mark only, and the mark is not behind what was dealt with: that is so
  because CharsReceived moves it at every read that shows something, and false once data was junked, which is why who
  interrupts must not be sent escape sequences (`Orderly`). The property is stated entry by entry, with nothing to
  deal with between two of them, and not as a prefix of the sequence `Units`, which only a fold can give.
* `TerminalInputProofs`, second part. `NegotiationAgrees`: `EndsAgree`, for any demands of the server, any pairs it
  offers, those that do not fit included, with and without tickets, any starts and stops of the user. A refused reply
  leaves the ends apart for good, so `NInv` says nothing behind one, and of an option that lost a command to a SEND
  (`eaten`) it says less; otherwise it is about what is on the two wires, not only about their being empty. For each
  option and direction at most one question is under way, by one end, and what is on the wires behind it leads both
  ends to the same answer (`Options`, `OfferedFirst`). The messages of the authentication come in their order
  (`InTurn`, `Authenticating`). The ciphers chain along each wire: behind each message the reader will have the state
  the writer had when it was written, so that every message is readable when it is taken (`Readable`), and a START is
  written only by an end that has the vector and the key of the other (`Vectors`). That needs `EncryptionBehind`: no
  server of the sessions asks for ENCRYPT by itself, it comes behind the authentication. The engine is made once, with
  the key there is then, and a server that asks before the authentication leaves an engine of key 0, with which
  `EndsAgree` fails (TLC finds it at once).

* `TicketsProofs`, for any number of processes, realms and users, any size of the vector and any behaviour of those who
  ask. `StaysInReach`: `InReach`, which says how far `InVector` is missed. As long as no accesses have overlapped, at
  most one process is inside the memory (`Alone`) and has compared with the number as it is (`Apart`); afterwards the
  number and those who have compared add up to no more than `Most` (`Overlapping`). The sweep that puts a number back
  is why the variable `sweeps` is needed. `HandedOutWell`: `HandsOut`, up to where an access overlaps another. All
  records up to the number are right but the one that is being filled (`Current`), a sweep has kept records of other
  realms only (`Kept`), what a request has found is of its own time although others destroy it meanwhile (`Seen`), and
  the principal of the memory, which every search changes, is the one the next record needs (`Named`); this last is
  where one user, or one process, is required.
* `KftpOperationProofs`, for any commands, numbers of files and stops. `NothingFreedUsed` and `ResultsOwn`:
  `NothingFreedIsUsed` and `ResultIsOwn`. `Known` says that what is left of a command is in the order of the code, so
  that a lock is still to be given up behind whatever needs it. A patient user begins nothing inside another command,
  hence only the last one, or the one under a close, has anything to do with the server (`Rested`); while the server
  keeps the connection that one has the handler as long as it has a use for it, but for an opening that was closed
  during its authentication (`Linked`, `Alive`, `ClosedInOpen`), and the entries a deletion collected are those of the
  list (`Spared`). `Pending` and `Serving` are the handshake: a command the machine has not seen waits for it, and
  while it works the block `cb` points at is that of the operation it works on. `Stopped`: an abort that was asked for
  during a download lies before the step that clears it. All are parts of one inductive invariant, `KInv`
  (`KInvAlways`), each under the kind of session it is about.

Only model-checked: all liveness (TLAPS does not treat ENABLED), and the invariants of `Printing`, `NewConnection`,
`FileLists`, `Programs`, `Screen` and `Profile`; of `KdcExchange` that every host is asked often enough
(`AskedEnough`), of `Setup` that the lists stored are the ones meant (`ListsAreMeant`), both of which are about folds
over the lists. What the recursive definitions compute (folds over lines, paths, operations) is checked by TLC on the
inputs of the sessions: induction over data is out of the prover's reach.

## 6. Plan

Done: all modules of the table above, and proofs about thirteen of them. Next:

1. Proofs: `CopiesAgree` and `NothingFreedIsUsed` of `Profile`, whose descriptors
   are numbered like the chunks of the stream; of `Screen` the part of `ShownIsHeld` about cursor and lines.
2. `FtpSecurity` behind `KftpOperation`, to have the retry of a connection in one behaviour with its login.
3. The table of addresses per realm in `Tickets` at the grain of its accesses.

## 7. Not modelled

Of the DES library: keys made from passwords, checksums, random keys, `crypt` and the framed reads and writes (which
nothing here calls): each is one pass over its text, with no state that a later call meets. The conversions of Kerberos
4, libroken and the password client are sequential, without state, and about bytes: outside `DesModes` a cipher is the
condition of `EncryptStream` or a pair of key and vector, a packet is whole or not and under some key. The build tools
(an error table compiler) and resources have no behaviour at run time. Layout is left out everywhere: fonts, icons,
columns, toolbars, captions, the wording of boxes, positions of windows. Of the components marked `partly`,
`PROJECT.json` says what is missing: notably file sizes and progress of transfers, dialogs about transfer modes, the
list of profiles' names, the serial settings as texts, the table of addresses per realm, saving the log. A line to the
proxy before its relay, and an FTP reply, arrive as one. The server side of Kerberos (RD_REQ.C, RECVAUTH.C) has no
caller in these programs. Code that is not in the repository (the system's sockets, serial ports, registry, shell and
message queue; the peers) is modelled from its use and marked external.
