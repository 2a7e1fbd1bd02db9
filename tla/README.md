# thing1: verification of the server and its protocol

The repository is a server for accounts that extend trustlines to each other,
with a command-line client. The server keeps its accounts in a directory tree,
serves every connection from a thread of its own, and locks nothing. This
directory models it in TLA+: TLC checks small instances, TLAPS proves the
safety properties for every size. Paths are relative to `src/src/`, the two
Markdown documents to `src/`.

## 1. Inventory

| Part | Source | State | Operations | What makes it hard |
|---|---|---|---|---|
| Account database | `server/database.c`, paths built by the handlers | directories and files under `datadir/accounts` | `make_dir`, `make_dirs`, `initialize_database_directories` | `stat` and `mkdir` are two calls; threads share the tree |
| Client handlers, accounts | `server/client_services/client_command_handlers.c:13-145` | the thread's `Session`; password files | REGISTER, LOGIN, LOGOUT, DELETE_ACCOUNT | checks long before their use; `rm -rf` under way while others write; clean-up after half a registration; sessions that outlive their account |
| Client handlers, connections | same file, `148-311` | none of their own | ADD_CONNECTION, SET_TRUSTLINE | parsing with `sscanf` and defaults; a remote server in the middle of a command |
| Server-as-server | `server/server_services/server_as_server/` | trustline files | SET_TRUSTLINE; one command per connection | several connections write one file; results of `remove` and `fclose` are ignored |
| Server-as-client | `server/server_services/server_as_client/`, `server/network.c:82-115` | one TLS connection per request | ACCOUNT_EXISTS, SET_TRUSTLINE queries | lost connections; a response buffer that may be read uninitialised; a query longer than the reader's buffer |
| Accept loop | `server/main.c`, `server/connection_handler.c` | listening socket, descriptors, threads | accept, header, handshake, thread start | one thread, blocking, no timeouts; descriptors left open |
| Connection threads | `client_connection_handler.c`, `server_connection_handler.c` | read buffer, `Session` | read, dispatch, answer | a read of up to 255 or 256 bytes is taken for a command, and nothing says which command a reply is for |
| Dispatch and validation | `server/commands_util.c`, `common/format_utils.c` | constant tables | find a handler; names, numbers, ports | handlers that are NULL; checks repeated with other limits on the two sides |
| Client application | `client/` | one connection | prompt, check, compose, send, print | a reply is whatever is read next; defaults spelled `none` on this side only |
| Domain of a peer, TLS contexts | `server/network.c:1-80,117-227`, `common/*_utils.c` | none | `get_domain_name`, contexts, sockets | ownership of OpenSSL objects |
| Payments, routing, message authentication | `README.md`, `readme2.md` | none | none | described, not implemented |

Clients and servers talk TLS over TCP after a one-byte header. A client's
SET_TRUSTLINE travels: client application, client thread of its server, accept
thread of the remote server, thread of the connection there, file; and the
answer back. Threads of one server meet only in the directory tree, in the
accept loop and in the process, whose end takes all of them.

What makes the parts correct:

* accounts: what REGISTER_SUCCESS told a client is on the disk and stays;
  nobody takes over or loses a settled account's password; a registration that
  failed can be tried again; a command always
  gets its answer, whatever happens to the directories under it;
* trustlines: a file is complete unless somebody is writing it;
* requests: none is carried out twice, or after its client was told that it
  failed; an answer is true, or after a failure at worst an earlier one; every
  request is answered, although servers wait for each other;
* commands: what is done is what was typed, defaults included, or a refusal
  with its reason; a reply is read as the reply to its own command.

`PROJECT.json` lists the hazards line by line, each with the properties that
would catch it or the reason why none does.

## 2. Modules

```
Storage <- AccountStore <- AccountStoreInv <- AccountStoreProofs <- TrustlineProofs, RemainsProofs
                                           <- MCAccountStore
RequestService <- Requests <- RequestsInv <- RequestsProofs, MCRequests
Words <- UserView <- Commands <- CommandsProofs, MCCommands
                              <- OrdinaryCommands <- MCOrdinaryCommands
      <- WordsProofs
OrdinaryCommands, WordsProofs, CommandsProofs <- ReadsProofs <- UserViewProofs
```

The three lines look at one system from three distances, and each says where it
leaves off: `AccountStore` has every storage call of the handlers and no network;
`Requests` has every connection, thread and failure on the way to another server,
and one step for what the remote handler does to the files; `Commands` has what
is typed, composed, cut, parsed, answered and read, with a handler as one step.

### Storage and AccountStore

`Storage` is the tree: `dirs`, `link` (a file's inode), `data` (an inode's
content) and `fd` (a thread's open inode), with one operator per POSIX call. A
path is a sequence such as `<<u, "peers", domain, name>>`. A content is the
value at its start and its length, so that a short value written over a longer
one shows. `open` has no O_EXCL, as in the code; an unlinked file lives on in
its descriptors.

`AccountStore` runs the handlers over it. An action is one storage call with the
code up to the next one, so every interleaving of two handlers is there:

| Action | Code |
|---|---|
| `Register`, `StatDir`, `MakeDir`, `CreatePassword`, `WritePassword`, `UnlinkPassword`, `RemoveHome` | `client_handle_register`, `make_dirs`, `make_dir` |
| `Login`, `OpenLogin`, `ReadLogin`, `Logout` | `client_handle_login`, `client_handle_logout` |
| `DeleteAccount`, `RmRead`, `RmEntry`, `RmDone` | `client_handle_delete_account` and the `rm -rf` it runs: it reads a directory once and removes what it found, so what is made later stays and makes `rmdir` fail |
| `SetTrustline`, `StatDir`, `MakeDir`, `RemoveTrustline`, `OpenTrustline`, `WriteTrustline` | `server_as_server_handle_set_trustline` |
| `Disconnect`, `Crash` | the end of a client thread; the end and restart of the process (a running `rm` is a process of its own and goes on) |

`pc` is the storage call a thread makes next, `req` its parsed arguments,
`todo` what `make_dirs` has left, `unread` and `found` what `rm` has left,
`session` the Session struct. `acked` and `contended` are history: whom
REGISTER_SUCCESS went to since the account last began to change, and whether
that change overlapped another. Commands refused at once change nothing and are
no actions. A password is at most 255 bytes in one block of a file, so a write
of it happens or fails; a crash is the end of the process, and what was written
stays written (loss of power is not modelled: the code never syncs).

A domain and a name of `Peers` are one component of a path each. The domain is
that of a certificate; the name, `remote_username`, is what the peer server
sends, and `server_as_server_command_handlers.c:45-91` makes a path of it without
a check (the local name is checked). All that is said of trustlines and accounts
here is therefore said of peers that send the names of accounts, as this server
does when it is the client. `ApartLeavesNoRemains`, too, names the only cause for
such peers.

`AccountStoreInv` is the inductive invariant, `AccountStoreProofs`,
`TrustlineProofs` and `RemainsProofs` the proofs, `MCAccountStore` the values for
TLC.

### RequestService and Requests

`RequestService` is the promise to a client that asks for a trustline at another
server. It counts how often a request is carried out (`performed`): once at most,
and not at all once it was refused (`declined`) or its client was told that it
did not reach the server, so that such a request can be repeated. Until something
fails, a client is told what became of its request. After a failure it may be
told nothing it can use ("unknown"), or what became of an earlier request of its
own, which the response buffer may still hold; it is never told what became of
no request. That a client takes the earlier answer for the one to its new
request is the disagreement of `success_means_set`: after a failure a success
told is not always true, and `RequestService` says how far it can be wrong.

`Requests` is the machinery behind it, for several servers: client threads
(`Connect`, `Handshake`, `Receive`), accept threads (`Accept`, `RecvHeader`,
`FinishAccept`), threads of connections from servers (`Read`, `SetTrustline`,
`Respond`), other connections (`Arrive`, `Speak`, `Leave`, `EndSession`). It
implements `RequestService`: `times` counts how often the handler carried out a
request, and `Outcome` takes the reply the client was given at its word, whatever
the buffer it came from. A server may be asked
by its own clients, as the default address `localhost` does. The environment can
reset a connection, fail a call, or end a server; SIGPIPE, which the server
leaves at its default, ends it too. A read that fails leaves the response buffer
with any of: rubbish, nothing, the previous response.

`RequestsInv` is the inductive invariant, `RequestsProofs` the proofs,
`MCRequests` the values for TLC.

### Words, UserView and Commands

`Words` is text as the code takes it apart: a word is a text of some length, or
a numeral kept digit by digit, because `atoi` and the `%5s` of a port work on
digits. `atoi` is `(int)strtol` where a long has 64 bits: from 2^63 on it
saturates, which leaves -1, below that 32 bits are left (in two halves of 16). `Slice` is what is left of a message between
two byte positions, `Scan` the `sscanf` of the client handlers, and
`isValidUsername`, `isValidArgument`, `isNumber` and `isValidPort` are those of
`common/format_utils.c`.

`UserView` is what a user may expect who reads the prompts and what the comments
of the handlers say: a command is done once and as typed, with the defaults the
prompts name, or it is refused, changes nothing, and the reason that is printed
is one that holds (`Reasons`). So a deletion that was not confirmed with the name
of the account is refused, an ADD_CONNECTION whose lines are left empty means the
default account at this server and port, and it adds the connection if the
account is there. `Done`, `Reason` and `Meaning` in `Commands` are how a user
reads a reply; a reply that is in neither table is "unclear", which `UserView`
never lets a command be.

`Commands` is what happens instead: the application checks and composes a
message (`Message`, `Type`), the client thread takes every read of up to 255
bytes (`Reads`) for a command, dispatches it, parses its arguments and answers
(`Register` to `SetTrustline`, `InvalidCommand`); SET_TRUSTLINE composes a query
of which the remote server reads 256 bytes (`RemoteSetTrustline`); `Receive` is
the one read of the application, `Exit` and `Close` the end of a connection.
`typed`, `gave` and `fits` say what was typed, with which password a session
logged in, and whether every command of the connection fitted in one read.

`OrdinaryCommands` says what users have to type for all of it to come to what
they mean. Assumptions on the constants: a line is empty or one word, other than
the "none" that the application writes for an empty one; a user name is not
empty; a port has at most five digits and a size of zero has one; the address
`jipple.net`, which the client handlers take for `localhost`, is the same server;
no command is longer than the 255 bytes of a read, no query longer than the 256
of the remote server's. `AsMeant` restricts what is typed in the state it is
typed in, and `OrdinarySpec` is `Spec` with that restriction: who deletes an
account confirms with its name, and who adds a connection fills in all three
lines and names an account that there is not. Those are the two commands with
which the code never does what the prompts say (section 5); with them
`ImplementsUserView` fails of `Spec`.

`Commands` itself has none of these restrictions, so that the runs of `MCCommands`
(`commands_long`, `trustline_as_typed`, `stale_session`) show what happens
otherwise. `MCOrdinaryCommands` has the same values, and TLC evaluates the
assumptions on them.

## 3. Runs

| Run | Instance | Checks and shows |
|---|---|---|
| `accounts_faults` | 2 clients, 1 account, 1 fault | `Inv`, `RegistrationDurable`, `NoRemains`, `SettledAccountKeepsPassword`, `FailedRegistrationFreesName`, `CommandsAnswered`: promises hold through failing calls and restarts, every command returns, an uncontended registration that fails can be tried again, and without a fault sessions alone leave no account that can be neither logged in to nor registered |
| `accounts_live` | 1 client, 1 peer server, 1 account, 1 fault | `Inv`, `TrustlineFilesComplete`, `TrustlineIsOneRequest`, `CommandsAnswered`: the same for trustlines against deletions; one connection at a time leaves exactly a size that was sent, the long one, the short one or none |
| `requests_answered` | 2 servers, a client each, 1 visitor | `RequestsAnswered`: no circle of waiting |
| `requests_in_turn` | 2 servers, 1 client with 2 requests, 1 visitor, 1 fault | `Inv`, `ImplementsService`, `AckedIsLatest`, `SuccessIsNotMadeUp`, `ServedIsOpen`, `AnsweredOrEmpty`: no request is carried out twice or after it was given up, and a success that is told but was not heard is at least an earlier one of the same client |
| `commands_view` | 2 interchangeable clients, lines of `WellFormed`, `OrdinarySpec` | `TypeOK`, `InStep`, `ReadAsTyped`, `ImplementsUserView`: composing, cutting and parsing lose nothing of an ordinary command, and its answer is its outcome or a reason that holds |
| `commands_long` | 1 client, lines of `AnyLine` | `InStep`, `Answered`: what does not fit is still answered, and nobody whose commands fitted is out of step |

Runs that end in a counterexample, each against a sentence of the repository
(quoted under "findings" in `PROJECT.json`). Three of these properties hold in a
passing run or a theorem as well, under the condition that names the cause
(section 4): `TrustlineIsOneRequest` with one connection, `NoRemains` without one,
`SuccessMeansSet` without faults.


| Run | What the code does |
|---|---|
| `one_registrant` | both of two simultaneous registrations of a name are told REGISTER_SUCCESS, and share a password file |
| `trustline_is_one_request` | two connections that set one trustline leave the start of one size with the end of the other |
| `no_remains` | a SET_TRUSTLINE during a deletion leaves an account directory without a password: it can be neither logged in to nor registered |
| `success_means_set` | after a failed read the client may be told the answer of its previous request |
| `trustline_as_typed` | a query longer than 256 bytes sets another size than the one typed, and is acknowledged |
| `stale_session` | a session stays authenticated when another session deletes its account, and acts on the account somebody registers under the name next |

Bounds. One account is enough for interference, as handlers of different
accounts share only `datadir/accounts`, which every registration passes through;
two threads of a kind make every race the properties speak of, and the proofs
cover the rest. Two passwords (one empty, so that an unwritten file can be taken
for it), sizes with removal and, in `accounts_live`, of two lengths, one peer. `Inodes` is one more than the
threads, so that whoever makes a file finds a free one: the other threads hold at
most one each, and the other file has one. One fault anywhere suffices for the
clean-up paths and for a restart. In `Requests` two requests are what one needs
for a late first one to meet an acknowledged second; the state space is finite
because requests and faults are counted, so these runs really stop and deadlock
is not checked. `trustline_is_one_request` uses a view that drops the content of
inodes no file and no descriptor refers to.

The lines of `MCCommands` are chosen at the limits: `alice` with the password
`w12` makes a REGISTER of exactly 255 bytes, the whole read; a trustline of
`alice` at `nobody` with the size `none` makes a query of exactly 256 bytes, the
whole buffer, in `commands_view`, and one of `albert` at `carol` a query of 259,
which is cut, in `trustline_as_typed`. In `commands_view` the addresses are the
default, the name `jipple.net` of the server itself and another server; the ports
are the default and one of five digits, as many as `%5s` reads; so a trustline can
be set, at either server, or be refused for want of an account or of a server. `commands_long` has messages of two and three
reads, a port with leading zeros that `%5s` cuts, and empty names. `MaxUnread`
is how many messages and replies may be left on a connection when the user types
on: 0 is enough while commands fit (`InStep` says so), and with 1 a connection
out of step gets one reply behind and stays there. Users may leave and stop
typing, so deadlock is not checked in the runs of `Commands`; `commands_view`
uses the symmetry of its clients, checks no liveness and is closed under
permuting them.

Fairness. `AccountStore`: a thread with a call to make, and the `rm` a thread
waits for, are eventually run by the kernel; no command, fault or crash has to
happen. `Requests`: the same for threads, and visitors eventually leave. The
second is an assumption about the peers and not something the server sees to: no
call has a timeout, so a peer that connects and stays silent holds up its accept
thread until it goes. `Commands`: the client thread runs and the application
reads what is there; nobody has to type.

## 4. Proofs

All theorems are proved by `tlapm` for every value of the constants that
satisfies the named assumptions.

**Accounts** (`AccountStoreProofs`; any numbers of sessions, peer servers,
accounts, peers, values, inodes and faults; from `StorageAssumption` and
`AccountAssumption`: threads of the two kinds are distinct, "" is the only value
of length 0 and not a size, the default account is an account):

* `TypeCorrect`: `Spec => []TypeOK`;
* `Invariance`: `Spec => []Inv`;
* `RegistrationIsDurable`: `Spec => []RegistrationDurable`: whoever was told
  REGISTER_SUCCESS with nobody else changing the account is the only one who was,
  and the account and its password stay;
* `SettledAccountsKeepPasswords`: `Spec => SettledAccountKeepsPassword`.

`RegistrationDurable` is not inductive. It needs to know that a session at
`write_password` holds the inode of the file it made, still linked and empty;
that needs that nobody else changes the account (`OneChangerOf`), that an inode
belongs to one file and a file to an existing directory (`Tree`), that a
descriptor refers to its own thread's file or to none (`Descriptors`: a trustline
thread never holds a password's inode), and that an `rm` stays below its account
(`RmBelow`), for which handlers must have their kind of arguments (`Roles`).
`OneThreadActs` says that a step leaves the other threads where they are, and
`PasswordKept` that a thread which is not changing an account leaves its password
file alone; the step lemmas then go action by action.

**Trustline files** (`TrustlineProofs`): `TrustlinesAreComplete`, `Spec =>
[]TrustlineFilesComplete`. `AttendedInv` adds to `Inv` that, without faults, an
empty trustline file is one that an inbound thread has open and is about to
write, and that such a thread writes a size, which is never empty.
`OneWriterOneRequest`, `Spec /\ []OneWriter => []TrustlineIsOneRequest`, is what
a lock from `fopen` to `fclose` would give: if no two connections have one file
open to write it, the file holds exactly one size that was sent, through
deletions and registrations of its account. `OneSizeInv` says that a file is
empty while it is being written and otherwise holds one size whole.

**Remains** (`RemainsProofs`): `ApartLeavesNoRemains`, `Spec /\ []Apart =>
[]NoRemains`: if no SET_TRUSTLINE for an account is under way while a session
registers or deletes it, every account directory has its password file when all
threads are idle, without faults, however many sessions delete and register the
account at once. Nobody orders those either: a REGISTER may make its directory
while two `rm` are at work in it. `RemainsInv` adds to `Inv`:

* a directory is in one that exists (`Closed`), and `make_dirs` has the
  directories of its own command to visit (`Chains`);
* a SET_TRUSTLINE finds its account's directory there (`Welcome`);
* an account without a password has a session that is about to make the password
  or to remove the account (`Attended`), which is `NoRemains` for busy threads;
* whatever is below an account that is being removed, except a password made
  behind its back, `rm` has found, will read the directory it is in, or has not
  found that directory either (`Known`).

From `Known` it follows that an `rm` which has read all it found can be stuck on
a password only (`RmLeavesPassword`): an entry it cannot remove has an entry
that it found, too, one level down, and the tree has five levels.

`ApartFreesNames`, `Spec /\ []Apart => FailedRegistrationFreesName`, is about the
clean-up of a registration that fails, with any number of faults. `Clean` says of
a session that registers an account nobody contends that only the password file
can be in its directory, that the directory is not there before `make_dirs` makes
it, and that the file is gone when the directory is to go, so `rmdir` cannot fail.

**Requests** (`RequestsProofs`; any servers, clients, visitors, numbers of
requests and faults; from `RequestsAssumption`: there is a server, every client
has one, and connections of visitors are no requests):

* `Invariance`: `Spec => []Inv`;
* `ServedConnectionsAreOpen`: `Spec => []ServedIsOpen`;
* `AckedRequestsAreLatest`: `Spec => []AckedIsLatest`;
* `SuccessesAreNotMadeUp`: `Spec => []SuccessIsNotMadeUp`;
* `SuccessMeansSetUnlessFaults`: `Spec => [](faults = 0 => SuccessMeansSet)`;
* `Implements`: `Spec => ImplementsService`, the whole refinement, since
  `RequestService` states no fairness. A handler that ran twice for one query
  would be a step that `RequestService` does not have.

`Inv` ties the three threads a request passes through: a client thread that is
busy has not told anything and is as far as its connection (`Asking`); a
connection is in one queue once or at one accept thread, of the server it goes
to, and has no thread yet (`AcceptedOnce`); a result exists when the handler is
done, is a success exactly if the request was carried out, and is what was
answered (`Served`); a response that was heard is that answer, and a request told
CONNECTION_FAILED never got as far as its query (`Answers`). `ServedIsOpen` needs
`AcceptedOnce`, or a socket closed by the accept thread might be one another
thread uses. `AckedIsLatest` needs in addition that without faults every request
but the current one was heard (`Faultless`), so that no older one can still be
with a remote thread. `SuccessIsNotMadeUp` needs to know what the buffer of a
client thread can hold (`Remembered`): a success that is left in it is that of a
request which was carried out. In the refinement every action is `Ask`, `Tell`, `Perform`,
`Decline`, `Fail`, `TellAll` (the end of a server tells all its clients at once)
or a stutter.

**Commands** (`CommandsProofs`; any clients, lines, servers, accounts; from
`LinesAssumption`: nobody types the name of a command among its arguments):

* `StaysInStep`: `Spec => []InStep`. `InStepInv` says where the one message of a
  waiting user is: not read yet, or answered;
* `TypeCorrect`: `Spec => []TypeOK`.

**Words** (`WordsProofs`; lines of any number of words of any length, no
assumption but that a word has a length): `SliceAll`, a read that ends at the end
of a message, or after it, returns its words, all of them and whole; `Joined`, the
bytes of two lines written behind each other are those of both and the blank
between them; `FiveDigits`, of the five digits that a handler reads of a port
`atoi` loses nothing, and `isValidPort` accepts those from 1 to 65535. The lemma
`DecimalValue` below it says that `atoi` of a numeral that a long holds is its
decimal value modulo 2^32.
The recursive functions of `Words` are over the
words of a line and the digits of a numeral, and what they compute is shown by
induction. The induction theorems of the library take a predicate, which the
provers here cannot instantiate, so `SetInduction` proves induction for a set of
numbers: were a number missing in a set that has 0 and is closed under successor,
successor would map the members up to it one to one into those among them above
0, which `FS_PigeonHole` excludes.

**Ordinary commands** (`ReadsProofs`, `UserViewProofs`; any clients, accounts,
servers, endpoints and any lines that satisfy the assumptions of
`OrdinaryCommands`):

* `ReadsAreCommands`: `Spec => []ReadAsTyped`, without `AsMeant`. `ViewInv` is `TypeOK`,
  `InStepInv`, `ReadAsTyped` and that every command so far fitted in a read. One
  lemma for each prompt shows that what `Message` composes and a read returns has
  the words meant (`TypeableIsRead`), the "none" of the application included;
* `OrdinaryInvariant` and `ImplementsView`: `OrdinarySpec => ImplementsUserView`,
  the whole refinement, since `UserView` states no fairness. `OrdinaryInv` adds to
  `ViewInv` that what a waiting user typed is still as meant, and that accounts
  have names that can be typed. Under the mapping a command is asked when it is
  typed, performed or refused when its handler answers (one lemma for each
  handler), told when the reply is read, and every other step is a stutter. A
  refusal has to give a reason of `Reasons` in that very state. The handlers ask
  for `FieldsAre` (what `Scan` takes from a SET_TRUSTLINE and which
  defaults it puts in is what `UserView` says of the line) and `QueryIsRead` (the
  query of 256 bytes at most arrives as composed).

Every invariant, safety property and refinement that a passing run checks is
proved. (`NoRemains` and `FailedRegistrationFreesName`, which the run checks of sessions
alone, for any SET_TRUSTLINE apart from them.) Of the properties that the code
breaks, three are proved under the condition that it does not see to: `TrustlineIsOneRequest` for one writer at a
time, `NoRemains` for deletions apart from SET_TRUSTLINE, `SuccessMeansSet`
without faults. So each of those counterexamples is of the only kind there is.
`OneRegistrant` is covered by `RegistrationDurable` for accounts that nobody
contended. Only model-checked: the liveness properties `CommandsAnswered`,
`RequestsAnswered`, `AnsweredOrEmpty` and `Answered`, as ENABLED and fairness are
out of TLAPS's reach.

## 5. Not modelled

Outside the server's own logic: TLS itself, certificates and the domain name in
them; the wording of prompts and logs; the address on the client's command line
(a regular expression) and `expand_path`, both done once on strings; loss of
power; connections that go silent without a reset (every read would wait for
ever); memory limits. Payments, routing and message authentication are in no
source file. `account_exists` in `server_as_server_command_handlers.c` is called
by nothing, and `add_account` cannot be reached.

Two commands never do what their prompts say:

* ADD_CONNECTION. The prompts (`client/command_handlers.c:84`, `:94`, `:105`) and
  `client_command_handlers.c:184-205` promise defaults for empty lines. The client
  sends "none" for them, the handler looks for an empty string, so "none" becomes
  the account or the address, and as a port it is 0: the answer is INVALID_PORT or
  CONNECTION_FAILED, or about an account "none". And no connection is ever added,
  because the handler of ACCOUNT_EXISTS is NULL at every server, so an account
  that exists is answered ACCOUNT_NOT_FOUND as well.
* DELETE_ACCOUNT. `client/command_handlers.c:59` asks to confirm with the
  username; `client_handle_delete_account` never looks at what was sent.

`Commands` has both as they are, and `commands_long` takes those steps;
`UserView` has them as the prompts say. `AsMeant` leaves such commands out of
`OrdinarySpec`, so that `ImplementsUserView` speaks of everything else: of
ADD_CONNECTION, that accounts which do not exist, servers that are not there and
sessions that are not logged in are refused for that reason and no other.

Assumed away by a property's condition: two registrations of a name at once
(`RegistrationDurable`; `one_registrant` is what happens), and with them the
clean-up of one that removes the other's password file; a late request after a
failure (`AckedIsLatest` is about runs without one); a visitor that stays silent
for ever (`RequestsAnswered`); connections that had a command of more than one
read (`InStep`: from then on their users read the reply to an earlier command,
which `Answered` counts as an answer).

Left out of `Commands`: lines longer than the 255 characters `fgets` takes, whose
rest answers the next prompt; tabs; a command's
name typed as a last word of a long message (`LinesAssumption`); ports above 65535
that `getaddrinfo` would cut; the byte the terminator overwrites after a query
that fills the buffer. `ImplementsUserView` is stated for names that are not
empty (`PromptsAssumption`): a REGISTER with an empty name registers the password as the name, which
the model has (`AnyLine`) and `UserView` does not. It is also stated for
passwords of one word (of more words both handlers take the first) and ports of
at most five digits. A password that does not fit in a read is cut by REGISTER
three bytes before LOGIN would cut it, their names being part of the message. A size
of several zeros removes nothing at the remote server, which knows "none" and "0"
only, and is left out as well.

Descriptors that are left open (after a server's command, a failed handshake or a
session) are in `Requests` as `open`, but no property bounds them: nothing in the
code does.

## 6. What could come next

1. A composition of `AccountStore` and `Commands`, in which a remote SET_TRUSTLINE
   is not one step for the session that waits for it: what an account's deletion
   does to trustlines already extended.
2. Several servers in `Commands`, each with its own clients.
