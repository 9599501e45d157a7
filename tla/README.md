# CloudTalk server: TLA+ models and proofs

CloudTalk (a TeamTalk descendant) is an instant messaging server written in C++:
a group of processes connected by TCP, each built on one event loop
(`src/server/src/base`). These modules model the parts whose correctness depends
on the order in which callbacks, messages and threads run, check them with TLC on
small instances, and prove every invariant, action property and refinement that TLC
checks with TLAPS, for instances of any size. Only liveness stays with TLC.

All paths below are relative to `src/server/src/`.

## 1. Inventory

### Processes and how they interact

    clients --TCP--> msg_server --TCP--> db_proxy_server --> MySQL, redis
                       |    |
                       |    +--TCP--> route_server <--TCP-- other msg_servers
                       +--TCP--> file_server, push_server
    http clients --> http_msg_server --> db_proxy_server, route_server
    clients --> msfs (files over HTTP); a login front end outside this repository
                reads the msg_servers from the redis hash msg_srv_list

Every process is single threaded except `db_proxy_server`, which has a pool of
worker threads and a sync thread (and `push_server` and `msfs`, which are not
modelled). A connection is an object derived from `CImConn`; the event loop
calls its `OnConfirm`, `OnRead`, `OnClose`, and a one-second `OnTimer`. File
descriptors ("handles") are reused as soon as they are closed, and several maps
are keyed by handle.

| component | state | operations | hard behaviour |
|---|---|---|---|
| `msg_server/MsgConn.cpp`, `ImUser.cpp`: clients and user registries | `g_msg_conn_map`; per connection name, id, type, open and kicked flags; user objects with validated and waiting connections; registries by name and by id | login, logout, kick, idle and login timeout, close, status announcements | answers of the database arrive after the connection closed or its handle was reused; two names of one user; user objects deleted under waiting connections |
| `msg_server/DBServConn.cpp`, `RouteServConn.cpp`: server connections | list of configured servers, connection and back-off per server, which route server is master | validate answer, kick from another server, status packets, reconnect | lost answers, half-open links, full status list after a reconnect |
| `route_server/RouteConn.cpp`, `UserInfo.cpp`: presence | `g_user_map`: per user the connections that have it and a count per client type | online list, status update, close of a msg_server, two kinds of broadcast | the ends of a link notice its loss at different times; counts are not kept per msg_server |
| `db_proxy_server/ProxyConn.cpp`, `ProxyTask.cpp`, `base/ThreadPool.cpp` | connections by handle and by uuid, the msg_servers that reported themselves, task queue per worker, one answer list | read a request, give it to a random worker, run it, queue and send the answer, close | answers for closed connections, reused handles, workers and main thread on shared maps |
| `db_proxy_server/DBPool.cpp`, `CachePool.cpp` | free list, number of connections, waiting threads | get and release a connection | nested acquisition, lost wake-ups, double release, use after release, forgotten release |
| `db_proxy_server/business/Message*.cpp`, `SessionModel.cpp`: messages | tables of messages and sessions on a master and a slave, message counters and unread counts in redis | store a message, count it, clear the count, fetch a page | any worker runs any step, the slave lags, redis or an insert fails between two steps |
| `db_proxy_server/business/Group*.cpp`: groups | table of members on a master and a slave, list of members and message counters in redis | add and remove members, test and refill the list, send, count, read | row, field and counters changed by single commands of several workers; the list lost or filled from a lagging slave |
| the rest of `db_proxy_server/business/*` | MySQL tables, redis counters | one function per request | check-then-insert across statements |
| `msg_server/MsgConn.cpp`, `GroupChat.cpp`, `route_server`: message path | send list per connection; requests under way at the database; packets on the links between servers | send, acknowledge, forward, ask for members, broadcast, answer, time out | two ways to one client, answers in any order, reused handles, lost links, members that come and go |
| `db_proxy_server/SyncCenter.cpp` | last update times, flags of the sync thread | periodic scan, stop | flag and condition variable not under one lock |
| `file_server`, `msg_server/FileHandler.cpp` | a transfer task per file with its state and two ends, files on disk, per connection a pointer to its task | join, pull, push, notify, close, timer, load from disk | which end comes first or goes, pointers to deleted tasks, failed writes, restarts |
| `push_server`, `http_msg_server`, `msfs` | sessions, requests | forwarding | time-outs |

### What makes each part correct

* Registries of `msg_server`: no object keeps a closed connection; the two
  registries agree; a connection is open exactly when packets for its user reach
  it; ONLINE and OFFLINE announcements balance.
* Presence: the route server's counts equal the open connections while no link is
  lost, and do not fall short of the servers it has heard, but for clients that a
  list gives as OFFLINE; what it tells the msg_servers is true once all is read.
* Pools: a connection is used by one task at a time; no wake-up is lost; every
  task ends, as long as no pool has lost all its connections.
* Answers: at most one per request, to the connection that asked, whatever closed
  meanwhile; one that a handler gave is sent.
* Message store: a message is stored once and answered once under an id no other
  message of its relation has; its recipient has a session with the sender; the
  unread count is never below the messages not yet read.
* Message path: no client learns of a message twice, and none misses it unless it
  left, a link that carried the message was lost, or the member list could not be read;
  the send list empties itself.
* Groups: a member is in the list in redis that decides who gets messages; the
  unread count of a group is never too small.
* File transfers, with clients that keep to certain habits: no connection keeps a
  deleted task; segments arrive in order and as asked; only whole files are read; both
  ends of an online transfer end together.

PROJECT.json lists the hazards of the code line by line, with the property that
covers each or why none does yet.

## 2. Modules

| module | models | reads |
|---|---|---|
| `MsgServer` | connections and user registries of one msg_server | `MsgConn.cpp`, `ImUser.cpp`, `DBServConn.cpp`, `RouteServConn.cpp` |
| `MsgServerProofs` | inductive invariant and theorems about `MsgServer` | |
| `Presence` | several msg_servers and a route server, links between them | `RouteConn.cpp`, `UserInfo.cpp`, `RouteServConn.cpp` |
| `PresenceProofs` | inductive invariant and theorems about `Presence` | |
| `Leases` | abstract: a connection is leased to one thread at a time | |
| `DbTasks` | what the business functions do to the pools, as programs | `business/*Model.cpp` |
| `ConnPool` | the pools and the worker threads running those programs; implements `Leases` | `DBPool.cpp`, `CachePool.cpp`, `Thread.h` |
| `ConnPoolProofs` | the pools under disciplined programs: theorems and the refinement | |
| `ProxyConn` | connections, workers and answers of db_proxy_server | `ProxyConn.cpp`, `ProxyTask.cpp`, `ThreadPool.cpp` |
| `ProxyConnProofs` | inductive invariant and theorems about `ProxyConn` | |
| `MsgLog` | abstract: messages are stored and answered once, under ids of their own | |
| `ChatStore` | text messages of single chats in MySQL and redis, implements `MsgLog` | `MessageContent.cpp`, `MessageModel.cpp`, `SessionModel.cpp`, `RelationModel.cpp`, `CachePool.cpp` |
| `ChatStoreProofs` | inductive invariant, theorems and the refinement of `ChatStore` | |
| `Delivery` | the way of a message through msg_servers, database and route server; composes at their interfaces what `MsgServer`, `ProxyConn`, `ChatStore` and `GroupMember` have in detail | `MsgConn.cpp`, `DBServConn.cpp`, `GroupChat.cpp`, `RouteServConn.cpp`, `RouteConn.cpp`, `ImUser.cpp` |
| `DeliveryProofs` | inductive invariant and theorems about `Delivery` | |
| `GroupMember` | members of a group in MySQL and redis, their message counters | `GroupModel.cpp`, `GroupMessageModel.cpp`, `GroupAction.cpp`, `UserModel.cpp` |
| `GroupMemberProofs` | inductive invariant and theorems about `GroupMember` | |
| `FileStore` | abstract: an offline file is stored, confirmed and read whole | |
| `FileTransfer` | transfer tasks and the connections that join them, implements `FileStore` | `transfer_task*.cpp`, `file_client_conn.cpp`, `file_msg_server_conn.cpp`, `FileHandler.cpp` |
| `FileTransferProofs` | inductive invariant, theorems and the refinement of `FileTransfer` | |
| `MC...` | constants for TLC | |

Conventions. An action is one callback of an event loop, or, in a threaded
process, one stretch of code under a lock. An operator whose comment begins
"Mutant of X" is not part of the model: it is X with a plausible slip, and
PROJECT.json's `mutants` names for each property one slip that the property
catches. `map` in PROJECT.json gives for every definition the lines it models.

### MsgServer

`cState` .. `cKick` are the fields of `CMsgConn`, `uLive` .. `uUnval` those of
`CImUser`, `byId` is the registry by id; the registry by name is the set `uLive`,
since an object is named by its login name. A connection is a member of `Conn`,
used once; its handle is a member of `Handle` and reused. `pending` holds the
validate requests the database has not answered; each answer carries back only
name and handle (`attach_data`), and the field `conn` of a request only tells requests
of one name and handle apart. `online` accumulates the
announcements that `SendUserStatusUpdate` makes. `Close` looks the user up by id,
then by name, and may delete either object, exactly as the code, including objects
under which other connections still wait. `ValidateFirst` and `ValidateMore` are
the two branches of `_HandleValidateResponse`. `UserOf` is what the database
answers: several names may lead to one id, and the empty name to none.

`m_login_name` may be empty (`LoginName`), and the guard against a second login tests
its length, so a connection that logged in under the empty name may log in again. It then
waits in two objects, and `Close` cleans the one of the second name; the other keeps a
pointer to freed memory. `Addressed` lets an answer that is searched for among such
pointers (`Stale`) find any live connection that fits, or none. `NoDanglingConn` leaves
out the waiting set of that one object, and everything else holds with it; that the set
does hold a freed connection begins with what `SecondRequestRefused` forbids.

Abstracted: packets that are only passed on (lists, sessions, messages,
avatars), and the statuses other than online and offline; the send list is in
`Delivery`. The reason for a kick is wording.

Two behaviours of this code go against its comments and are part of the model.
`KickOutSameClientType` flags the first connection of a class and does not close it;
while that client lingers, the next kick hits it again and two others stay, against
`ImUser.cpp:161`. And an answer matched by name and handle may open the connection
that reuses the handle of the one that asked, against `MsgConn.h:87`; it is then
registered and closed like any other, as `OpenIffDeliverable` says.

### Presence

A link is one TCP connection with a FIFO in each direction and two ends that
close independently (`mOpen`, `rOpen`): what is sent to a closed end is lost,
what the route server has not read when it closes is lost. `table` is
`g_user_map`. A msg_server is reduced to the number of its open connections
per user and type (`local`), which `MsgServer!AnnouncementsBalance` ties to its
announcements, and to what it has been told (`pc`, `shown`).
`UpdateUserStatus` and the two notifications follow `_HandleUserStatusUpdate`,
including its early return; `EntryWithout` follows `CRouteConn::Close`.

An update says that a client came or went. The list a server sends after it has
connected says for each open connection which status its client chose at login, which
may be OFFLINE (`hiding`), and the route server applies that status like an update: it
takes a client off its count, if one of the type is there. The list is any order of the
connections (`OnlineUserInfo`); the model reads it one connection per step, and nothing
else of the route server happens in between (`NextFor`). `listedOff` is a history variable: the
users and types that some list gave as OFFLINE. `NeverUndercounts` leaves these out.

The early return has an effect that goes against `RouteConn.cpp:210`: the OFFLINE that
empties a user's entry is not notified, so a user object that a mobile client creates
meanwhile keeps "PC logged in" (`pc`). `StatusShownIsTrue` is about what the PC clients
are shown, which the code keeps right.

### DbTasks, ConnPool, Leases

A task is a sequence of `get`, `use`, `rel` and `leave` steps on local connection
variables, read off the business functions; a `get` says what follows when the
pool answers NULL, and a `leave` is a return that forgets the connection, as in
`isValidateGroupId2` for a group that does not exist (`UnknownGroup`). A released variable keeps its value, so a later use or second
release is a step on a connection somebody else may have. `GetDBConn` keeps its
mutex except in `Wait`, so one pass of its loop is a step: `TakeFree`, `NewConn`,
`InitFailed` or `Wait`. `Signal` wakes any one waiter, and `pthread_cond_wait`
may return without a signal (`SpuriousWakeup`).

`LeasesKept` is the refinement: the leases of the abstract module are the pairs of
connection and thread that still has a use or release of it ahead, and those of
connections left behind (`leaked`), which are never returned. `Disciplined(R)`
writes down what the pools expect of their callers, for any set of programs; R is what
may be left of one of them at some point of a task.

### ProxyConn

`kinds` is chosen at the start: with `{FALSE}` all answers are sent by the main
thread, with `BOOLEAN` some requests are of the kind `getUnreadMsgCounter`
handles, which calls `SendResponsePduList` on its worker. That routine holds the
list's lock only for the pop, so on a worker pop-and-look-up and send are two
steps (`PopResponse`, `SendToFound`), between which the main thread may
close and delete the connection. What the freed object then does is undefined; the
model chooses between a write through the old handle and no write.
`s_uuid_alloctor` is a 32-bit counter; `MaxConn` stays far below 2^32, so a
uuid is never met twice.

Many handlers return without an answer: the packet cannot be parsed, a check fails, the
command has none (`GroupAction.cpp:243`, `MessageContent.cpp:136`,
`MessageCounter.cpp:99`, `ProxyTask.cpp:32`). `RunWithoutAnswer` may be the end of any
request; `silent` remembers which, and `RequestsAnswered` is about the others.
`hset` and `hdel` of `msg_srv_list` are skipped when redis cannot be reached (`Store`,
`Unlist`); an entry that `Close` could not take out stays, in the hash and in `left`,
until a connection of the same server closes with redis there.

### ChatStore, MsgLog

A worker runs `DB_PROXY::sendMessage` as a sequence of steps, one per statement
sent to MySQL or command sent to redis, since other workers' statements come
between; `task[w].pc` names the next. `db` is the master's log of inserted
sessions and messages, and the slave is its first `applied` entries, so every
read from the slave is a read of a prefix. `counter` is `msg_id_<relation>`,
`unread` the hashes `unread_<user>`; a message to `to` from `from` is counted in
`unread[<<to, from>>]`. `Fault` selects what may go wrong:

| fault | in the code |
|---|---|
| `read` | a query on the slave fails, or there is no connection: the look-up finds nothing |
| `insert` | an insert or update on the master fails |
| `unreachable` | `incrBy` and `hincrBy` return -1; the id is 2^32-1 (`UintMax`) |
| `loading` | redis answers with an error, whose `integer` is 0: `getMsgId` falls back to MySQL |
| `restart` | redis comes back without its data |
| `crash` | db_proxy_server stops; tasks under way are lost |

The fall-back selects `MAX(msgId)` and reads the column `msgId`, which the result
does not have; `GetInt` then gives 0, and the id becomes 1 whatever is stored.
`MaxMsgId` models what the code does, and `SetMsgId` writes that 1 back to redis.
This is why `IdsUnique` and `MsgLog` leave out the relations in `faulty`: after
one such answer ids repeat. `faulty` and `due` are history variables: the relations
whose counter redis failed to serve, and the messages stored and counted, or still
to be counted, since the reader last cleared. `MsgLog` is the promise
to the callers: what is stored is stored once and answered once, the answer names
the id it was stored under, and no id is given twice. An answer with an id does not
promise that the message is stored, as the code ignores the result of the insert.

Abstracted: the content of a message, the columns `status`, `created` and
`updated` of sessions, `updateSession`, and `removeSession`. Audio and system
messages are not modelled; of group messages, `GroupMember` has the counters.

### Delivery

A message is a member of `Msg`; `msg` keeps who sent it from which connection, and
`attach_data`, the sender's handle, with which the answer of the database finds the
connection to acknowledge (`GetMsgConnByHandle`). A request to the database, and its
answer, are members of sets, as the workers answer in any order; the two directions of
the link of a msg_server to the route server are sequences, and what is on a link that
ends is lost. `Login` gives the lowest free descriptor, as `accept` does.
`HandleMsgData`, `HandleGroupInfoResponse` and `HandleRoutedMsgData` are the handlers
that decide who gets the message; `HandleRoutePdu` is the route server.

`owed` is a history variable. When a message is stored it is set to the open
connections of the users concerned; a connection leaves it when the message is given
to it, and when it has an excuse: it closed, its user left the group (or the sender
did: then `HandleGroupInfoResponse` gives the message to nobody), the link that
carried the message ended, or the members could not be read: when the group cannot be
found on the slave or its hash cannot be read, `getGroupInfo` answers with an empty list
(`GetGroupInfo`), and the server drops a message that is stored and acknowledged. The sender's connection is left out, as it gets the
acknowledgement; when its handle has gone to another connection of the user, that one
gets the acknowledgement and not the message, and is left out in its place.

The client's answer removes an entry of the send list only if the client names the
sender as the session (`HandleClientMsgDataAck`). The Android client in this repository
names the receiver (`IMMessageManager.java`, `ackReceiveMsg`), so its entries go by the
timer alone; `session` ranges over both.

Abstracted: message ids, which the send list uses and which are unique per pair only;
read notifications, push requests and their device tokens, the limit of messages per
second, retries of clients (a retry is a new message: a lost answer makes the client
store it twice).

### GroupMember

`rows` is a user's rows in `on_IMGroupMember` on the master, by status, `binlog` the
states the slave has still to reach, `cache` the fields of the hash in redis. A worker
carries out one request; `task[w].pc` names the next statement or command, and other
workers' come between. Both routines that fill the hash, `isValidateGroupId2` and
`isInGroup2`, are `ReadRows`, `FillOne` per row and `Filled`; `back` is where the
request goes on after it. The table has no unique index, so a member that the slave does
not have yet may be inserted twice, and `rows` is a set.

`apart` is a history variable: the users whose row and field may differ because a
request to add and one to remove them overlapped, because db_proxy_server stopped
between the row and the field, or because redis lost the hash. A fill whose rows were
read after that takes a user out again. `due` counts the messages of others since a
user's copy of the counter was last read.

Abstracted: creation of the group (the initial state, once on the slave), several users
in one request, the permission to modify, the group's version, sessions.

### FileTransfer, FileStore

`task` is the map of `TransferTaskManager`, `cTask` the raw pointer `transfer_task_` of
a connection; when a task is deleted the pointers left in other connections become
`Freed`. The two classes of tasks share the record; `Uploadable`, `Downloadable` and
`Transferable` are the conditions of their `DoRecvData` and `DoPullFileRequest`. A task
keeps one request number (`seq`), which the model writes as the connection and offset
asked for, so that `RelayedAsAsked` can tell whose answer a segment is. `knows` and
`listed` are what msg_server told the two users.

A write of a segment may fail; the code does not look, goes on and confirms the upload,
and the file is `spoiled`: `LoadFromDisk` refuses it, as its size is not the one in its
header. A restart of file_server forgets tasks and connections and keeps files,
`CrashAfterHeader` leaves a file with no data. `FileStore` says what remains of the
promise: a confirmed file is stored or spoiled, and whoever reads, reads a whole file
from the beginning, in order.

`Orderly` names what clients do although no handler makes them. The client part of file
transfers is not in this repository, so these habits are assumptions:

| habit | what happens without it |
|---|---|
| `oneConnection`: an end is joined with one connection at a time | the second replaces the first in the task, and the close of one deletes the task under the other |
| `oneLogin`: a connection logs in once | a second login overwrites `transfer_task_` and `user_id_`; the first task keeps a pointer to the connection for ever |
| `uploadFirst`: the sender of an offline file joins before the receiver is told of it, the receiver after | the receiver knows the id from the creation of the task and is let in at any time, as `rv` in `ChangePullState` is true from the first test; its close deletes the task under the uploader |

Without any one of them TLC finds `EndsMatch` violated. What a client does beyond the
three is free: a login that fails closes the connection with the task it had joined,
and a receiver online asks for any offset, with any number of requests on the way
(`PullOnline`; `MaxPulls` bounds them). The code checks no offset and keeps one request
number, which every request overwrites; a receiver that asks before it has its answer,
or for another segment than its next, gets segments under the wrong number. `ahead` is a
history variable with these receivers, and `RelayedAsAsked` is about the others. A sender
answers its requests in order; it is not forced to.

Abstracted: users and roles that do not fit the task (they end as `OnClose`), the file
name, sizes below a segment. Not modelled: an empty file, whose upload never ends, since
the last segment is counted from a size of zero (`transfer_task.h:291`); the timer of
the manager, which deletes tasks of a state (`TransferDone`) that is never set, so that
tasks nobody joins stay for ever.

## 3. Runs

| run | bounds | shows |
|---|---|---|
| `msg_server` | 3 connections on 2 handles, 2 names of 1 user and the empty name, a PC and a mobile type | `TypeOK`, `NoDanglingConn`, `RegistriesAgree`, `OpenIffDeliverable`, `AnnouncementsBalance`, `NewLoginDisplacesOld` |
| `presence` | 2 servers, 3 links, 1 user, 2 types, 2 logins with either status, 2 lost links | `TypeOK`, `NoDanglingRouteConn`, `NeverUndercounts`, `ExactWithoutLoss`, `StatusShownIsTrue` |
| `conn_pool` | 3 threads, 3 tasks, pools of 1 (slave 2, may fail to grow) | `TypeOK`, `ExclusiveUse`, `NoLostWakeup`, `NoneForgotten`, `LeasesKept`, `TasksEndUnlessDrained` |
| `chat_store` | 2 workers, 2 messages, pairs (1,4) and (2,3) with one relation id, all faults at any time | `TypeOK`, `IdsUnique`, `StoredHasPeerSession`, `UnreadCoversDue`, `LogKept` |
| `proxy_conn` | 2 connections of 1 server on 2 handles, 2 workers, 2 requests | `TypeOK`, `AnswerToAskerFromMainThread`, `AnsweredOnce`, `ListedOnlyIfConnected`, `RequestsAnswered` |
| `file_transfer` | 1 task of either mode, 4 connections, 2 segments, 3 pulls | `TypeOK`, `EndsMatch`, `RelayedAsAsked`, `FilesDelivered`, `OnlineEndsTogether` |
| `msg_delivery` | 2 msg_servers, 2 users, 4 connections (two of one user on one server), 2 handles, 1 message, 2 mishaps | `TypeOK`, `AtMostOnce`, `Delivered`, `SendListDrains` |
| `group_member` | 2 workers, 2 users (1 founder), 3 requests, failures at any time | `TypeOK`, `MembersCached`, `UnreadCoversDue` |

Why the bounds are enough to be interesting. In `msg_server` three connections on two
handles is the least with a reused handle while a third connection is alive; two names of one
user make an object disappear under a waiting connection, and make the
two registries disagree if `Close` gets it wrong. Three links let each server be
connected and one of them reconnect; two losses let the two ends of a link, or
two links, fail one after the other. Pools of one and two connections with three
threads make threads wait, be signalled, and lose the race to a newcomer, and let
`isValidateGroupId2` take one or both connections of the slave pool. In `proxy_conn` two
workers let answers overtake each other, and the second connection may be alive with the
first or get its handle after it closed. In `chat_store` the two messages run
through every pair of steps, of one pair or of two that share counters, and each
fault may strike between any two steps. In `file_transfer` four connections let both
ends come, go and come back; two segments are the least with a
first, a last and one at a wrong offset; tasks share nothing. In `msg_delivery`
messages meet only in queues and send lists, whose order nothing reads but the timer,
so one message is enough, on every path it may take; four connections give a second
connection of the sender on his server and on another, one of them with a handle used
before. In `group_member` three requests are an addition, a removal and a message or a
read in any overlap of two. In no run does a bound on a counter
close off what a property talks about: `MaxOpen`, `MaxLosses`, `MaxTasks`,
`MaxConn`, `MaxReq`, `MaxTime`, `MaxMishaps`, `MaxPulls` are the only ones; three
pulls are one more than a file has segments. `UintMax` stands for 2^32-1 and
is larger than any id given. `MaxTime` is 0, all messages in one second, which is
the case `chat_store_gap` needs; no other property reads the time. Symmetry is used for
interchangeable names, servers, links, connections and workers in runs without liveness
properties only.

Deadlock checking is off everywhere: a msg_server whose connections were all used,
or a pool whose tasks are done, may stop. That a task never waits for ever is
`TasksEndUnlessDrained`.

### Disagreements between code and what it says of itself

Each of these runs checks one property and finds it violated; `findings` in
PROJECT.json quotes the line.

| run | property | what happens |
|---|---|---|
| `conn_pool_nested` | `TasksEnd` | group messages take a second master connection while they hold one |
| `group_member_back` | `RemovedStaysOut` | a fill of the member list takes rows of any status: users removed before get the group's messages again |
| `chat_store_gap` | `GapMeansLost` | ids are taken from redis and rows inserted later: a page ordered by time and row does not start at the id the protocol computes, and clients mark messages as missing that are stored |
| `proxy_conn_worker` | `AnswerToAsker` | a worker sends through a connection the main thread has deleted |

Five more configurations show other disagreements. They are here to be run by hand
(`tlc -config <file> <module>`), each checks one property and finds it violated. What
they show is why a property of a run above has the exception it has.

| configuration | property | what happens |
|---|---|---|
| `MsgServerEmptyName.cfg` (`MCMsgServer`) | `SecondRequestRefused` | `MsgConn.cpp:401` says "refuse second validate request"; the guard tests the length of the name, so an empty one lets a second request through |
| `PresenceHidden.cfg` (`MCPresence`) | `PcClientCounted` | a list gives a PC client as OFFLINE, and another PC client of the user, online elsewhere, is no longer counted, nor is anything told of him, against `RouteConn.cpp:218` |
| `ConnPoolDrained.cfg` (`MCConnPool`) | `TasksEnd` | `isValidateGroupId2` releases its slave connection only if the group exists (`GroupModel.cpp:895`): as many unknown groups as the pool has connections, and everyone who needs the slave waits for ever |
| `FileTransferAhead.cfg` (`MCFileTransfer`) | `AnswersNumbered` | the server is to set the number of the request a segment answers (`transfer_task.h:245`), but keeps one number per task, which a second request overwrites |
| `FileTransferEarly.cfg` (`MCFileTransfer`) | `ReceiverAfterUpload` | `transfer_task.cpp:331` says the first who comes must upload; a receiver is let in before and during the upload |

`conn_pool` runs the functions that return what they take at most once; one that returns
it twice in the mix breaks every property. `sendMessage` of a group has the run
`conn_pool_nested`. `removeRepeatUser` (`GroupModel.cpp:727`) releases its connection
inside the loop over the users and goes on using it, so that with two users another
worker may hold it too and the second release puts it on the free list under that worker.
For the same reason `AnswerToAskerFromMainThread` and `AnswerToAsker` are two
properties.

### Fairness

* `ConnPool`: each thread that can step eventually does. Among threads
  competing for a connection no order is assumed, neither of `Signal` nor of the
  mutex; `TasksEndUnlessDrained` needs the number of tasks to be finite, which `MaxTasks`
  gives.
* `ProxyConn`: the event loop calls its loop callback on every turn (fairness of
  `SendResponsePduList`), each worker is a thread (fairness of `Work`).
* `Delivery`: weak fairness of all the work together (`Work`): as long as a worker, an
  event loop or a timer of some process has something to do, one of them does it. This
  is less than each process's own progress, which the event loops and threads give.
  Clients, members, links and their mishaps are under no fairness.
* `FileTransfer`: weak fairness of `OnTimer` for each connection, which
  `FileClientConnTimerCallback` calls every second.
* `MsgServer`, `Presence`, `ChatStore` and `GroupMember` state safety only. A login that
  is never answered ends by `LoginTimeout`; its guard is that very state, so nothing is
  stated of it.

## 4. Proofs

`MsgServerProofs` proves, for any sets of connections, handles, names, users and
types, any `UserOf`, and from the named assumptions of `MsgServer` only
(`HandleAssumption`, `UserOfAssumption`, `TypeAssumption`, `NullAssumption`):

* `IInvHolds`: `Spec => []IInv`;
* `TypeCorrect`, `NoDangling`, `Registries`, `Deliverable`, `AnnouncementsNet`: the
  invariants `TypeOK`, `NoDanglingConn`, `RegistriesAgree`, `OpenIffDeliverable`,
  `AnnouncementsBalance` of the run `msg_server`;
* `OldDisplaced`: `Spec => NewLoginDisplacesOld`.

None of the first four is inductive. `RegistriesAgree` says nothing about a name
without an object, so a stale `uConns` entry could come back with the next login
(`NoObject`). `OpenIffDeliverable` needs two connections never to share a handle
(`HandlesDistinct`), a closed connection to have lost its id (`ConnShape`),
and a connection that waits in an object with a login name to have that name, or `Close`
would leave it behind in the object's set (`WaitingShape`). The delicate step is
`Close`, which may delete two objects: `CloseIInv` shows that when the object
found by id and the one found by name differ, the second holds no validated
connection of the one that closes. `ValidateMore` needs that an object with
an id has at least one connection (`ByIdShape`), else the object found by
name could be the very one the id leads to and be deleted while it is used.
There is one lemma per action or group of actions that share a frame, and
`NextIInv` puts them together.

`AnnouncementsBalance` compares a count with a cardinality, which says nothing of an
infinite set; `Balance` adds that only finitely many connections are open, so that
`Conn` needs no assumption. `OpenBalance`, `CloseBalance` and `SameBalance` are the
three kinds of steps: each opening and closing announces one connection of the type it
had. For `NewLoginDisplacesOld`, `OpensByValidation` finds the step that opened a
connection, and `OnlyOneKicked` that a single other connection of the class
is the one `KickFirst` comes upon.

`ChatStoreProofs` proves, for any workers, pairs of users, faults and bounds, from
`PairAssumption` and `BoundAssumption` of `ChatStore`:

* `IInvHolds`: `Spec => []IInv`;
* `TypeCorrect`, `IdsAreUnique`, `PeerSession`, `UnreadIsEnough`: the invariants
  `TypeOK`, `IdsUnique`, `StoredHasPeerSession`, `UnreadCoversDue` of the run
  `chat_store`;
* `StoreImplementsLog`: `Spec => LogKept`, the refinement of `MsgLog`.

`IdsUnique` speaks of stored messages only, while an id is lost or won long before
its row is inserted. `IInv` therefore looks at all messages that carry an id, stored,
answered or with a worker (`Held`): an id has one owner (`IdsOwn`) and the counter has
passed it (`IdsCounted`), both for relations not in `faulty`. `Apart` and
`Once` tie a request to one worker and one row, `Phases` says at which steps a task
has an id and a session, and `PeerListed` that a task with a session has also
found or added the recipient's. `MoveKept` is the one lemma for every step that moves
a worker on, from what its next step demands; the lemmas of the actions check
those demands. The refinement follows step by step: an insert is a `Store`
(`InsertStep`), an answer an `Answer` (`AnswerStep`), and every other step stores and
answers nothing (`QuietStep`). `UnreadCoversDue` is carried by `Covered`, which adds
that the messages due are finitely many; a message is due from the insert on, but must
be covered only from the increment of its worker on.

`GroupMemberProofs` proves, for any workers, users, founders and number of requests,
from `FounderAssumption` and `BoundAssumption` of `GroupMember`:

* `IInvHolds`: `Spec => []IInv`;
* `TypeCorrect`, `MembersAreCached`, `UnreadIsEnough`: the properties `TypeOK`,
  `MembersCached`, `UnreadCoversDue` of the run `group_member`.

`MembersCached` exempts a user only while a request about him is under way, which the end
of the request does not survive by itself: `Listing` says that a member who is not in the
hash is just about to be put there (`Caching`), not merely busy. That a removal takes
nobody out of the hash who is a member is `OutBeforeUncached`: the row was marked before,
and no addition marked it back meanwhile, since two such requests at once put the user in
`apart` (`OverlapApart`). For the counters, a worker may write a copy that is long out of
date; `ReadBounded` says of the number it holds, from the reading on, what
`UnreadCoversDue` says of the copy once it is written. `Steps` ties the steps to the
kinds of request. `Goes` states what all steps of a worker do to its task; `CountersStay`
and `MembersStay` are the two frames, and each action adds what it disturbs.

`PresenceProofs` proves, for any servers, links, users and client types, from
`BoundAssumption` and `NullAssumption` of `Presence`:

* `TypeCorrect`, `NoConnDangles`: `TypeOK` and `NoDanglingRouteConn`, which with the
  types of the packets are inductive (`Types`);
* `OnlineNotForgotten`, `CountsExact`: `NeverUndercounts` and `ExactWithoutLoss`;
* `StatusTrue`: `StatusShownIsTrue`.

The route server does not remember which server it counted a client for, yet a server's
clients must be found in its count once its packets are read. `Balanced(u, t)` says that
the books could be kept: there is a `Ledger` that gives each link the clients counted for
it now and after each of its packets. Every packet on a link changes its entry as it
will change the count, the last entry is what the server has (`Runs`), and the count is
at least the sum of the first entries, and equal to it without a loss (`Counts`). A
server that sends writes a new last entry, the route server that reads moves the entries
up, a link that ends drops out. No ledger is asked for a user and type that a list gave
as OFFLINE (`listedOff`), and before the first loss no list has anybody in it (`NoList`).
The sum is the cardinality of a set of numbered
clients (`Numbered`), as sums over arbitrary sets need an induction; `NumberedInto` maps
those of the servers heard into those of their links. What servers are shown needs a
second invariant, `Told`, which relates each notification on the way down, and the last
one shown, to what the table says now (`Seen`): a PC client that comes or goes
while another stays is not told of, and the early return of `_HandleUserStatusUpdate`
keeps back no notification a PC client needs.

`ConnPoolProofs` proves, for any finite set of threads, any pools with any bounds and any
set of programs, from `PoolAssumption` and the hypothesis `Disciplined(R)`:

* `TypeCorrect`, `TasksExclude`, `WakeupsKept`, `ConnectionsAccounted`: `TypeOK`,
  `ExclusiveUse`, `NoLostWakeup`, `NoneForgotten`;
* `PoolsLease`: `Spec => LeasesKept`, the refinement of `Leases`.

The hypothesis is the discipline of the callers and cannot be dropped, as the functions
named in section 3 show. It allows a task to leave a connection behind, as
`isValidateGroupId2` does, but not to release one twice. TLC evaluates it for the
functions of the run `conn_pool` (`MCDisciplineAssumption` in `MCConnPool`). A second
release in any of them, or a use after it, makes TLC refuse that assumption. The invariant says which connections are
out: what a thread relies on is not free (`HeldAreOut`) and nobody else's (`HeldOnce`),
and what is not free is relied on (`HeldOrFree`) or was left behind (`LeftAreOut`). A thread waits only at a get
(`WaitAtGet`); `NoLostWakeup` is then inductive, since a release puts one connection on
the list and wakes one thread, and a thread that takes one leaves the loop.

`ProxyConnProofs` proves, for any workers, handles, servers and bounds, from
`ProxyAssumption` of `ProxyConn`:

* `TypeCorrect`, `MainThreadAnswersAsker`, `AnsweredAtMostOnce`, `ListedAreConnected`:
  `TypeOK`, `AnswerToAskerFromMainThread`, `AnsweredOnce`, `ListedOnlyIfConnected`.

`OnePlace` says that a request is in one place only: in a queue, with a worker, in the
list of answers, about to be sent, or answered. That is what makes `AnsweredOnce` hold
with several threads draining the list. Answers of the main thread go to the asker
because it looks the uuid up in the same step (`KindsKnown`, `JobShape`: without
inline requests no worker is between look-up and send).

`DeliveryProofs` proves, for any servers, users, connections, handles and messages, from
the named assumptions of `Delivery`:

* `TypeCorrect`, `NothingTwice`: `TypeOK`, `AtMostOnce`.

A message comes to a server from the database's answer, from the answer to its request
for the members, and from the route server. `OneWay` says that a message has one way left
to the connections of a server, and while it has one none of them got it; `RouteShape`
that it is once on a link, upwards at its origin only and downwards elsewhere, and
`AnswersOnce` that a request is answered once. `AckedSender` and `RequestShape` settle
the sender: the connection acknowledged has the handle that the request carries, by
which the broadcast leaves it out. The types need an open connection to have a handle
(`OpenHandles`), and the timer, which takes the expired entries off the front of the
send list, is shown to keep the list sorted by age (`SortedLists`).

`FileTransferProofs` proves, for any tasks, connections and number of segments, from the
named assumptions of `FileTransfer`:

* `TypeCorrect`: `TypeOK`, whatever clients do;
* `PointersAlive`, `SegmentsInOrder`: `EndsMatch`, `RelayedAsAsked`, if clients have the
  three habits (`Orderly = Habit`);
* `OfflineIsStore`: under the same assumption `Spec => FilesDelivered`, the refinement of
  `FileStore`.

No habit can be dropped: without any one of them TLC finds `EndsMatch` violated. The invariant has
one part per connection (`ConnOk`) and per task (`TaskOk`, `FileOk`). `EndsOk` is
`EndsMatch` with its converse: an open connection with a task is an end of it. `StageOk`
ties the state of a task to its ends, what was asked for and what was received: of an
online task whose receiver asked in turn the one pending request is for the receiver's
next segment (`OnlineOk`, `OneAsked`), of
an offline one the file grows with the sender's segments (`Uploading`) and is read
from where the reader is (`Downloading`). For the refinement each action is a step of
`FileStore` or a stutter; a restart is a stutter, since files stay.

Left to TLC is liveness: `TasksEndUnlessDrained`, `RequestsAnswered`, `Delivered`,
`SendListDrains` and `OnlineEndsTogether` follow from fairness, which the installed
provers do not reason about. So do the runs that show a disagreement, whose result is a
behaviour. The constants of the MC modules are covered by the theorems, except that in
`conn_pool` the programs are those of `MCDisciplined`.

## 5. Not modelled

* Handlers that only forward a request or read a table, `CDepartModel`,
  `CFileModel`, `CAudioModel`, most of `CUserModel`: one statement per call.
* `SyncCenter.cpp`, the thread that brings sessions of group members up to date: no model
  reads what it writes. Its `stopSync` clears the flag and notifies without the lock the
  thread tests the flag under, so that the wake-up may come between test and wait.
* The reconnect back-off of `ServInfo.h` and the choice of a master route server: the
  models let a lost link come back at any time.
* The loop of `CImConn::OnRead` over buffered packets (`imconn.cpp:148`), which goes on
  after a handler closed the connection: the models have one packet per callback.
* Kicks that cross between two msg_servers when a user logs in on both; `MsgServer` has
  one server, to which a kick from another may come at any time.
* `Login.cpp`: its answer is an input of `MsgServer`; the limit on failed attempts is not
  modelled.
* `getMsgId` when the redis pool gives no connection: it uses the NULL pointer.
* `http_msg_server`, `push_server`, `msfs`, and push requests in `msg_server`: front ends
  of other services.
* Heartbeats: a server connection silent too long closes, which the models have
  as "may close at any time".
* The SIGTERM shutdown of `db_proxy_server`.
* `g_total_online_user_cnt`: it adds the full count at every update, and is only
  written to the log.
* A msg_server opens several connections to one db_proxy_server and reports
  itself on each; the end of any one takes it out of `msg_srv_list` until the
  next count update. `ProxyConn` has this behaviour; `ListedOnlyIfConnected`
  states the direction the code keeps.
* A pool that fails to grow under `isInGroup2`, `isValidateGroupId2` or
  `getMsgId`: they use the NULL connection. `Fallible` excludes those pools; a model
  of the crash would restate the missing test.
* The Android and iOS clients and the vendored libraries (protobuf, hiredis, slog,
  log4cxx, jsoncpp). By lines they, and the protocol classes protobuf generates
  (`base/pb`), are nearly all of the repository: there is no state machine in generated
  accessors, and the clients' side of a protocol appears as what clients may send. The
  share of all lines that the modules stand for is therefore small and cannot be large.

## 6. Plan

Done: `MsgServer`, `Presence`, `ConnPool` with `Leases` and `DbTasks`, `ProxyConn`,
`ChatStore` with `MsgLog`, `Delivery`, `GroupMember`, `FileTransfer` with `FileStore`;
proofs of every invariant, action property and refinement of these.

Left to model, in this order: two instances of `MsgServer` with the route server between
them, for kicks that cross; `OnRead` with several buffered packets, one of which closes
the connection; `SyncCenter` with `addSession` as check and insert on two threads;
back-off and master choice of `ServInfo`; the attempt limit of `Login.cpp`.

Left to prove: nothing of the safety of the modules there are. A further step would be to
compose them: that the announcements `MsgServer` makes are the packets `Presence`
sends, and that `Delivery` takes from `ChatStore` and `GroupMember` no more than those
promise.
