# TLA+ models of the Rutgers 2026 eCTF HSM firmware

The firmware (`src/firmware`) is a single-threaded, bare-metal program on an
MSPM0: `main` reads a packet from the host's UART, runs its command to the end,
and answers. What makes it hard is not threads but flash: every command that
changes something is a chain of page erases and programs, several of them on
pages all slots share, and the device may lose power, be reset by its watchdog,
or be told by the flash controller that an operation failed, inside any of them.
The second hard part is the link to a second HSM: handshakes with timeouts over
a UART that buffers one byte.

## Inventory

| Component | Code | State | Operations | Status |
| --- | --- | --- | --- | --- |
| File store | `secure_blob_store.c`, `commands.c` | FAT page and `g_fat`; name-table page and `g_name_table`; per slot header, chunks, tags | WRITE, READ, LIST, DELETE, the storing tail of RECEIVE, boot | modelled: `SlotStore` |
| PIN state | `security.c` | page with PIN hash and failure counter, their RAM copies, `g_initialized` | `check_pin`, `pin_change`, `pin_init` | modelled: `PinState` |
| Flash driver | `simple_flash.c` | flash cells | erase page, program, read | inside the two above |
| Dispatch, boot, watchdog | `HSM.c` | the packet buffer, the watchdog counter | main loop, init | modelled: `MainLoop`; boot's loading in `SlotStore`, `PinState` |
| Peer transfer | `commands.c` (`receive`, `interrogate`, `listen`) | shared buffers, nonces | three-message handshakes over UART1 | modelled: `PeerTransfer` |
| Replay cache | `secure_design.c` | ring of 8 tuples, next index | check and insert, clear | modelled: `ReplayCache`, in `PeerTransfer` |
| Framing | `host_messaging.c`, `simple_uart.c` | one-byte receive register | packets in 256-byte blocks, ACK after each, timeouts | UART1 modelled: `UartFraming` |
| TRNG | `trng.c` | hardware state | read with retry | reads modelled, in `MainLoop` |
| Hashing | `sha256_raw.c`, `secure_crypto.c` | streaming context | update, final, HMAC, HKDF | context modelled: `Sha256Stream`; the rest ideal |
| Legacy file system | `storage.c`, `filesystem.c` | its own FAT and counters | `init_fs` at boot, unused otherwise | not modelled |
| Debug diagnostics | `commands.c` (`digest`, `echo`, `boot_flag`) | none of their own | read-only | their place in the loop only |
| Rest | start-up, pin configuration, LED, `simple_crypto.c`, build scripts | - | - | not modelled |

How they interact. The main loop calls one command handler at a time. Every
handler but LISTEN first calls `pin_gate`, which may rewrite the PIN page and
may spend five seconds in `fail_delay`. Handlers of the file store consult
`validate_permission` (a constant table), change `g_name_table` and its page,
then call `blob_write` or `blob_delete`, which change the slot's pages and the
FAT. A slot counts as occupied only if *both* tables say so, and a read needs
both tables and the slot's header to agree. RECEIVE ends in the same store steps
as WRITE, with the peer's name, group and uuid. A reset forgets all RAM: tables
and PIN state are reloaded at boot, the replay cache is empty again.

What makes each part correct:

- *File store.* A header on flash vouches for a complete blob; nothing is
  programmed over cells that are not erased; an acknowledged file or deletion
  stays until a command on the same slot; a command, its failure or a reset in it
  changes no other slot's file; RAM and flash tables agree between commands, unless
  one has failed.
- *PIN state.* Only the provisioned PIN (release), or one asked for by
  CHANGE_PIN (debug), is ever in force; a failure is on flash before it is
  answered; the counter counts consecutive failures across resets.
- *Peer transfer and replay cache.* Nothing is stored unless the peer proved the
  challenge just sent; metadata is disclosed only for proved groups; an accepted
  nonce pair is refused while it is among the last eight.
- *Framing.* A packet is delivered whole and in order or not at all, an ACK means
  that it was read, and both calls return.
- *Loop and watchdog.* The watchdog never cuts work that waits for nobody, and
  always brings back a device that waits for somebody who does not answer.
- *Hashing.* What is compressed is the padded message, however it is cut.

## Modules

| Module | What it is |
| --- | --- |
| `SlotStore` | the file store over flash: one action per flash operation |
| `SlotLedger` | `SlotStore` with an observer, what the host was told of each slot |
| `SlotDirectory` | the contract: a directory of slots, no flash |
| `SlotHistory` | `SlotStore` with history variables, and the refinement to `SlotDirectory` |
| `PinState` | the PIN page and the calls that use it |
| `PinLedger` | `PinState` with an observer, which PINs and how many failures the host knows of |
| `ReplayCache` | the ring: empty, seen, insert |
| `PeerTransfer` | two devices: both sides of RECEIVE and INTERROGATE, with the ring of each |
| `PeerExchange` | the contract: a requester takes what its peer has in one step, no packets |
| `UartFraming` | one packet after another and their ACKs, byte by byte, in calls that may overlap |
| `MainLoop` | the loop, the watchdog, the TRNG, and each command as stages that take time |
| `Sha256Stream` | the streaming context of SHA-256 |
| `SlotStoreProofs`, `SlotLedgerProofs`, `SlotHistoryProofs`, `PinStateProofs` | theorems and proofs: file store, PIN |
| `PeerTransferProofs`, `UartFramingProofs`, `MainLoopProofs`, `Sha256StreamProofs` | theorems and proofs: link, loop, hash |
| `MC...` | model values and symmetry for the runs |

### SlotStore

`nameF` and `fatF` are the two table pages, an entry per slot; `hdr`, `ct`, `tag`
the slots' contents; `names` and `fat` the RAM shadows. `pc`, `cmd` and `idx` say
which flash operation of which command is next; `reply` is the last packet sent.
The order of operations is the code's:

    WRITE/RECEIVE  names(RAM) - erase/program name page - erase slot pages 0..last
                   - (chunk, tag)* - header - erase/program FAT page, fat(RAM) - ack
    DELETE         erase slot pages - erase/program FAT page, fat(RAM)
                   - names(RAM) - erase/program name page - ack

`NamesFail`, `BlobWriteFails` and `BlobDeleteFails` are the error exits: a failed
name flush ends the command, a failed `blob_write` clears the name entry and
flushes again (and that flush's result is not looked at), a failed `blob_delete`
just reports. `Interrupted` says what flash may hold after an operation that
stopped half-way: nothing done, all done, a prefix of a table's entries
programmed, or a cell *torn*. `Reset` combines it with the loss of RAM, `Boot`
reloads the tables.

Abstractions:

- A write's AES-GCM nonce is its number. A chunk or tag is the nonce it was sealed
  under; AEAD and HMAC accept exactly the chunks sealed under the header's nonce.
  Keys and the AAD (slot, length, group, owner) are part of the header.
- A length is a number of chunks, so two files of equal chunk count but different
  byte count are one class; in the code their lengths differ and fewer FAT and
  header pairs match than in the model.
- A table entry is erased, torn or whole. A torn name entry still counts as in use
  and a torn FAT entry as non-empty, which is the worst case. A table page is
  programmed in ascending order, 64 bytes at a time.
- A page erase happens or does not; half-erased pages are not represented.
- `pin_gate` has let every command through; its own flash page is `PinState`'s. READ
  compares the caller's PIN hash with the one in the header
  (secure_blob_store.c:455). In a release build they are always the same; in a debug
  build CHANGE_PIN may have come between store and READ, and `Read` may be refused for
  it at any time (`Owners`). Which blobs a CHANGE_PIN cuts off is not followed.
- `Permitted` and `CanRead` are `global_permissions`.

### PinState

One page with two fields, always erased and reprogrammed together by
`write_pin_state` (`Erase`, `Program`), for a miss, a hit after misses, a change
or the first boot. `answer` is what the call will return once the page is
written; `Return` is the caller's continuation, which for a wrong PIN is
`FailDelay`. A PIN stands for its hash. `check_pin` ignores the result of the
write, `pin_change` and `pin_init` do not. The counter has `MaxCount + 1` values
and `MaxCount` is what erased flash reads as. Not modelled is that `compute_pin_hash`
fails, or that `HSM_PIN` is too short for `pin_init` (security.c:167-172, 193, 237,
254): both depend only on the lengths of the secrets compiled in, not on anything that
happens at run time.

### PeerTransfer

`dev[d]` is one device: `pc` says which packet it is sending or waiting for, `cmd`
which command of its host it runs, `op` and `ses` the exchange it takes part in.
`Begin`, `Report`, `HostChange` are the host's side; `Deliver` passes the packet of
a device that sends (`PacketOf`) to one that waits, where `OnRequest`,
`OnChallenge`, `OnProof` and `OnAnswer` are the checks of `listen`, `receive` and
`interrogate` in the code's order, lengths first. The two devices need not be in
the same exchange, nor on opposite sides of one: two requesters may send to each
other, and an old answer may meet a new request.

- What the line may do is `UartFraming`'s result for calls that meet as a pair: a
  packet arrives whole or not at all; a writer that succeeded was read; either end may
  fail alone (`SendFails`, `WaitFails`, and the reader's half of `Deliver`); and a
  packet may be read under a command that does not exist. That a reader still inside
  one packet takes bytes of the next for the rest of it, which `UartFraming` has, is *not*
  in this model.
- A wait may end at any time. How long the other end takes is not modelled, so
  every order of timeouts is.
- All devices hold the same root secret, so a proof is the set of groups it was
  made for, bound to the nonces of its exchange. `Nonces` has one value in
  `PeerTransfer_exchange`: every draw repeats, and so a second exchange for the same
  group is refused while its tuple is in the ring.
- The store at the end of RECEIVE is one step, `Store`. If it fails, the slot may hold
  the old file, none, or a file under the new name and group over any blob that was
  there (`UnderNewName`), and RAM and flash may differ from then on: `doubt[d][s]` is
  what a reset may reveal of slot `s`, then or later, of an idle device too, until a
  store or delete completes (`Settle`). `remains` are the files whose blobs may still
  be in a slot that does not list them. This is what `SlotDirectory` allows of the
  flash operations. A file has the group it is listed under and the one its blob was
  `sealed` for, since a reset can make them differ; a peer that is offered such a file
  opens it only if the ids have a bit in common (`Overlapping`).
- `HostChange` is a WRITE or DELETE of the device's own host that completes; those
  that fail are `SlotStore`'s. In the runs hosts only delete.

`PeerExchange` is its contract: `TakeFile` and `TakeListing` take, in one step and
from the peer's files as they are, a file of a group the requester may receive, or
exactly the entries of such groups. Only with a file taken may `Keep` or `Spoil`
change a slot, whole or, if the store failed, into one of the outcomes above; `Restart`
reveals what was in doubt, and `Stop` changes no slot.
`TakeRequestForListing` is the one exception the code needs (see Findings).

### UartFraming

One packet is followed at a time: `w` is the call of `write_packet` that writes it, `r`
a call of `read_packet_timeout` at the other end. Neither waits for the other to be
ready. `StartWrite` may begin the next packet as soon as the writer is out of the last
one, while the reader is still inside it; `StartRead` may begin in the middle of a
packet; `Reset` cuts either short. An end that is in neither call may be in another,
seen only as the bytes it takes and puts on the line (`OtherCall`). Each call of the
reader brings a buffer of its own, a member of `Limits`; `BlockEnd` is where the block
ends that both ends are working on. `rx` holds each end's receive
register: the FIFOs are off, so it is one byte, and a byte that finds it full is lost. Registers are never drained,
and keep what one call left for the next. An end that polls empties its register
faster than the line fills it, and its timeout is 20000 byte times (2 s at 115200
baud), so a timeout expires only on a quiet line.

Because calls overlap, what a packet's delivery promises depends on how they met.
`paired` is a history variable: the reader was not inside an earlier packet when this
one began (it was out of its call, or waiting for a magic byte), this is its first call
since, and no other call has put a byte on the line. `AckedMeansRead`,
`WholePacketOrNothing` and `SuccessLeavesLineClean` are about such pairs, after any
history of calls that were not, and with whatever those left in the registers. Without
the condition they are false: if the first byte of a header's ACK is lost, `await_ack`
ends `write_packet` at once (host_messaging.c:66, 70) while the reader waits up to two
seconds for a body (236-257); a packet written meanwhile is read as that body, and
`read_packet_timeout` returns MSG_OK with bytes of two packets. The model has
that behaviour, and TLC finds it when the condition is taken out of
`WholePacketOrNothing`. `CallsBounded` and `CallsEnd` need no such condition.

Not modelled: both ends in a `write_packet` that is followed (each then reads the
other's packet as an ACK and fails, which `PeerTransfer` has as two failures), and the
unbounded waits of the control line (a stage of `MainLoop`).

### MainLoop

Each command is a chain of stages: the PIN gate, its page rewrite and delay, local
work, drawing a nonce, waiting for the peer, storing, answering. `Tick` passes
time in a stage that takes some, `wd` counts since the last restart of the
watchdog, and `Bite` resets. A stage that waits for the host or for the TRNG is
unbounded; one that waits for the peer may be renewed by each late byte, up to
`PeerBytes` of them. In `TimeAssumption` the watchdog's period covers the longest
local command and the pause between two restarts in `fail_delay`. The code has no
such statement, so these are assumptions on its durations: the period is 8 s, a
page erase takes milliseconds and a command at most a dozen of them, `fail_delay`
restarts the watchdog every million iterations. (Its comment computes five seconds
from 7.7 million iterations; the loop makes 12.5 million. `DelayTicks` is longer
than the period, so the result does not depend on which is right.)

Lengths of the host's packets are not followed. `main` passes `read_packet` a length of
0, which turns its limit off (HSM.c:155, host_messaging.c:186), so that it refuses no
packet for its length; the commands check the lengths they need. What becomes of a
packet longer than the buffer is undefined behaviour and outside the models; no
property here depends on it.

### Sha256Stream

`buf`, `curlen` and `length` are the context; `FullBlock` and `Copy` are the two
branches of update's loop, `AppendMark` and `Finish` the two halves of final.
`stream` is everything the compression function has been given. Sizes of block and
length field are constants: 4 and 2 in the run, 64 and 8 in the code, any in the
theorems.

### Contract and refinement of the file store

`SlotDirectory` promises that a command which is neither interrupted nor failed
replaces exactly its slot's file; that one that fails leaves every other slot
alone; and that a reset may lose other slots' files but never alters one or
brings one back. For the slot a failed or interrupted command was working on it
allows exactly: no file, the old file, or a file under the new name and group
whose content is that of the interrupted store *or of an earlier store to that
slot*. The last case is real: name and group are on flash before the old blob is
erased, and nothing binds them to it. Taking that disjunct (`UnderNewName`) out of
the contract makes the refinement fail.

A failed command also leaves `doubt`. The rewrite of a table that failed may have
changed flash and not RAM, or the other way round, so that what the device shows
is not what it will find after a reset. `doubt[s]` collects what such a reset may
still reveal of slot `s`; a command that completes has rewritten both tables from
RAM and ends it. So the contract holds with failures and resets in one behaviour.

## Runs

All are in `PROJECT.json`. The state of a slot matters only relative to its own
and one other slot, and to the shared pages, so two slots meet every interaction.
Name and group are always written and erased together, so that two groups tell an
old entry from a new one as well as two names would. Two or three stores give store,
overwrite and a store to the other slot; two chunks give chunk pages that are, and
are not, the header's page.

| Run | Bounds | Shows |
| --- | --- | --- |
| `SlotStore_faults` | 2 slots, 2 chunks, 2 stores, failures and a reset, fairness | `TypeOK`, `HeaderComplete`, `ProgramsErasedFlash`, `CommandsEnd`, `BoundedFlashWork` |
| `SlotLedger_faults` | 2 slots, 1 chunk, 3 stores, 2 groups of which one may be read, failures and a reset | `AcknowledgedKept`, `ReadPermitted` |
| `SlotHistory_faults` | 2 slots, 1 name, groups 0 and 1, 2 chunks, 2 stores, failures and 2 resets | `ImplementsDirectory`, `ShadowMatchesUnlessFailed` |
| `PinLedger_faults` | debug build, 3 PINs, failures, 3 resets, counter of 5 values | `TypeOK`, `FailurePersistedBeforeAnswer`, `NoForeignPin`, `PinAndCountKept`, `CallsEnd` |
| `PeerTransfer_exchange` | 2 devices, 2 slots, groups 1, 2 and 3, of which one device may receive 2 and the other 1 and 2, and 3 has a bit in common with each, 5 commands, 1 reset, nonces that repeat | `TypeOK`, `ImplementsExchange`, `CommandsEnd`, `CommandsAdvance` |
| `PeerTransfer_replay` | 1 slot, 1 group, ring of 2, 2 nonces, 8 commands | `NoReplayInWindow` |
| `UartFraming_calls` | 2 packets, one of two blocks whose first looks like a header, the other an ERROR text, 4 calls, 1 lost byte, 1 reset, stray bytes `%` and `A`, blocks of 4, buffers of 4 and 400 | `TypeOK`, `AckedMeansRead`, `WholePacketOrNothing`, `SuccessLeavesLineClean`, `CallsBounded`, `CallsEnd` |
| `MainLoop_watchdog` | period 8 ticks, delay 9, 3 late bytes of the peer | `TypeOK`, `LocalWorkNotBitten`, `BackInService`, `ServiceNears` |
| `Sha256Stream_cuts` | 2 messages of up to 13 bytes, blocks of 4, length field of 2 | `TypeOK`, `BytesInOrder`, `DigestOfPaddedMessage`, `UpdateEnds`, `UpdateAdvances` |

`MaxWrites`, `MaxCommands`, `MaxCalls` and `MaxMessages` bound what a host asks
for, `MaxResets` the resets and `MaxNoise` the lost bytes in a behaviour; each is a
guard of the action that counts. Five commands are two exchanges and a third
command between or after them, which is what an exchange with a stale partner and
a request that repeats take. Eight are four exchanges: with a ring of two, the third
makes it forget the tuple of the first, which the fourth may then have again, while
those of the second and third are refused. Four calls are two writes
and two reads, so that bytes or an ACK of one packet meet the next, and one packet may
overlap the reader of another; a stray byte of another call counts as a call. 13 bytes
make every residue of a block of four, and blocks that are full after none, one and two
others. The counter of `PinState` is small so
that it wraps within the run.

Runs of systems whose hosts may stop asking (`PeerTransfer`, `UartFraming`,
`Sha256Stream`) do not check for deadlock; the bounds end them.

## Findings

Three runs state what a document or comment says and find it violated:

- `SlotLedger_power_loss` (README.md:24): an interrupted overwrite, or any
  interrupted rewrite of a shared page, loses acknowledged files; and boot
  discards nothing, an incomplete overwrite stays listed.
- `PinState_isolation` (README.md:26, "8-Byte Flash ECC Boundary Isolation: Isolates
  dynamic failure counters from static credentials across 64-bit ECC programming
  words"): counter and hash are in words of their own, but in one page, which is erased
  and programmed as a whole for every count. A reset while a wrong PIN's failure is
  recorded on a provisioned device leaves the words of the hash torn, and then no PIN
  matches.
- `PeerTransfer_denial` (commands.c:598): the text of a denial is longer than the
  buffer for a challenge, so that it is refused for its length, and RECEIVE reports
  "No response from target HSM" instead of the denial.

Five more were met while modelling and have no run:

- commands.c:307, undoing the name entry of a failed overwrite "so the FAT stays
  consistent", leaves the old FAT entry. (`SlotDirectory` says what that costs: the
  slot reads as empty.)
- README.md:54, READ "Decrypts and streams file to host": group 0 is a mask without
  bits (secure_blob_store.c:451), so a file of group 0 is acknowledged and never read.
  `AcknowledgedKept` excepts it.
- host_messaging.c:193-195, "The host writes one block then blocks in get_ack() waiting
  for our ACK before writing the next block": another HSM that finds an ACK damaged goes
  on to its next packet at once, whose bytes are read as the rest of the last one.
- host_messaging.c:131: ERROR packets are not to be acknowledged, and are.
- commands.c:769: a four-byte request of a peer that has given up passes for a
  listing.

`security.h:46` documents a permanent lock after five failures; `pin_is_locked`
returns false always (security.c:183, as security.c:18 says), so there is no lock to
model.

### What holds only without faults

`ReadPermitted` excludes states after a command that was cut short: an
interrupted overwrite can leave the name table's group different from the
header's, and READ checks the former. `ShadowMatchesUnlessFailed` excludes what
its name says: a failed flush leaves RAM ahead of flash. `AcknowledgedKept` excludes a
reset while a shared page is being rewritten, or differs from its shadow since a
failed rewrite; `SlotLedger_power_loss` shows why. `WholePacketOrNothing`,
`AckedMeansRead` and `SuccessLeavesLineClean` are about calls that meet as a pair, for
the reason given under *UartFraming*. The last two also except a reader that returns the
command `%`: with a stale `%` in the register, the packet's own magic byte is taken for its command, and
command and low length byte for the length. Such a packet may be ACKed before it is
complete. All callers refuse it by its command (commands.c:602, 653, 713, 769, 827,
920). With small buffers `read_packet` itself refuses it, by the length it seems to
have; a form of both properties that relied on that held in a run with a buffer of 5
bytes, and the proof for every buffer found it false of the 67 and more that a
command byte makes.
`LocalWorkNotBitten` leaves out the store at the end of RECEIVE, which starts with
whatever a slow peer has left of the watchdog's period.

### Fairness

The firmware has one thread and never blocks inside a command: in `SlotStore`
the flash steps and their failures are weakly fair together (a step happens or
fails), and so is boot; in `PinLedger` the same holds of what a call does once it
has begun. In `PeerTransfer` each device is weakly fair on its own: it goes on, or
its bounded wait ends. In `UartFraming` the writer's and the reader's steps are, each
loop being bounded by bytes or a timeout; the beginning of a call is not. In `MainLoop` time passes, the watchdog
bites, the device leaves stages that wait for nobody, and a TRNG that works
answers; there is no fairness of the host's packets, its ACKs or the peer's bytes,
which is why `BackInService` needs the watchdog. It supposes that the TRNG works
from some point on: while it does not, the device is reset in its self-test for
ever. The host's commands and resets are never fair. Failures are not assumed to
stop: the error exits are short enough for `CommandsEnd` and `CallsEnd` to hold even
if every operation fails.

## Proofs

Every safety property and both refinements that the passing runs check are also
theorems, for every value of the constants that the modules' assumptions admit.
Only liveness is model-checked alone: `CommandsEnd`, `CallsEnd`, `BackInService`,
`UpdateEnds` need fairness and ENABLED, which are out of the prover's reach. What the
code contributes to them, that no step can undo the progress of the others, is a
theorem: see *Progress* below. Also assumed is the arithmetic the models leave out:
AEAD, HMAC and SHA-256 are ideal.

| Module | Theorems | Properties |
| --- | --- | --- |
| `SlotStoreProofs` | `TypeCorrect`, `HeadersComplete`, `FlashErasedFirst`, `WorkBounded` | `TypeOK`, `HeaderComplete`, `ProgramsErasedFlash`, `BoundedFlashWork` |
| `SlotLedgerProofs` | `AcknowledgedFilesKept`, `ReadsPermitted` | `AcknowledgedKept`, `ReadPermitted` |
| `SlotHistoryProofs` | `ShadowsMatchUnlessFailed`, `StoreImplementsDirectory` | `ShadowMatchesUnlessFailed`, `ImplementsDirectory` |
| `PinStateProofs` | `PinTypeCorrect`, `ProvisionedPinOnly`, `FailuresPersisted`, `ForeignPinNever`, `PinAndCountSurvive` | `TypeOK`, (release builds), `FailurePersistedBeforeAnswer`, `NoForeignPin`, `PinAndCountKept` |
| `PeerTransferProofs` | `NoReplay`, `PeerTypeCorrect`, `TransferImplementsExchange`, `CommandsOnlyAdvance` | `NoReplayInWindow`, `TypeOK`, `ImplementsExchange`, `CommandsAdvance` |
| `UartFramingProofs` | `FramingTypeCorrect`, `AckedPacketsRead`, `PacketsWhole`, `LineLeftClean`, `CallsComeToTheirEnd` | `TypeOK`, `AckedMeansRead`, `WholePacketOrNothing`, `SuccessLeavesLineClean`, `CallsBounded` |
| `MainLoopProofs` | `TypeCorrect`, `LocalWorkUncut`, `ServiceComesNearer` | `TypeOK`, `LocalWorkNotBitten`, `ServiceNears` |
| `Sha256StreamProofs` | `DigestsPadded`, `BytesStayInOrder`, `StreamTypeCorrect`, `UpdateTakesBytes` | `DigestOfPaddedMessage`, `BytesInOrder`, `TypeOK`, `UpdateAdvances` |

### File store

`BoundsAssumption` and `BlankAssumption` say that there are slots and chunks and that
blank and torn flash read as no entry, header or file.

The three properties of `SlotStore` come from one inductive invariant, `Inv`, because
none is inductive alone. That a header can only be programmed over a complete blob
needs to know, at each label, how far the command has got: which pages of its slot
are erased (those below `idx` while erasing, and everything past the current chunk
while programming), which chunks and tags already hold the command's nonce, and
that no header is on flash between the erase of page 0 and `ProgramHeader`. The same
facts say that the next cell to be programmed is blank. The proof has one step per
action; `Interrupted`, shared by the three failures and `Reset`, is dealt with once
in a lemma, which says that an operation that stops half-way keeps
`HeaderComplete` whatever it left in its cells.

`LedgerInv` adds what the observer knows. A slot the host is sure to be empty is
blank in all four tables (`EmptyKept`): a table page rewritten from RAM, or a prefix
of it, then adds nothing there. A slot the host is sure to hold a file leads to it
(`StoredKept`) through the tables in RAM, and while booting through those on flash,
which are the ones a device will load: that is where an interrupted rewrite of a
shared page must already have made the host unsure. No slot that a command is
changing is one the host is sure of.

`ShadowInv` says that both shadows agree with flash while nothing is in doubt, but for
the table being flushed, and, whatever has failed before, that a command which is
past the flush of a table has set that table right.

`StoreImplementsDirectory` adds to it what a reset may find. `HistoryInv` says that
every header and uuid in a slot comes from a store to that slot (`PastInv`), and
that through *any* choice of RAM or flash for each of the two tables a slot reads as
something `SlotDirectory` may reveal (`ViewsInv`): what it was, nothing, what is in
doubt, or, for the slot in work, what the command may leave. The four combinations
are needed because the two pages are rewritten at different times. Each
flash operation is then a stutter, or the one step at which the contract's command
completes, fails or crashes. `NoSlotAssumption` says that no slot is called "none".

### PIN

`ReleaseInv` says that in a release build the hash, in RAM and on the page, is always
the provisioned one, blank or torn, and that an acceptance being answered is of the
provisioned PIN. `ForeignInv` says the same of the PINs the host knows of; since
confirming a change *shrinks* that set, it needs `CallInv`, by which a change about to
be confirmed is the hash in RAM, and the fact that a successful write has just put
that hash on the page. `KeptInv` speaks of the host's knowledge in three places:
between calls RAM and page agree (`PageKept`, where an all-ones counter on flash reads
back as zero), during a rewrite only RAM counts (`RewriteKeeps`), before `pin_init`
only the page does (`BootKeeps`). The host's count of misses is the device's until it
reaches the width of the counter, where the device wraps (`MissCounts`).

### Link

`NoReplay` ties the ring to the history it forgets: counting back from the next index,
the `k`-th entry is the `k`-th last of the accepted tuples, for every `k` below both the
size and the number accepted; so a tuple that `Seen` does not find is none of the last
`RingSize`, and `Insert` keeps that. Every action but `Deliver` into a device that
waits for a proof leaves the ring alone, or empties it together with its history.

`TransferImplementsExchange` rests on `ExchangeInv`. Nearly all of it is about one device
at a time: its types, what a command has been given at each label (`Busy`), and what
its handler has checked by then (`Checked`: a requester awaiting a file has a group it
may receive, a listener about to send one has found it whole and of that group). That
is not enough: a requester believes an answer because of the session it is in, so
`Paired` adds the two facts about both ends. Nobody sends a challenge or a proof to a
device that awaits the answer, and a listener that answers a RECEIVE answers the
session of the one who awaits it. What is in doubt needs no invariant but its type:
both levels compute `doubt` and `remains` alike, and a reset reveals of them what the
contract's `Restart` may (`StoredStep`). `PeerAssumption` asks for two devices, finitely many
slots, and markers that are no files or commands. Sizes of packets decide which packet
may pass for which (`IsPacket` and the lemmas under it).

`FramingInv` follows the writer by `Sent`, the number of bytes of header and body that
have left it, and the reader by the position of the last of them it has read: positions
only grow, what waits in the register comes from beyond, and a body is complete only
when no byte was skipped. An ACK is followed the other way in the same manner: its
third and fourth bytes cannot be had unless the reader wrote them, which is why the two
bytes `await_ack` does look at suffice. A reader that locked on inside a packet is the
hard case. Inside a RECEIVE it never gets past the header, because the body
is not sent before the header's ACK. An ERROR is sent without waiting; a false header
in its text has a length of at least 256, and its text ends first. So
`FramingAssumption` says what the error texts of `commands.c` are: C strings, shorter
than 256, without zero bytes; and RECEIVE bodies have a length of 16 bits. All of this is
said of calls that are `paired`; of the others only `ReaderShape` is kept, which is what the
next pair needs of them, since a call begins with nothing but what is in the registers.

### Loop and hashing

`LocalWorkUncut` bounds the age of the watchdog at each stage by the flash work since
the last restart and, in `fail_delay`, by the ticks since the last of its own (`Margin`);
`Route` says which commands come by which stage, without which the flash work of a
RECEIVE would be taken for local.

`Sha256StreamProofs` holds for every size of block and length field. The invariant is
`BytesInOrder` itself, that `total` is a whole number of blocks, and, between mark and
length, that the length field fits behind `curlen` and that one block less would not
have done. The digest then has the size of the padding because two whole numbers of
blocks are never less than a block apart.

### Progress

A liveness property says that something happens if the device keeps taking steps. Five
action properties say what each step is worth: a natural number falls with every step
that is not a new request, so a bounded number of them is left, under any failures. They
are theorems for all constants, from the invariants above, with one lemma per action.

- `WorkBounded`: a command has `OperationsLeft` flash operations before it. The error
  exits are what it is about: a failed `blob_write` erases its name entry again and a
  failing clean-up is not cleaned up after. So a command's flash time has a bound, which
  is what `TimeAssumption` of `MainLoop` takes for granted.
- `CallsComeToTheirEnd`: `LineWork` counts what the open calls can still do. A byte not yet
  written weighs 10, one in the reader's register 9, a byte of an ACK 2, one in the
  writer's register 1, a call that has not returned 1 or 2 (a reader without its low
  length byte waits for the high one too). The weights are the argument:
  a byte that leaves the writer may fill a register, and one byte read may set off an ACK
  of four. The writer's `Sent` gives the first number: what is unwritten is 4 + the
  length - `Sent`, at every block and across blocks.
- `CommandsOnlyAdvance`: `StagesLeft` numbers the stages of both sides of an exchange. A
  packet moves two devices in one step, and either may be anywhere, so the lemmas on the
  four reads of `TransferImplementsExchange` are used again.
- `ServiceComesNearer`: `Distance` is made of the stages left, the words to draw, the peer's
  late bytes, and the time until the watchdog bites plus the way from a reset back to the
  host. A reset is progress only because what it cuts short is worth more than that way,
  for which the invariant adds that boot begins with a fresh watchdog (`JustReset`), so
  that one reset does not follow another.
- `UpdateTakesBytes`: there is room in `buf` whenever the loop of update comes round.

With fairness, by which some step is taken, each of them gives the liveness property
beside it; that last inference is TLC's, on the bounded runs. `PinState` has none: its
calls pass through four labels and no loop, and `CallsEnd` is checked by TLC.

## Not modelled

- Which blobs' owners a CHANGE_PIN cuts off: it takes `PinState` and `SlotStore` in one
  model. `SlotStore` refuses READ for the owner at any time in a debug build.
- Packets that overlap with the reading of an earlier one, in `PeerTransfer`; a packet
  longer than `main`'s buffer; failures of `compute_pin_hash`.
- HMAC, HKDF, AES-GCM and the key labels: what they compute is arithmetic on bits,
  ideal wherever a component uses it.
- What DIGEST, ECHO and BOOT_FLAG answer: they read and change nothing.
- `storage.c`, `filesystem.c`: `init_fs` copies a table at boot and nothing else of
  them has a caller. `simple_crypto.c` has none either.
- `trng_init`, `SYSCFG_DL_init`, start-up, the status LED: register writes.
- The build scripts: their output is the constants of the models.
- Durations in seconds. `MainLoop` counts ticks in the order the periods have.

## What is left

`Device`: `PinState` and `SlotStore` together, with the owner's hash in headers, and
what READ then refuses after CHANGE_PIN.

## Checking

    tlc -config SlotStore_faults.cfg MCSlotStore
    tlapm SlotStoreProofs.tla
