# A formal model of SRL_HostIO

SRL_HostIO lets a PC (the `ftx` tool) work with the SD card of a Sega Saturn
through the USB FIFO of a development cartridge. This directory holds TLA+
models of its core, the TLC configurations that check them and TLAPS proofs of
the properties that matter most. Paths below are relative to the repository.

1. [The system](#1-the-system)
2. [The modules and the code](#2-the-modules-and-the-code)
3. [What is checked](#3-what-is-checked)
4. [What happens when an assumption is dropped](#4-what-happens-when-an-assumption-is-dropped)
5. [What is proved](#5-what-is-proved)
6. [What is not modelled, and why](#6-what-is-not-modelled-and-why)
7. [How the project grew](#7-how-the-project-grew)

## 1. The system

```
  PC host (ftx)                                    external
     |  two byte FIFOs, one each way (CS0)
  HostIo framing          INC/srl_devcart_hostio.hpp
     |
  dispatcher, superloop   Samples/Debug - File transfer/src/main.cxx
     |
  Handle* functions       INC/srl_devcart_sdcard_handlers.hpp
     |            \
  FatFsBackend     EraseRawRange, FileHandle    ..._backend.hpp, ..._utilities.hpp,
  File, Directory      |                        ..._lowlevel.hpp
     |                 |
  FatFs ff.c           |     sgc_* API (INC/sgclib/api_functions.c) is a second,
     |                 |     independent client of FatFs
  diskio.c             |
      \               /
  SD driver               INC/sgclib/sdcard_packet.c
     |  bit-banged SPI
  SD card                                          external
```

Everything on the console runs in one thread. The concurrency is between the
console and what is at the other end of its wires: a host that sends and reads
when it likes and may be killed, and a card that answers when it likes, or not
at all, and may be pulled out.

| Component | State it keeps | Operations | What makes it correct |
|---|---|---|---|
| Framing | none between frames; a header buffer, a payload counter | `TryReadRequest`, `ReadAll`, `WriteAll`, `SendResponse` | every byte belongs to the frame the host meant it for; a refused frame costs no other frame |
| Dispatcher | none | the superloop, `HandleHostIoRequest` | one complete answer per request, in order; a listing ends with its sentinel |
| Handlers | `g_sgcReady` | `HandleList`, `HandleRemove`, `HandleCrc`, `HandleUpload`, `HandleDownload`, `HandleMkdir`, `HandleRmdir`, `HandleRename`, `HandleSync` | the raw phase of a transfer has the announced length; the verdict of an upload is right |
| CRC-8 | the running checksum | `Crc8Update` | independent of how the data is cut; catches a disturbed byte |
| Raw paths | the `FileHandle` | `TryParseU32`, `TryParseRawRange`, `IsRawRootPath`, `EraseRawRange`, `open`, `write`, `close` | a path means one range or is refused; nothing outside the range is erased |
| FatFs backend | `m_mounted`, `m_isOpen` | `EnsureReady`, `File::*`, `Directory::*`, `Stat`, `Remove`, `MakeDirectory`, `Rename` | used only when mounted; the flags agree with FatFs |
| FatFs | the `FATFS` object with its one-sector window, free count and current directory; `FIL` and `DIR` objects of the callers; the volume on the card | `f_mount`, `f_open` ... `f_closedir` | no cluster in two files, sizes and chains agree, no cluster lost, both FATs the same; a failed or cut-off call costs at most what it worked on |
| sgclib API | two descriptors, one `DIR` | `sgc_init`, `sgc_open` ... `sgc_getcwd` | each call does to the tree of files what its answer says; descriptors are not leaked |
| Disk layer | none | `disk_initialize`, `disk_read`, `disk_write` | success means the sectors were transferred |
| SD driver | `ccs`, `ver2`, `mmc`, `stat_reg_buffer`, chip select, LEDs | `sdc_init`, `sdc_sendpacket`, `sdc_read_multiple_blocks`, `sdc_write_multiple_blocks` | every wait is bounded, an answer is taken for its own command only, the right sector is addressed |

How they interact: calls downwards only, no callback. The shared state is the
pair of FIFOs (frames and raw file bytes use the same ones), the SD driver's
global buffer (a field a packet did not fill keeps its value of the packet
before), the window of FatFs (a FAT, directory or data sector that is changed
there reaches the card only when another sector needs the window, or at a
sync) and the card.

What is hard, and therefore what the properties are about: keeping two ends of
a byte stream in step through refusals, oversized payloads, raw phases and a
killed host; polling loops that race the answer they wait for; stale driver
state after a command that was not answered; 32-bit arithmetic on addresses;
an operation on several sectors that fails, or loses its power, in the middle;
two descriptors and one window over one FAT. `PROJECT.json` lists
each hazard at its line.

## 2. The modules and the code

### HostIo

The Saturn and the host at the two ends of the FIFOs, byte by byte towards the
Saturn. `stream` is every byte the host has decided to send, `wr` of which are
in the FIFO or beyond and `rd` of those read, so the FIFO holds
`stream[rd+1..wr]` and never more than `InDepth` bytes.

| Code | Model |
|---|---|
| `while (true) if (!CS0::IsRxfEmpty())` (main.cxx:188) | `Poll` |
| `ReadAll`, one blocking `CS0::Read` per byte | `ReadHeaderByte`, `ReadPayload`, `ReadSize`, `ReadData`, `ReadChecksum`: each disabled while the FIFO is empty |
| magic, length and capacity tests of `TryReadRequest` | `ReadHeader`, with `GoodMagic`, `TooLong`, `HasPayload`; the drain loop is `Drain` |
| the `switch` and the reply of `HandleHostIoRequest` | `Dispatch`, `Reply` (the sentinel of a listing), `Outcomes` (which statuses a handler returns) |
| `HandleUpload`, `HandleDownload` | `BeginUpload` and the raw reads, `DoDownload` |
| `CS0::Write`, blocking | `Write`, one message at a time |

The host is external. It is what the Saturn's code expects: it asks
(`HostRequest`), also before earlier answers are in, except behind an upload;
it feeds the FIFO (`HostPut`); it takes a frame, then whatever the command
makes it expect (`HostTakeFrame`, `HostTakeRest`). It may send bad magics (only
without a payload, since such a payload is not drained), unknown commands,
payloads over the capacity and wrong checksums. With `MayAbort` it may be
killed at any byte (`HostAbort`) and start again; it counts as being in step
again when it starts over while the link is quiet. What a handler does to the
card is not part of this module: `Dispatch` picks any status the handler can
return. `cur`, `base` and the fields `req`, `pos`, `more` of a message are
bookkeeping for the properties.

### Crc8

`CrcTable` is the table of the source, `Crc8Update` the fold over a chunk. The
actions choose a message, disturb one of its bytes, and cut it into chunks. The
reference is the bitwise shift register of polynomial 0x07.

### SdCard and BlockStore

`SdCard` is the driver against the card. `sdc_sendpacket` is split where the
card can act: `SendCommand`, the poll for the header (`AwaitHeader`,
`ReceiveHeader`, `BusyTakenForHeader`), for the data (`AwaitData`,
`ReceiveBlock`), the block sent and its data response (`PutBlock`) and the two
waits for the end of the programming (`AwaitProgrammed`, `Programmed`). Every
error exit is `PacketFails`. `sdc_init` is one action per packet that came back
(`ResetDone`, `InterfaceDone`, `AppDone`, `OpCondDone`, `OcrDone`, `CidDone`,
`CsdDone`, `LenDone`), and `BlockDone` is the loop of the two sector calls.
`disk_initialize`, `disk_read` and `disk_write` are `Invoke` and `Return`.

An answer is one item on the line instead of bits; `stat` is the part of
`stat_reg_buffer` that the driver looks at. It keeps what the last packet of
the right length left in it, as the code's buffer does. CRCs, the clocking and
the slicing of the CSD are left out. The card is external: five kinds
(MMC, version 1, version 2, high capacity, and one that does not echo CMD8),
each answering within what its kind allows, late or never; a deselected card
drops what it had to say but goes on programming.

`BlockStore` is what the disk layer promises FatFs: an array of sectors, one
call at a time; success means done, failure may leave some of the sectors of
that call written and touches no other. `SdCard` is shown to implement it,
with `mem` as the media.

### RawRange

`Digit`, `EndNumber` and `BeginNumber` are the loops of `TryParseU32` and
`TryParseRawRange` over one character each; `Overflows` is the division test.
`OpenRange`, `EraseSector` and `EraseDone` are `EraseRawRange` with the calls
of `FileHandle` it makes. `ListRoot` and `RejectRoot` are what `HandleList` and
`HandleRemove` do with `sdraw:/`. A path is what follows the prefix; a
character is a digit's value or a name. The sector write is the one of a card
that refuses sectors it does not have; see section 4 for one that counts in
bytes.

### FatFs

`ff.c` for the configuration of `ffconf.h` (one volume, FF_FS_TINY, no long
names, no exFAT, no locks, no fast seek), FAT16 and FAT32. The module has no
variable: a C function is an operator of the same name from a call record to a
call record, so that its client makes one action of a whole `f_*` call. The
record holds the card (`disk`), the `FATFS` object (`fs`), the `FIL` and `DIR`
the function works on, the result, and a count of the sector transfers so far.

| Code | Model |
|---|---|
| `disk_read`, `disk_write` of diskio.c | `DiskRead`, `DiskWrite`: transfers `from` .. `to` of the call fail; `media` collects what was on the card after each write, which is what a power loss may leave |
| the window, `wflag`, the second FAT | `move_window`, `sync_window`, `sync_fs` with FSInfo |
| `get_fat` ... `create_chain` | the same names; `FindFree`, `LinkNew`, `FreeFrom` are their loops, `CountFreed` the free count |
| `dir_sdi` ... `dir_remove`, `create_name`, `follow_path` | the same names; `StretchTable` is the growth of a directory |
| `mount_volume`, `validate`, `f_mount` | the same names; the layout is computed as there |
| `f_open` ... `f_closedir` | the same names; `ReadStep`, `WriteStep` are one turn of the loops of `f_read` and `f_write`, with the direct transfer of whole sectors and the part through the window |

A sequence of C statements that returns at the first error is
`Then(v, LAMBDA w : ...)`; `With(e, LAMBDA x : f)` names a value. A data sector
is a sequence of symbols, a directory sector a function to entries, a FAT
sector a function to cluster numbers; `BytesOf` and `EntriesOf` say what a
sector looks like when it is taken for the other kind. Left out: times, the
label, attributes other than directory and read-only, the upper FAT32 bits, the
scan for a partition (the volume begins at sector 0), names as characters.

`FatVolume` reads a card by the FAT format alone and calls none of these
functions: the chain of a cluster, the objects of a directory, the contents of
a path, and the soundness properties (`NoCrossLinks`, `NoLostClusters`,
`SizesCovered`, `FatCopiesSame`). `Seen` puts the window's unwritten sector in
its place.

### SgcApi and FileStore

`SgcApi` is the descriptor table and one action per `sgc_*` call over `FatFs`.
`Cut` is a power loss in the middle of a call, after any of its sector writes:
only the card survives. The client keeps to what ffconf.h:268 asks of it while
FF_FS_LOCK is 0 (`MayOpen`, `Unused`: one writer or several readers of a file,
no removal or renaming of an open one), calls `sgc_init` before anything else,
and goes on with a card after a power loss only when a file system check finds
no damage there (the guard of `sgc_init`).

`FileStore` is what the API promises, without a card: a tree of files, the
descriptors, the current directory. It says of each call what it answers and
does, when it may fail (its condition does not hold, or it needs space), that a
failed call changes nothing, and which files a power loss spares: all that the
call did not work on and no descriptor had changed since its last
synchronisation. `image` is the state of `FileStore` as a function of the
variables of `SgcApi`; it is kept in a variable only so that TLC evaluates it
once per state, and `VIEW view` leaves it out.

Not every promise of the API is kept. Where the code is known to break one,
`FileStore!Spec` leaves the point open, so that it can be implemented and still
binds everything else, and the promise is an action property of its own at the
end of the module. `AsDocumented` is all four; the run `sgc_documented` shows it
violated, and section 4 each part:

| `FileStore` | promised by | what the code does | left open in `Spec` |
|---|---|---|---|
| `SeekAsAsked` | api_functions.c:109, sgclib.h:18-20 and 81 | switches on the offset, never reads `whence` (api_functions.c:118) | where a seek goes, except 0 from the start, 1 from the place and 2 from the end, which the switch gets right; a seek still saves, keeps every byte and answers its place |
| `SyncStays` | api_functions.c:170 | rewinds (api_functions.c:179) | the place after a sync |
| `ZeroMeansFolder` | srl_devcart_sdcard.hpp:62, 128 | always answers `SGC_FR_OK` (api_functions.c:242, 248) | the answer for what is no directory |
| `ForbiddenIsNegative` | srl_devcart_sdcard.hpp:95, 107 | drops the result, answers the count (api_functions.c:146, 166) | the answer of a read or write that the mode forbids |

### Transfer

The nine handlers over `FatFsBackend`, `File` and `Directory` over `FatFs`; a
request is one action, since the Saturn serves one at a time. `EnsureReady`
and the two flags, `WriteChunks` and `ReadChunks` (a buffer at a time, results
dropped where the code drops them), `ReadEntries` up to `kMaxDirEntries`,
`CloseFile` whatever it answers. A request may meet one failing sector
transfer, or every transfer failing from some point to its end (a card pulled
and put back), or a power loss after any sector write. `last` is the request
and its answer, `content` the tree as the program sees it and as the card alone
holds it; both are left out of the `VIEW`.

## 3. What is checked

Together the passing runs fire every action of every module, and each property of
a passing run is
violated by at least one mutant of the code (a definition with the kind of slip
a programmer makes, kept in the module beside the original).

| Run | Module, cfg | Question |
|---|---|---|
| `framing` | MCHostIo, MCHostIo.cfg | do both ends stay in step, is every request answered, and are they in step again after a host was killed and a new one starts on a quiet link? |
| `resync` | MCHostIo, MCHostIoResync.cfg | does the magic resynchronise them without that? *No.* |
| `read_error` | MCHostIo, MCHostIoReadError.cfg | does a download keep its announced length when the card fails? *No.* |
| `crc8` | MCCrc8, MCCrc8.cfg | is the checksum the CRC-8, however the file is cut? |
| `sd_card` | MCSdCard, MCSdCard.cfg | does the driver survive any card? |
| `sd_store` | MCSdCard, MCSdCardStore.cfg | does the driver implement `BlockStore`? |
| `sd_error_token` | MCSdCard, MCSdCardToken.cfg | is a read answered with an error token reported? *No.* |
| `raw_range` | MCRawRange, MCRawRange.cfg | is the range that is erased the range that was written in the path? |
| `sgc_api` | MCSgcApi, MCSgcApi.cfg | does every call of the file API do what `FileStore` says, and does the volume stay sound? |
| `sgc_documented` | MCSgcApi, MCSgcApiDocumented.cfg | do the calls keep what the API documents of places and answers? *No.* |
| `transfer` | MCTransfer, MCTransfer.cfg | is an acknowledged request on the card, and does a refused or failed one leave the rest alone? |
| `upload_stored` | MCTransfer, MCTransferStored.cfg | does the success byte of an upload mean that the file is stored? *No.* |

**framing.** `Aligned`: whenever the Saturn polls, the next byte is the
first of the next request. `HandledAsMade`: a handler runs only for a request
the host made whole. `RepliesMatch`: what the host reads next is of the kind it
expects and answers its oldest open request. `UploadVerdict`: result byte 0
means the bytes given to `file.Write` are the host's. `EveryRequestAnswered`:
no deadlock of two full FIFOs, as long as the host is not killed.
`AlwaysConsumed`: the Saturn never sits on bytes it does not read, whatever the
host did. All but this one are of a host in step: one that was never killed, or
that started over on a quiet link after it was, at any byte. Two requests are enough for one to be
in the FIFO while the other is handled; capacity 2 has payloads below, at and
above it (0, 2, 3); the input FIFO of two bytes is full in the middle of a
header, the output FIFO of one message blocks every answer; file sizes 0 and 2
and uploads of 0, 1 and 2 bytes have empty and non-empty raw phases. The
payload byte is `S`, the first byte of the magic, so payloads can be mistaken
for headers when framing is lost.

**resync** (finding). README.md:11 says the magic prevents synchronisation
issues. `TryReadRequest` reads seven bytes and drops them as a whole; after a
cut frame the first bytes of the next request complete the old one, and what
follows is not searched for a magic.

**read_error** (finding). `HandleDownload` stops on a read error and sends the
checksum at once, although it has announced more bytes; the host then takes
the checksum and later frames for file data.

**crc8.** All messages of up to three bytes out of {0, 65, 255}, all ways to cut
them into chunks of one or two, one byte disturbed by one of four patterns:
the checksum equals the bitwise one, and a disturbed byte changes it. The run
reaches only some entries of the table; that all 256 are right is the theorem
`TableIsDivision` (section 5). MCCrc8 also compares `ByteXor`, which the module
defines by arithmetic so that it can be proved about, with the bitwise operator
of the community modules on all pairs of bytes.

**sd_card.** Every fault at once: silence, refusals, error tokens, slow
programming, transfers without initialisation, and one removal with another
kind of card put in. `AnswersMatch`: a late answer is never on the line of a
later command. `Released`: however a call ends, the card is deselected and
nothing is pending. `RightBlock`: a card that agreed to a transfer was given
the address of the sector meant, while the driver's capacity bit is that of the
card in the slot. `EveryCallReturns`: every loop has its limit. One poll
(`PollMax = 1`) separates "answered at once", "answered late" and "not at all";
two iterations of the ACMD41 loop separate the first (which may fall back to
CMD1), the last, and running out; sectors 0 to 2 with the ranges <0,2>, <1,1>
and <3,1> have a call over two sectors and one off the card; sectors of two
bytes and three-bit words make byte and sector addresses differ.

**sd_store.** `BlockStore` as a property, two data values, three kinds of card,
every command except CMD58 may go unanswered, any may be refused. The
assumptions are CMD58 answered, no error token, programming within the
driver's wait, the card stays in, transfers only after a successful
`sdc_init`. Section 4 shows that each is needed.

**sd_error_token** (finding). diskio.c:91 says failures must be reported
because FatFs caches the buffer. The wait for the start bit of the data takes
any low bit, that of an error token too, receives 512 bytes and returns OK.

**raw_range.** All paths of up to three characters out of ten, and all
numbers of up to four digits (also hexadecimal) on either side of a colon, with
a 6-bit word (largest number 33, which is no power of either base) and a card
of 9 sectors. `ParsedAsMeant` compares with the grammar `RangesOf` of RawRange: a
path is taken for the range it denotes and refused exactly when it denotes none
that fits. `ErasedInRange`, `OkMeansErased`, `HandleClosed` for failures at
every point, `EventuallyAnswered`.

**sgc_api.** All programs of up to six calls, one power loss anywhere in
them, on a FAT32 card with two FATs and four clusters of one two-byte sector,
two directory entries per sector and four FAT entries per sector. The card is
that small so that six calls fill it: a file of three bytes takes two clusters,
the root directory one, so a second file or a directory meets the full card, and
the third entry of a directory makes it grow. The FAT has two sectors, so a
chain crosses them and the window moves. The six calls are, for instance: init,
make a directory, open, write, rename into it, cut. Two descriptors, three open
modes (read; read and write at the end; create always), a file in the root and
one of the same name in a directory, a directory that is renamed, relative
paths and `..`. `StoreImplemented` is the refinement of `FileStore`.
Seeks have every origin and the offsets 0 to 3, so 3 meets the case in which
`sgc_seek` does nothing. A file is of five bytes at most (`MaxFileSize`, 2^32 - 1
in the code), which an append to three bytes reaches: `f_write` then cuts its
length short. Tables are of four entries at most (`MAX_DIR`), more than six calls
fill; its check is there for a chain that a power loss made circular.
`NoCrossLink`: no cluster in two chains, none free in a chain, in what the
program sees, also when it goes on after a power loss. `NoLostCluster`,
`FreeCountRight` (the kept count of free clusters is the true one) and
`FatCopiesAgree` hold while the power does: after a power loss FatFs promises
none of them (lost clusters are what it trades for no cross-links).

**sgc_documented** (finding). `AsDocumented` is the four promises that
`FileStore!Spec` leaves open (section 2). The cfg has one open mode and no
directory, so that what TLC shows is a seek: in a file of one byte, a seek by 0
from the end answers 0 and not 1. Section 4 shows the other three alone.

*The windows of `torn`.* `NoCrossLink` and `Sound` except three moments at
which a power loss does cross-link, all by the design of ff.c: a rename between
its two entries (ff.c:5174 says so), a truncation not yet synchronised
(`f_truncate` frees clusters at once, ff.c:4889), and a directory that was linked
to a new cluster before that was cleared (ff.c:1796). The model takes these
steps and goes on; only what follows one is excepted. Without the exception TLC
shows each of the three.

**transfer.** All sequences of up to four requests with one power loss and one
request with disk errors, on a FAT16 card with two FATs, a root directory of
four entries and four clusters of two two-byte sectors: an upload of one byte
takes one cluster through the window, one of five bytes takes two clusters with
a direct write of whole sectors and a rest through the window, and the buffer
of four bytes cuts it in two chunks. `Sound`: no cross-link and no file longer
than its chain, in what the program sees and on the card that a power loss now
would leave. `OthersIntact`: no request, completed, failed or cut off, changes
a path that it does not name. `AckedIsDone`: when a remove, mkdir, rmdir or
rename is answered Ok it is done and on the card; an upload without disk errors
that fits is on the card. `ReadsTrue`: downloads, checksums and listings are of
what is there. `RefusedIsNothing`: a request refused without a disk error
changed nothing. `TypeOK` has `g_sgcReady = m_mounted`, and both true exactly
when FatFs holds a volume, also after failed mounts. With `MaxFaults = 2` TLC
found nothing in the 400000 states that fit in the time.

**upload_stored** (finding). handlers.hpp:504 calls the result byte 0x00
success, README.md:16 speaks of safe uploads. `HandleUpload` looks neither at
the result nor at the count of `file.Write`; on a card with too little room the
file is kept in part under a success byte, and the download of it is shorter
than what was sent. No error and no power loss is needed.

**Fairness.** The superloop and the driver are programs that run: weak fairness
of `Saturn` and of `Driver`. A blocking read or write is a disabled action, so
this obliges them to nothing the hardware would not allow. A live host sends
what it began and reads what it is sent (weak fairness of `HostPut`,
`HostReads`), as `ftx` has to; nothing obliges it to ask or to be killed.
`EveryCallReturns` assumes nothing of the card (`Prompt` is empty in that run).
`RawRange` has weak fairness of its whole next step: the parser and the eraser
are loops that run. `SgcApi` and `Transfer` state safety only.

## 4. What happens when an assumption is dropped

Each line is reproduced by the change to the cfg named.

| cfg, change | Result |
|---|---|
| MCSdCardStore: `Prompt = {}` | CMD58 unanswered: `OcrDone` takes `ccs` from a buffer nobody filled (sdcard_packet.c:525); the high-capacity card is used with byte addresses (which the comment at 857 keeps for the others) and another sector is read or written, with success |
| MCSdCardStore: `RawAccess = TRUE` | a raw erase (handlers.hpp:253) does not ask whether the card is initialised: after a second `sdc_init`, which `EnsureReady` makes when `f_mount` failed after the first, cleared `ccs` and failed, the same |
| MCSdCardStore: `SlowWrites = TRUE` | a write times out, and the next read takes the low line of the card, which still programs and hears nothing, for the R1 byte and for the start bit of the data: garbage with success. The bytes clocked before a command (sdcard_packet.c:883) look whether the card is ready, and the command is sent in any case |
| MCSdCardStore: `MaxSwaps = 1` | pulled out while programming: the line goes high, which ends the wait, and a lost write is reported done |
| MCSdCard: `<<4, 1>>` added to `OnCard` (MCSdCard.tla) | `RightBlock` fails: `arg_tmp << 9` (sdcard_packet.c:867) wraps, so on a byte-addressed card a sector number past 4 GiB reaches sector n modulo 2^23; a raw erase there erases a sector at the start of the card and reports success |
| MCSgcApi: `PROPERTY SyncStays` | a sync after a write rewinds, and the next write goes over what the first wrote |
| MCSgcApi: `PROPERTY ZeroMeansFolder` | `sgc_chdir` and `sgc_opendir` answer 0 for a name that is not there |
| MCSgcApi: `PROPERTY ForbiddenIsNegative` | a read through a descriptor opened for writing answers 0, documented as the end of the file |
| MCTransferStored: `INVARIANT SyncMakesFolder`, `Clusters = 2` | handlers.hpp:690 says "Ensure target folder exists"; on a full card `f_mkdir` fails, its result is dropped and the sync is answered Ok |

Two more observations: after a packet failed the green LED stays on
(sdcard_packet.c:1007, compare the comments at 808 and 1259), and
`IsRawRootPath` accepts `sdraw:/` only, while Tests/src/testHostIO.hpp:792-793
asserts two other spellings.

## 5. What is proved

`HostIoProofs`, `HelperProofs` (of `RawRange` and `Crc8`), `SdCardProofs`,
`FatFsProofs`, `FatVolumeProofs`, `SgcApiProofs`, `TransferProofs` and
`NaturalRecursion`, for every value of the constants that satisfies the named
assumptions of the modules and those a theorem states itself.

**Induction over data.** The library's induction theorems take a predicate as a
parameter, which the provers here cannot instantiate; its theorem that a set
with a well-founded relation has minimal elements takes only sets.
`NaturalRecursion` derives from it induction for sets (`SetInduction`,
`BoundedInduction`), that a primitive recursion has a solution
(`RecursionExists`) and that two which begin and go on alike agree
(`SameRecursion`). With these, what the recursive functions `Checksum`,
`Crc8Update` and `Value` compute is proved for data of every length.

**HostIo.** `HostIoProofs!TypeCorrect`: `Spec => []TypeOK`. More than types: no
length counter runs below zero and no byte is read that was not put. `TypeOK`
alone is not inductive. `TypeInv` adds `Registers`, what the Saturn's loops
know: `need` is positive while payload or data are read, the header buffer is
shorter than a header while one is read and complete when it is dispatched, a
reply is left exactly while one is written. The steps are grouped into the
Saturn's reads, its handlers and the host, one case per action, with a lemma
for each operator that builds bytes or messages. Assumes `CapacityAssumption`,
`HostInputAssumption` and `CrcAssumption`.

**HostIo: in step.** `FramesAligned` (`Aligned`), `RequestsHandledAsMade`
(`HandledAsMade`), `AnswersMatch` (`RepliesMatch`) and `UploadsJudged`
(`UploadVerdict`). All assume
`~ReadErrors`, since `InStep` needs it: the run `read_error` shows an answer that
is shorter than announced, after which `RepliesMatch` is false. They hold for a
host that is killed and starts over on a quiet link. The inductive invariant is
`InStep`: unless the host was cut off and has not started over,

- `Layout`: the requests of this life of the host lie in the stream one after the
  other, each with the bytes of its header, its size and its file in place. The
  Saturn sees only bytes, so without this nothing follows from what it reads.
- `Uploading`: an upload is the last request until its result is in, and its raw
  phase is sent only after the Ok. So the file is never taken for a request.
- `Place`: where the Saturn stands in its request in each loop (`InFrame`,
  `RawPhase`, `Writing`), with what its buffer and the file hold of it.
- `Replying`: what is left of an answer is of the current request, and numbered.
- `Channel`: from the message the host expects to the one the Saturn writes
  next there is one row of messages without a gap. This is what `RepliesMatch`
  needs: the host tells frames from raw bytes by counting only.

`HostIoProofs` proves it for the Saturn's steps first, then for the host's.
`UploadsJudged` adds `Summed`, the running
checksum is that of the bytes given to `file.Write` (one more byte is one more
step: `ChecksumGrows`), and `Verdict`: while the host waits for the result, the last byte
of the stream is the checksum it sent, and the byte the Saturn is about to write
tells whether the two agree. The lemma `FileArrived` makes those bytes the
host's. So an upload is acknowledged exactly if the checksum sent is that of the
file, for files of any length; what such a checksum is worth is the next
paragraph. TLC checked `InStep` on the instance of
`framing` before it was proved.

**Crc8.** Over messages of any length, chunks of any size, any bytes and any
disturbance of one byte: `CrcTypeCorrect`, `InPiecesAsAWhole`
(`ChunkingIsIrrelevant`) and `OneByteErrorsFound` (`OneByteErrorDetected`). One
shift of the division by the polynomial keeps exclusive sums (`ShiftLinear`, bit
by bit) and is injective, so eight are too. `TableIsDivision`: each of the 256
entries is the remainder of its index, since the entry at 0 is, and the entries
at 2x and 2x + 1 follow from the one at x. Hence a step of `Crc8Update` is the
bitwise step and loses neither argument (`StepIs`, `StepInjective`), its checksums
join (`UpdateJoins`), and from one differing byte on all checksums differ
(`OneByteDiffers`). The inductive invariant is `Summed`: each end's checksum is
`Crc8Update` of all its bytes. Assumes `DataAssumption`. `CrcAssumption` of
HostIo, where the step is a constant, is the first half of `StepIs`.

**RawRange: the parser.** `ParsedRight` (`ParsedAsMeant`): a path of any length is
accepted exactly for the range `RangesOf` gives it. The grammar says nothing of a
cursor. Its invariant `ParseInv` says that what was read so far is the `Value`
of the digits before the cursor (so an overflow means that the number of the whole
run does not fit, `OverflowMeansNothing`), and that the number ahead is the one of
the grammar (`ScanAgrees`), whichever of the two notations it is in.

**RawRange.** The lemma `OverflowTestExact`: the division test of `TryParseU32`
refuses a digit exactly when the exact result does not fit. `TypeCorrect`: so
no number of the parser or the eraser ever leaves its 32-bit word.
`EraseCorrect`, and its parts `OnlyTheRange`, `SuccessIsComplete`,
`HandleNeverLeft`: `ErasedInRange`, `OkMeansErased` and `HandleClosed` are
invariants. The inductive invariant says that while the handle is open it
stands at `startSector + i`, and the erased sectors are exactly those from
`startSector` up to there. They assume `WordAssumption` and `PathAssumption`.

**SdCard: the packets.** `TypeCorrect` (no polling loop passes its limit),
`AnswersAreForTheirPacket` (`AnswersMatch`) and `EveryCallReleasesTheCard`
(`Released`), for every kind and timing of the card, faults and removal
included. None of the three is inductive. `IInv` adds `Link`, what is on the
line at each place of `sdc_sendpacket`: nothing is under way before a command
is sent and after a packet (`Quiet`); while the header is awaited either the
card has not decided, or the header and what follows it are on the line, of
this packet (`InHeader`, `InData`, `InPut`); a job the card has agreed to is
that of a transfer command (`JobKnown`). `Quiet` is where the hazard is: every
exit has to deselect the card, and a card that is deselected drops its answer.

**SdCard: the address.** `TheRightBlock` (`RightBlock`), under `NoWrap`: the byte
address of no sector of a call is over the word. The invariant `Addressing` is
that the argument the card holds is the one of the packet under way, and that a
job is for the block that the argument names to a card of its kind.
Without `NoWrap` the theorem is false (section 4).

**SdCard: the store.** `ImplementsStore`: `Spec => StoreImplemented`, under
`Reliable`, which is the list of section 4 as a formula: `NoWrap`, CMD58 is
answered, no error tokens, no slow programming, no transfer before a successful
`sdc_init`, the card stays in. The initial state and every step map to one of
`BlockStore` or to a stutter; the reads of a call map to one step at `Return`,
each programmed sector to one of its own. What makes it true is `StoreInv`:

- `Programming`: the card programs the sector of the call that the driver is at,
  and only while the driver waits for it.
- `Progress`: the sectors of the call before that one are done.
- `PoweredUp`, `CapacityLearned`: `ccs` is the bit of the card. The subtle case
  is a card that ran out the ACMD41 loop: the driver goes on as if it were
  ready, takes a capacity bit that is not valid yet, and would mount it
  with byte addresses. It never does, since the structure bits of such a card's
  CSD, which it does not send, are still those of an earlier packet in
  `stat_reg_buffer`, and these make `CsdDone` refuse it.
- `Mounted`: a transfer runs only on a card that passed all this.

`StoreInv` was checked by TLC on MCSdCardStore before it was proved.

**FatFs: the calls.** `FatFsProofs` proves of each function
of `ff.c` that the program calls, for every geometry that satisfies
`GeometryAssumption`, what it keeps. A card is any function to sectors in
which each holds what belongs at its place (`Cards`): its FAT and its tables may
say anything, chains that lead in a circle or into free clusters included, since
the proofs must also hold on what a power loss left. `CallSet` is what a call
record can be. `Good(q)` are the records of a mounted volume, where `q` stands
for "no transfer has failed and none will": then also

- the volume is `Healthy`: the two FATs on the card agree, and a FAT sector in the
  window is the card's unless `wflag` is set. The second part is what makes the
  first inductive: `sync_window` writes the window to both.
- it is `Counted`: `fs.free` is the number of free entries of the FAT as seen
  through the window. The steps between a change of the FAT and the change of
  the count are `Steady` only. This is where `remove_chain` and `create_chain`
  need care: `put_fat` of a free cluster to a used one is minus one exactly if
  the entry was 0 before (`RemoveChainKeeps` has a hypothesis for the cluster it
  cuts behind); `FreedAre` counts the free entries after a change of one, and
  `CountFreedKeeps` says what the code makes of its own count.

`Fine(q)` adds `FileOK` of the file object: unless an error stays with it, its
pointer is within its size and, inside a sector, `sect` is a sector of the data
area; its entry is in the table area. Without it `f_sync` could write the entry
to a sector of the FAT. The theorems are `RemoveChainKeeps`, `CreateChainKeeps`,
`SyncFsKeeps`, `DirNextKeeps`, `FollowPathKeeps`, `UnlinkKeeps`, `MkdirKeeps`,
`RenameKeeps`, and `FOpenKeeps`, `FReadKeeps`, `FWriteKeeps`, `FLseekKeeps`,
`FTruncateKeeps`, `FSyncKeeps`, `FCloseKeeps`: the call is `Good` or `Fine` again,
for paths, lengths and offsets of every size. A loop of the C code is a function
of the number of rounds (`Rounds`); `LoopRuns` makes it the solution of a
primitive recursion on a set that the turn keeps, and `BoundedInduction` carries
the set to the last round.

**FatFs: the volume.** `FatVolumeProofs` proves what the calls keep of chains and
entries. `NoCrossLinks` and `SizesCovered` of `FatVolume` follow the chains of all
files from the root down. A step of FatFs changes one FAT entry or one slot of a
table, so the proofs say them in these terms; `Kept(m, P, X)` of a card m is

- `FatSound`: no two FAT entries point to the same cluster, and none to a free one.
- `EntriesSound`: what a slot of any table names is the first cluster of a chain,
  to which no FAT entry points (`Rooted`), long enough for the size in the slot;
  no two slots name the same. This is asked of every sector of the table area,
  whether a directory has it or not: a sector of data holds no entry, and a freed
  directory is not told from one in use.
- `Owned`: the clusters P begin chains that no slot names. P is a chain being
  built or freed; X are slots left out of account, that of an entry being renamed.

From this `KeptIsSound` leads back: two chains with different first clusters never
meet (`WalkBack`: where they meet, the predecessors are the same, back to a first
cluster), a chain is never longer than the card has clusters, and the entries of
all directories are slots of `EntriesSound`. `Sane(v, P, X)` says it of a call:
the volume as seen through the window is `Kept(.., P, X)`, the card and every card
left on the way (`media`) is `Kept(.., {}, X)`, so a power loss does no worse than
lose P; and the window is true (`WinTrue`). Three kinds of step compose:
`SameStore` (nothing is written), `Looks` (what is written was seen already),
`Works` (`Sane` stays, for every P and X, and no chain is cut). `dir_next` that
adds a cluster to a table, and `create_chain`, are the interesting ones: the new
cluster is an end of chain before anything points to it (`LinkedSane`), and a
chain that is freed loses its entry first (`RemoveObjectSane`; `FreeOneSane` moves
P along the chain).

The calls: `UnlinkSane`, `MkdirSane`, `OpenWriteSane`, `FWriteFills`, `FCloseSane`
and, since `f_open` for reading, `f_read`, `f_readdir` and the rest only look,
`FReadPeeks`, `ReaddirLooks`, `OpenReadLooks`. While a file is written its entry
still has no cluster; `Filling` is that its chain, in P, is as long as what was
written (`Built`), which also an error and a full card leave true, so that
`f_close` may save cluster and size together. `RenameRests` is about a rename that
meets no disk error: between its two entries both name the chain (ff.c:5174), and
an error there leaves them so. It, and `f_unlink`, take a name that marks no slot
as free. `f_truncate`, `f_lseek` past the end and writing to an old file break
`Kept` until the next `f_sync`; the handlers do none of them.

**SgcApi.** `CopiesAgree` (`FatCopiesAgree`) and `CountIsRight`
(`FreeCountRight`): while the power holds, the copies of the FAT agree and the
count is right after every call, also after one that was refused, filled the card or left
an error, for any number of descriptors and calls. Neither is inductive. The
inductive invariant `SgcInv` is

- `MountInv`: a call on the present card and volume would be `Good(cuts = 0)`; or
  nothing is mounted, and the card is fresh while there was no cut.
- `CardInv`, `FilesInv` (every file object is `FileOK`), `DirInv`. These hold
  across power losses: a cut leaves one of the cards of `media`, each of the
  form of `Cards`, and after it `q` is false for good.

It assumes `GeometryAssumption` and `ClientAssumption`. `MountIs`: a mount writes
nothing and has its count from FSInfo, which on a fresh card is right
(`FreshCount`); if it fails, which takes a failing transfer, there is no volume.

**Transfer.** `TypeCorrect` (`TypeOK`): whatever transfers fail, for one access or
for the rest of the request, and wherever the power is lost, the card keeps its
form, a dirty window is one that can be written, and `g_sgcReady`, `m_mounted` and
`fs_type` agree. `TypeOK` says nothing of what FatFs relies on; the inductive
invariant is `TransferInv` (`TransferAlways`): the flags say that a call on the card
would be `Good(Quiet)`, `Quiet` being "no request has met an error and the power held";
or no volume is there, and the card is fresh while all was quiet. Each handler is
shown to lead from a call record that a request can start with (`Begins`) to
an `Outcome`: mounted and `Good`, or a mount that failed and left nothing to
write. The loops over chunks, buffers and entries run in `Fine(q)`, `Reads(q)` and
`Lists(q)`; in the last, `AtOrPast` says that the DIR between two
`f_readdir` is at an entry of its table or past the last one. It assumes
`GeometryAssumption` and `TransferAssumption`.

**Transfer: the volume.** `TransferSound` (`Sound`): between any two requests, for
every card, any number of requests, failed transfers and power losses, no cluster
belongs to two files or directories and no file is longer than its chain, in what
the program sees and on the card. `Sound` is about what can be reached from the
root and is not inductive. The invariant is `TransferInv` and `SoundNow`: unless
`torn`, the card and the volume as seen are `Kept` with nothing unnamed, and if
mounted the window is true. Each handler leads from `Starts` to `Ends`, and all
but a rename to `Leaves`, which is what a power loss finds. The exception `torn` is
needed for the rename only, and the model sets it only when a rename meets a disk
error or a power loss. It also assumes `NamesAssumption`: the last name of a path
marks no slot as free or deleted, and that of a file is no dot name, as
`create_name` makes them (ff.c:3044). A dot name would let an upload replace the
dot entry of a directory, whose cluster is named twice by design.

Only model-checked: the liveness properties (fairness and ENABLED are beyond the
prover); `SgcApi`'s `TypeOK` (its bound on the sizes of files depends on the
number of calls), `NoCrossLink` (a client of the file API may write to an old
file, seek past its end and cut it, with several files open at once: then `Kept`
has to speak of the file objects too), `NoLostCluster` (which needs the converse
of `Kept`, that every chain has a name) and the refinement of `FileStore`, which
is about the bytes that chains hold; and the action properties of `Transfer`, for
that reason.

## 6. What is not modelled, and why

The map covers the code that runs in this configuration and keeps state, which
is a small part of the lines of the repository:

- `ffunicode.c`, more than half of all lines: conversion tables that
  `FF_USE_LFN = 0` leaves out, no state. `ffsystem.c`: hooks of
  options that are off.
- In `ff.c` about two thirds of the lines are compiled out (long names, exFAT,
  GPT, locks, several volumes, `f_mkfs`, `f_fdisk`, string functions); of the
  rest `f_getfree`, `f_chmod`, `f_utime`, `f_findfirst` and the label functions
  have no caller here. The FAT12 arithmetic of `get_fat` and `put_fat` is left
  out: a card of 4085 clusters or fewer is not one this program meets.
- `log.c`: compiled out. The samples other than the file transfer: screen and
  pad code. `srl_devcart_sdcard.hpp`: forwards each call and keeps no state, but
  documents return values that the calls do not keep: those of `fs_chdir`,
  `fs_opendir`, `fs_read` and `fs_write` are in `AsDocumented` (section 2), and
  `fs_getcwd`, documented to return 0 on success, returns the length of the
  path. The tests
  were read as statements of intent.
- The SRL core, `CS0` and the cartridge's registers are not in the repository;
  they appear as the FIFOs and the line.
- `GetCurrentDirectory`, `ChangeDirectory`, `File::Seek`, `Sync`, `Truncate` of
  the backend have no caller in the handlers. A card exchanged while it is
  mounted is no action of `Transfer`: `disk_status` always answers 0, so FatFs
  cannot notice, and nothing in the repository promises anything.
- In the modelled parts: texts of responses, the LED of a failed packet apart
  from its state, CRCs on the SPI line, the multi-block and erase commands of
  `sdc_sendpacket` (nothing calls them), the sector of a DIR after an error of
  `dir_next` (ff.c:1775 has advanced it by then, the model has not; no caller
  goes on with a DIR after an error), a rename payload without its second NUL
  (handlers.hpp:380 reads on in an uninitialised buffer).

## 7. How the project grew

| Module | Composes | Checked | Proved |
|---|---|---|---|
| `HostIo` | | framing, answers, liveness | types, framing, answers, verdicts |
| `Crc8` | | table, chunking | table, chunking, one-byte errors |
| `SdCard`, `BlockStore` | SdCard implements BlockStore | faults, refinement, termination | types, answers, release, address, refinement |
| `RawRange` | | parser, erase | types, parser, erase |
| `FatFs`, `FatVolume` | FatFs over the sectors that BlockStore promises | through its two clients | the calls keep the form of the card, the copies of the FAT, the free count; those of the handlers keep the volume sound |
| `SgcApi`, `FileStore` | SgcApi over FatFs implements FileStore | refinement, soundness, power loss | copies of the FAT, free count |
| `Transfer` | handlers, backend, FatFs | acknowledgements, errors, power loss | types, form of the card, mount flags, soundness of the volume |

Open: `Kept` with the chains of open files, from which `NoCrossLink` of `SgcApi`
would follow; that every chain has a name, for `NoLostCluster`; what a read
returns, per call, as a theorem about `f_read`; an abstract file store for
`Transfer` of its own; two power losses, or a fault and a loss in one request, at
the sizes of section 3.
