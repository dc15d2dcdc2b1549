# A verification project for the DNS statistics device

The repository is an FPGA design (Terasic DE2-115) that taps an Ethernet link, picks
the DNS packets out of it, counts them per domain name in SDRAM and sends what it has
counted over RS232 to the host, with scripts that read the dump, plot the most queried
names and tell from captures how large the map has to be.  This directory holds TLA+
modules of the parts that its authors wrote or depend on most, TLC configurations that
check them on small instances, and TLAPS proofs: for the storage machine alone and on its
memory, the SDRAM controller, the dump of a cell and the visualizer.

Commands, from this directory:

    tlc -workers 2 -config MCStorage.cfg MCStorage      # any run of the tables below
    tlapm Storage_proofs.tla                            # any *_proofs module

## 1. The system

    MAC 0 -> axis_tap -> axis_async_fifo -> eth_axis_rx -> ip_eth_rx -> udp_ip_rx
      |      (copy)      (125 -> 133 MHz)                                  |
      v                                                                    v
    MAC 1 (bridge)              storage  <--- analyzer  <---------------- dns_ip_rx
                                 |  |  |
                        sbdm2048 +  |  +---> uart_fifo -> uart_tx -> RS232 -> serial_tester.py
                                    v
                             sdram_controller -> SDRAM chip

    (storage -> sdram_controller and storage -> uart_fifo are what the comments of
    fpga_core.v say; its text leaves both joints open, see section 5)

    dns_sim.ino (stands in for the device) -> RS232 -> serial_reader -> database
                                                           data.csv <------+
                                                              +---> visualizer

Everything right of the FIFO runs on one clock, `clk_dram_c`; the parts speak by
valid/ready pairs and, between `storage` and the memory, by a Wishbone bus.  The device
has no software: concurrency is that of registers which all step on the same edge and
see each other one edge late.  The visualizer is a program of two threads that share a
file.

| part | source | state | operations | what makes it correct |
|---|---|---|---|---|
| storage | `storage.v` | a state machine of 37 states, packet registers, two address counters, six statistics | take a packet, find or make its cell, update statistics, append A / AAAA / CNAME records and the querying host, offload a cell, zero the memory | a packet is counted once under its own name; no write lands in the region of another kind; the machine gets back to idle |
| hash unit | `sbdm2048.v` | state, counter, hash | hash 255 bytes, one at a time | the sdbm hash of the name that is shown, all of it |
| SDRAM controller | `sdram_controller.vhdl` | state, command register, wait counters, refresh timer | initialise, refresh, read, write | acts as a memory, answers every request, refreshes in time |
| test bench memory | `fpga_core_tb.v` | state, counter, array | read, write after four edges | the same, without refresh |
| receiver | `lib/dns_ip_rx.v` | state, header, one packet of 511 bytes | accept a header, collect the payload, show it | a complete DNS packet is shown as sent |
| analyzer | `analyzer.v` | state, one packet as shift register, record registers | header, question, records, result | the result is what was in the packet, and holds still |
| serial port | `uart_fifo.v`, `uart_tx.v` | FIFO of 1024 bytes, shift register | queue and send a byte | order; no byte twice, none lost that was taken |
| dump reader | `serial_tester.py`, `serial_tester_update.py` | the block that is read | read a block, print its fields | a field is what the device stored there |
| visualizer | `visualizer/*.py`, `dns_sim.ino` | a top-N list, the serial buffer, a file shared by two threads | push, export, read, plot, close, start again | the list is the top N; the plot shows whole exports and the last one |
| map prediction | `dns-parse-sim/domainhash.py` | none | hash the domains of a log | predicts the device's buckets |
| log summary | `dns-parse-sim/log_file_parse.py` | a table per domain, totals | one line of the log at a time | the table is the summary of the log |
| stream library | `axis/*.v`, `axis/*_wrap.py` | output and temporary registers, grants | mux, arbitrate, broadcast, route | words neither lost, repeated, reordered nor mixed; no port starves |
| tap, FIFO | `axis/axis_tap.v`, `axis/axis_async_fifo.v` | pointers in two clock domains | copy and cross | order; whole frames or none |
| eth, ip, udp receivers | `lib/*_rx.v` | header registers | strip a header | framing |
| the rest | MACs, Quartus outputs, `dns_parse.c`, `sha1*` | | | not part of the path |

What is hard here is not in any single state: it is long sequences of accesses that must
leave two counters in step, an acknowledge that outlasts its request, a register that is
cleared or counted down while a neighbour still reads it, computed slices that leave a
register, regions that run full, ways back to idle that do not exist, a receiver that is
slower than its sender, and a file that is read while it is rewritten.  The list of
hazards, with the line of each, is in `PROJECT.json`.

## 2. The modules

| module | models | kind |
|---|---|---|
| `Storage` | `storage.v` | one action per state, or per branch of a wait state that is acknowledged; open to any memory, packet source, hash unit and UART |
| `StorageInvariants` | | invariants of `Storage` alone, and `IInv` |
| `Storage_proofs` | | theorems on `Storage` |
| `StorageTable_proofs` | | theorems on the machine with any memory that keeps its word: the contents of the memory, the counts, and how the machine behaves as the master of a bus |
| `StorageBench_proofs` | | what the machine works with on its bench: the memory of `StorageRam`, which keeps its word, and the serial port of `SerialDump` |
| `StorageSdram_proofs` | | that the SDRAM keeps its word, and what follows for `StorageSdram` |
| `Sbdm2048` | `sbdm2048.v` | one step per edge, its neighbours are parameters |
| `StorageTable` | | the machine with its hash unit and the handshake of the parser; what the memory contents mean; the promises on any memory |
| `DomainTable` | | abstract: counters per domain name |
| `DomainHash` | `dns-parse-sim/domainhash.py` | operators: the bucket that the script predicts |
| `StorageRam` | `fpga_core_tb.v` | `StorageTable` with the test bench memory |
| `SdramController` | `sdram_controller.vhdl` | one step per edge, the bus is a parameter |
| `SdramBus` | | the controller with a master that behaves as `storage.v` does |
| `WordMemory` | | abstract: a memory of words |
| `StorageSdram` | | bench: `StorageTable` joined to `SdramController`, which no file of the repository does |
| `DnsIpRx`, `Analyzer` | `lib/dns_ip_rx.v`, `analyzer.v` | one step per edge, neighbours are parameters |
| `Ingress` | `fpga_core.v`, `lib/udp_ip_rx.v` | both and the hash unit, between a source and the handshake of the storage machine |
| `PacketPipe` | | abstract: packets are delivered once, as sent |
| `SerialDump` | `uart_fifo.v`, `uart_tx.v`, `serial_tester*.py` | the offload of `Storage`, the UART and the script at the other end |
| `Database` | `visualizer/database.py` | one action per branch of `push` |
| `Visualizer` | `visualizer/serial_reader.py`, `visualizer.py`, `main.py`, `dns_sim.ino` | board, driver, thread, file and plot around `Database` |
| `Scripts_proofs`, `Sdram_proofs`, `Ingress_proofs`, `Fabric_proofs` | | theorems on `Database`, `Visualizer` and `LogFileParse`, on `SdramBus`, `Ingress`, `Fabric` |
| `LogFileParse` | `dns-parse-sim/log_file_parse.py` | one action per kind of line |
| `AxisStream` | `axis/*.v` | operators: the output stage with its temporary register, which the modules share |
| `Arbiter` | `axis/arbiter.v`, `priority_encoder.v` | operators: the arbiter that two of the modules hold |
| `ArbMux`, `Mux`, `Broadcast`, `Demux`, `Switch` | `axis/axis_arb_mux.v`, `axis_mux.v`, `axis_broadcast.v`, `axis_demux.v`, `axis_switch.v` with `axis_register.v`, and the wrapper of each | one step per edge |
| `Fabric` | | bench: sources, a mux, broadcast, demux and sinks; or sources, switch and sinks |
| `FrameSwitch` | | abstract: what either bench promises |

`MC*` modules give the constants of the runs.

**Storage.**  A step is a clock edge.  A request state (`CHECK_CELLS`) drives the bus, the
wait state after it (`CHECK_CELLS_WAIT`) keeps everything until `wb_ack_i`; the actions
named `Answer...` are its acknowledged branch, and its other branch is a stuttering step
in `Storage` and an explicit `Wait` in the compositions.  Words are numbers with an upper
and a lower half, because `ans_addr_reg` is misaligned by half a word; a slice that
leaves a register returns a set of possible words.  The layout of a cell (64 words of
name, flag at 64, six statistics, A from 128, AAAA from 512, CNAME from 768, hosts from
1024) is a parameter under `LayoutAssumption`.  Registers that are copied and never used
are left out.  The 25-bit address is the record `[row, cell, word]`.

**Storage with its neighbours.** In `StorageTable` the name register is the bytes that
`sbdm2048` reads, and `parser_valid` is wired to both units, as in the source; the machine
leaves HASHING when the unit raises `qname_ready`. `StorageRam` and `StorageSdram` step
machine, unit and memory together on the values before the edge. The joint in `StorageRam`
is that of the test bench (`fpga_core_tb.v`, on the ports `ext_sdram_wb_*`); the one in
`StorageSdram` is ours: it says what the two parts would do if they were joined as the
comment at `fpga_core.v:973` has it. `ShowIn` names the states in which the parser may show
the next packet: the runs use IDLE, and what happens when a result comes while the machine
hashes is the run `packets_overlap`. `Domains` is what `domainhash.py` is asked about. The
four wait counters of the controller are one variable: each is loaded in the state before
the wait state that looks at it, and looked at nowhere else. The chip is modelled as the
controller uses it: one open row, a column access works on the open row, data two edges
later.

**Ingress.**  A token stands for the bytes that one state of the parser reads (a header, a
byte of a name, a type, an address), so that the shift register is a short sequence.  The
parser's tests on the packet's bits become tests on tokens; which tokens count as a header
with questions or answers is a constant.  `parser_ready` follows the states of `storage.v`
that differ in it.  Inputs are those the parser is written for: answers with compressed
names (`0xC0`), CNAMEs without compression, EDNS records, record counts below the capacity
of the counters, and datagrams whose UDP length says more than the frame holds (the
receiver has a branch for them).

**SerialDump.** A bench as well: `fpga_core.v` leaves the machine's bytes on `ext_uart_*`
(1065-1067) and `axis_uart` on undriven wires (868-870); here the two are joined. Word k of
the cell is the number k, and a byte is known by its place, so that the position of every
byte on its way can be told. The machine is `Storage` itself, started at the offload. A
frame on the line takes any time, a word from the memory too. The scripts read blocks; the
fields are the slices of the source, against the regions of the cell.

**Visualizer.**  A push is one step, because only the reader's thread uses the list; what
interleaves is the file: opening it truncates, closing it makes the contents appear.  A
token is a part of a line (url, separator, digit, newline) that the driver keeps or loses
when its buffer is full; `readline` returns at a newline or with what there is after its
timeout.  Exceptions end the thread.  The program may be killed, its window closed, and it
may be started again while the thread of the first one still has the port.

**LogFileParse.**  A packet of the log is the lines that `dns_parse.c` prints of it, and a
line its kind and those strings the script looks for.  A use of a variable without a value
ends the script (`NameError`).

**Fabric.**  No file of the repository connects these library modules; the bench composes
them as their wrapper scripts generate them, with frames, ids and destinations enabled,
`UPDATE_TID` and `TDEST_ROUTE` set.  `bench` says which: a chain that begins with the
arbitrated mux, or with the mux that has a select input (`select` and `enable` may then be
anything at any edge), or a switch alone.  The switch has the wrapper's own defaults: the
port in the whole of `tdest`, all connections, no registers at the inputs and skid buffers
at the outputs, which are the output stage of the other modules.  `FrameSwitch` is the same
for all three, but that a chain has a monitor at which all frames pass, and the outputs of
a switch have nothing to do with each other.

## 3. The runs

| run | properties | question | distinct states |
|---|---|---|---|
| `storage` | `TypeOK` and 7 invariants, `IInv` | does the machine alone, on a memory that answers anything, write only what and where it should? | 537,278 |
| `storage_ram` | 3 invariants, 3 step properties, refinement of `DomainTable`, 2 liveness | is it, with its hash unit on the test bench memory, a table of counters that works every packet off? | 51,789 |
| `sdram` | type, rows and refresh; refinement of `WordMemory`; answer | is the controller a memory for this master? | 97,008 |
| `storage_sdram` | own answers, refinement of `DomainTable`, records | would it still be the table when joined to the SDRAM controller? | 127,582 |
| `ingress` | type, refinement of `PacketPipe`, hold, liveness | are datagrams delivered as sent? | 4,736 |
| `visualizer` | list, top, whole exports, liveness | does the plot show the top of what came? | 681,833 |
| `dump` | order, arrival, fields | does the host read what the cell holds? | 250,868 |
| `logs` | summary | are table, totals and figures those of the log? | 347,363 |
| `fabric` | refinement of `FrameSwitch`, no starvation | do chain and switch keep frames whole and serve everybody? | 50,979 |

Three more runs show where the code does not do what its comments say; each one's cfg has
the single property that fails.

| run | what fails |
|---|---|
| `offload_hangs` | `EveryOffloadEnds`: reset enters IDLE and not ZERO (`storage.v:1458`), so that the first packet is looked up in what the SDRAM holds at power-up, which line 331 calls garbled.  Where every flag is set and no name matches, the offload of `storage.v:524` (likewise `880`, ...) begins with the strobe down and never ends.  Only the planned offload of line 374 raises it |
| `records_lost` | `RecordsKept`: the scan for hosts starts in the AAAA region after an append (`storage.v:1090`), and what is appended as an A record is half of one and half of the next (`913`, with 16 padding bits at `417`) |
| `packets_overlap` | `PacketLeaves`: two datagrams in succession.  The second is cleared while it waits for the parser (`dns_ip_rx.v:170`); the parser goes round on zeroes as it does on any question without answers (`analyzer.v:572`); and a result that is shown while the machine hashes keeps the hash unit starting again (`sbdm2048.v:55`) |

Other places where the code falls short, found with the same modules and left out of the
inputs of the passing runs (a line of the list of hazards each):

* A name that is the tail of a stored one, cut at a word, is counted under the stored one
  (`storage.v:505`): with such a name among `Packets`, `StatisticsOfTheName` fails.
* On the SDRAM controller the offload takes each acknowledge twice, as it lasts two edges
  (`storage.v:1399`, `sdram_controller.vhdl:314`): `OffloadReadsInOrder` is a property of
  `storage_ram` only.
* `CellTakenIsFree` holds because two packets between zeroings never meet a used second
  cell: with `OffloadAfter = 3` and three cells the probe after a mismatch
  (`storage.v:533`) looks at a word of the name instead of the flag and overwrites a used
  cell.  The line that sets 2 (375) is called a debug aid in the source.
* With `LastLate = TRUE`, a pause before the last byte of a datagram, `PacketLeaves` fails
  (`dns_ip_rx.v:134`).
* The offload sends what the UART takes and leaves out the rest (`storage.v:1421`); it may
  send stray bytes before the first word (`1430`, when the last packet left `data_count`
  below 4) and its last byte again and again while the memory is zeroed (`1399` leaves
  `uart_valid` high).  The machine sends 2046 words, and `serial_tester.py` waits for 2047.
  `TesterReadsTheCell` is therefore about dumps that are `clean`, and `BytesInOrder` about
  order, not about completeness.  The slices of the script leave out the last byte of each
  statistic and the last word of each region; with the word size of
  `serial_tester_update.py` (2) all fields but the name are taken from other words.
* `log_file_parse.py` knows packets of two months only, and gives the lines of others to
  the packet before; SOA answers count as IPv4 addresses; an answer in a query goes to the
  name of the last response, and stops the script when there was none.  `SumsTheLog` is
  about logs that are `Regular`.
* All names share row 0: `storage.v:446` throws the hash away, although line 436 gets it
  "for use in addressing" and `domainhash.py` predicts a bucket for each domain.  That the
  unit's hash is the one of the script (`HashIsOfTheName`) is of no use to the machine.
* `domainhash.py` says that it takes the names of CNAMEs too; the code takes questions only.
* Priority arbitration, which is the wrapper's default, starves a port: `NoStarvation`
  holds for round robin.

### Bounds

* `storage`: two rows of two cells, two words per name, half-words of two values, up to
  three records of a kind, an offload after each packet.  The memory answers any word;
  `Bounded` restricts only the six statistics (0 or 3) and the word that is offloaded,
  whose values no branch tells apart beyond "is there space".  Each region has at least
  two slots, so a scan can find, append and run out.  Reset may come at any edge.
* `storage_ram`: one row of two cells, as every name goes to one row; names of one label
  that share their last word, as domains under one top level do; packets with each kind of
  record, alone and mixed; an offload after two packets, as in the code.  A name register
  of four bytes and a hash of six bits with shifts 1 and 3: enough for a byte to be missed,
  taken twice or kept from the name before.  `Latency` is 1 instead of 3: it only counts.
  A cell has 30 words, so that the CNAMEs of two packets fit, as they do in the code.
* `offload_hangs`: eight cells and an offload after two packets, as in the code; every word
  of the memory is a one at power-up, and one packet is enough.  From a memory of zeroes
  line 524 is not reached: two packets take two cells, and the offload comes.
* `sdram`: one bank, two rows, one column and one-bit words, so that the right and the
  wrong row can be told apart; counters of one to three edges and a refresh every 20.
  (Two banks were checked as well.)  `MinRest` is the smallest that `RestAssumption`
  allows: the machine rests at least 256 edges, while it hashes, before it may use the bus
  for something that is not sequenced by an acknowledge.
* `storage_sdram`: the chip starts with zeroes; 16 bytes are hashed instead of 256.  The
  time matters: with a unit that is done at once, the last, repeated access of a packet
  answers the first probe of the next one.
* `ingress`: eight datagrams, with each record kind, mixed, at the capacity of three A
  registers, without question, unknown type, wrong port, and too long a length.
  `NextAfter = "storage"` is a restriction of the environment, not of the code: the next
  datagram comes when everything before it is done.  `packets_overlap` is the same without
  it.
* `visualizer`: three names, a list of two, so that entries are cut off and come back; a
  buffer of five tokens for lines of four, so that a line loses any part; three lines and
  one second start.  The file is empty at first, as in the repository, or of an earlier use.
* `dump`: a cell of 13 words of two bytes, one or two words per region, behind a FIFO of
  two bytes, so that words are left out at any place; both scripts.
* `logs`: three packets of 18 kinds over two names, two captures.
* `fabric`: two sources and three outputs; one source has frames of two words, the other a
  frame of one word for the same output, one for another, and one of two words for an
  output that is not there.  So a frame can be whole, cut off by another, dropped, or meet
  another on its way to the same or a different place.

### Fairness

* `StorageRam`: weak fairness of the clock edge: the clock runs.  Everything else (the memory, the
  hash unit) is counted in edges.  The UART is always ready, as the test bench ties it.
* `SdramBus`: weak fairness of the clock edge.
* `Ingress`: the clock; a pause in a payload ends (strong, since the model may pause at
  each edge); the storage machine gets back to idle.  The last is what `storage_ram`
  checks, with memory that was zeroed.
* `SerialDump`: the clock; the memory answers and the line ends a frame sooner or later
  (strong, as both are choices of each edge).
* `Visualizer`: an open file is closed (weak: three statements of one thread), and the plot
  is drawn when it can be drawn again and again (strong: every 0.5 s, while the file is
  empty for some microseconds every 5 s).  Nothing is assumed of the board, of the thread
  or of the user.
* `Fabric`, not for the mux with a select input: the clock, which also means that a source
  goes on with its next word when nothing else can change (it may pause for ever only while
  others keep the bench busy); a sink that is shown words again and again takes one (strong,
  for each sink: behind an output that never takes its word, a source of the switch waits
  for ever while another goes on).

Without fairness, as in `storage`, `storage_sdram` and `logs`, only safety is checked.

## 4. The proofs

Eight modules hold theorems.  A theorem is about every value of the constants that the
named assumptions allow: every layout of a cell, geometry, latency, packet set, and so on.
Each inductive invariant was checked with TLC on the instance of its run first.

**The storage machine** (`Storage_proofs`, from `SizeAssumption`, `LayoutAssumption` and
`PacketAssumption`), on a memory that may answer any word at any edge, also across resets:

| theorem | property |
|---|---|
| `Invariance` | `IInv`, the inductive invariant |
| `TypeCorrect` | `TypeOK` |
| `RequestsWaitedFor` | `WaitsForItsRequest`: a wait state has its own request on the bus |
| `RegionsKept` | `WritesInRegion`: what is written as name, flag, statistic, A or AAAA record stays out of the others' part; CNAMEs and hosts keep to the cell |
| `NamesStoredInOrder` | `NameWordsInOrder` |
| `StatisticsPlaced` | `StatisticsInTheirSlots` |
| `RecordsCounted` | `RecordsRemain` |
| `QuartersAligned`, `CNamesAligned` | `AAAAQuartersAligned`, `CNameSlotsAligned` |

None of these properties is inductive: the address that a write uses was computed one or
two states before, from counters that move in another state.  `IInv` therefore says where
each counter is in each state: `PositionInv` (which region the position is in), `NameInv`
(`intrablock` and `data_count` add up to the last word while a name is written),
`AAAAInv`, `CNameInv` and `CNameSlotsAligned` (position and `data_count` agree modulo the
size of a record), `CountsInv` (the copies of the counts are those of the packet until the
first loop), `PacketsInv` (no work beyond the offload limit), `BusInv` and `DataInv` (the
bus carries the position and the datum of the state).  The arithmetic of slots (multiples
of a record size between two bases) is at the head of `Storage_proofs`.

**On a memory that keeps its word** (`StorageTable_proofs`; with `TableAssumption`).
`MemSpec` is the machine with its hash unit, on any memory of which three things hold at
every edge: it writes only what the machine waits to have written, the acknowledge of a
write comes when the word is there, and that of a read carries the word that is there
(`MemEdge`, `AccessInv`).  It starts with zeroes.  Nothing is said of when it answers, and
nothing of the first access of an address record, whose strobe is up one state too early.

| theorem | what it says | hypotheses beyond the assumptions |
|---|---|---|
| `TableInvariant` | `TableInv`, what the memory holds | `OffloadAfter <= 2`, `SlotsFit` |
| `FreeCellTaken` | `CellTakenIsFree` | the same |
| `OwnStatistics` | `StatisticsOfTheName` | these and `NoTails` |
| `CountsInvariant` | `CountInv`, what the counts rest on | `OffloadAfter <= 2`, `SlotsFit`, `BothFit`, `Cells >= 2` |
| `CountsAsTable` | `CountsLikeATable`: it implements `DomainTable` | these and `NoTails` |
| `AddressesKept` | `AAAARecordsKept` | those of `CountsInvariant`, `RecordsFit`, `AddressesBegin` |

`TableInv` says what is in the memory: zeroes for the first packet (`CleanInv`); for the
second one the cell of the first (`EntryInv`), whose name is whole, whose flag is set and
whose CNAME slots end where they must, so that the search (`SearchInv`) ends in that cell
or in the next; how far a name that is written has come (`WriteInv`); and which cells the
zeroing has passed (`ZeroInv`).  `CountInv` adds what the counts rest on: which words
behind the CNAMEs a packet may have used, that two cells in use differ in their names, that
the statistics registers are those of the cell.  `CountsAsTable` then goes by `Reads`: what
the mapping to `DomainTable` reads in the memory is what cell 0 or cell 1 shows for the
name, and `Uncounted` is what the sweep over the statistics has still to write.  A write of
the memory changes one counter of the packet's own name or none (`StoreCounts`), an
acknowledge begins, continues or ends a packet without a change of the counters
(`MoveCounts`), zeroing clears all of them.

`AddressesKept` rests on `KeptInv`.  Its parts say how far the slots are taken (`SpareInv`:
from `Start`, `Room` or `AllRoom` on every slot is empty), what the search has compared
(`QuadInv`: every slot before the one that is read begins with a word, and the quarters read
or written so far are those of the record), and what is there (`SavedInv`: the records of
the packet that are worked off).  Three writes could damage a record.  One of a CNAME lies
above the slots.  One of another record goes to the first empty slot, behind all that are
taken.  One of the querying host goes where the search left the position when a path skips
`intrablock_addr` (`storage.v:1088`): on the last quarter of a record, which is why the
property excepts records that end with zero, or behind them.

The hypotheses and the code: `OffloadAfter` is 2 (line 375, called a debug aid there: with
3 `FreeCellTaken` is false, see section 3).  Memory that is zero at power-up is what line
331 asks for and nothing in the source provides.  `SlotsFit` and `BothFit` say that the
CNAME slots which two packets can use lie in the cell: words up to 959 and 1215 of 2048.
There are 8 cells in a row.  `RecordsFit`: twice the records of a packet and the querying
host of the first fit in the slots (15 of 64 in the code).  `AddressesBegin` is a
restriction of the packets: no AAAA record begins with a zero word.  One like `::1` finds no
empty slot, since its first word matches there and the test for an empty slot is made on a
first word that differs (`storage.v:1032`); the search leaves the last slot at its second
word and goes on among the CNAMEs.  `NoTails` is a restriction of the packets and hides a flaw of
the code (`storage.v:505`): without it `OwnStatistics` is false.  The constants of the runs
`storage_ram` and `storage_sdram` satisfy all of them but `RecordsFit`: their layouts have two
slots and one, so that the search gets to the last slot, and there TLC checks the property.

**On the test bench memory** (`StorageBench_proofs`; with `RamAssumption`):

| theorem | what it says | hypotheses beyond the assumptions |
|---|---|---|
| `RamImplementsStorage` | `RamSpec => Spec`: machine, hash unit and memory are a case of the open machine | |
| `RamKeepsItsWord` | `RamSpec => MemSpec` | `PowerUpMems = {ZeroMem}` |
| `RamFreeCellTaken`, `RamOwnStatistics`, `RamCountsAsTable`, `RamAddressesKept` | the theorems of `StorageTable_proofs` on this memory | those, and the one above |
| `OffloadInOrder` | `OffloadReadsInOrder`, for every latency | |
| `OffloadKeepsPace` | `OffloadDropsNoByte` | `Bytes <= Latency + 3` (code: 4 and 6), `UartReady = {TRUE}` (as the test bench ties it) |

The invariant `RamInv` adds to `IInv` when the memory is busy, and whose acknowledge it
raises (`Handshake`): a strobe that is not taken down lets the memory begin an access of
its own, and `OffloadInv` says that in an offload this is the access that is wanted.
`RamAccess` adds that such an access has the direction of the state that waits for it.

**Joined to the SDRAM controller** (`StorageSdram_proofs`; with `ColumnAssumption`,
`BoardAssumption` and `WaitAssumption`).  These are theorems on the bench `StorageSdram`,
hence on what the two parts would do if they were joined (section 5), and on behaviours
with unhurried traffic: `SdSpec /\ UnhurriedTraffic => ...`.

| theorem | what it says | hypotheses beyond these |
|---|---|---|
| `SdInvariant` | `SdInv`, the inductive invariant | |
| `AnswersItsOwn` | `AnswerIsItsOwn` | |
| `SdramKeepsItsWord` | the bench implements `MemSpec` | |
| `SdramFreeCellTaken` | `CellTakenIsFree` | those of `FreeCellTaken` |
| `SdramCountsAsTable` | `CountsLikeATable` | those of `CountsAsTable` |
| `SdramAddressesKept` | `AAAARecordsKept` | those of `AddressesKept` |

The controller takes a request over again at the edge after its acknowledge, and performs
it a second time unless another one replaces it; the acknowledge of that second access
would be taken for the next request.  That it never is rests on how the machine uses the
bus, and the invariant follows its three ways.  While it turns from one request to the next
(`Turning`), nothing is begun: the two edges that it takes are over before the row is
precharged (`TurnInv`).  While it waits (`Engaged`), what is under way is its own request
(`HoldInv`).  While it keeps still (`Still`), in `IDLE`, for the hash of a name, or behind
an offload, what is under way is the repetition, which for a write puts a word where it is
already; it lasts no longer than `RepeatBound` edges, and the machine has been still for
`Elapsed` (`StillInv`).  The lemmas on the machine as a master (`HeldRequest`,
`AnsweredRequest`, `NextRequest`, `NoRequest`, in `StorageTable_proofs`) and those on the
controller (in `Sdram_proofs`, for any master) meet here.

This is where the hash unit comes in, in two hypotheses.  `WaitAssumption` is on constants
of the code: the hash of a name takes at least as many edges (`QnameBytes`, code: 256) as an
access that is repeated behind a refresh (21 with the wait counts of
`sdram_controller.vhdl`), and `TRP_CNTR_C # 0` (code: 1).  `UnhurriedTraffic` is on the
behaviour: `parser_valid` only rises while the machine is idle, `[][Unhurried]_sdVars`.  It
restricts the traffic on the network, and nothing in the source enforces it: the analyzer
may show a result while `parser_ready` is low.  It cannot be done without: with
`ShowIn = States` a packet that is shown while the last one is worked on starts the hash unit
then, its first request comes into the repetition of the last one, and TLC finds
`AnswerIsItsOwn` violated.  The run `storage_sdram` has it by `ShowIn = {"IDLE"}`.

**The SDRAM controller** (`Sdram_proofs`; `ChipAssumption`, `RestAssumption`):

| theorem | property |
|---|---|
| `BusTypeCorrect` | `BusTypeOK` |
| `ColumnsCorrect` | `ColumnInItsRow` |
| `RefreshesInTime` | `RefreshInTime` |
| `ImplementsMemory` | `ActsAsMemory`: controller and chip implement `WordMemory` |

The command register follows the bus at every edge, and an acknowledge lasts two edges, so
a command that was answered may be performed a second time.  The invariant says for whom an
access is: `AskInv` (a request that is pending is that of the bus), `WaitInv` (while the
master waits, an access that has begun is its own), `RestInv` (while it rests, what is in
the controller is a repetition).  `HarmlessRepeat` says that a repeated write writes what
is there already, and `RestInv` bounds the edges that it takes by `RepeatBound`, which
`MinRest` covers: that is the place where the rest of the master is needed.  `DueInv` adds
up the edges to the next refresh state by state.  `RestAssumption` has
`TRP_CNTR_C # 0` (code: 1): with 0 the controller is back in Idle before the master has
seen the acknowledge, and TLC finds `ColumnInItsRow` violated.

**The dump** (`StorageBench_proofs`; `DumpAssumption`), for every size of a cell and of the
FIFO and every time that memory and line take:

| theorem | property |
|---|---|
| `DumpInOrder` | `BytesInOrder` |
| `TesterReads` | `TesterReadsTheCell` |

`OrderInv` orders all bytes that are on their way, in the FIFO, on the line and at the host,
below the byte that is offered; `PlaceInv` places the k-th of them while nothing was left
out.  That the scripts' fields are those of the storage machine is arithmetic of the layout.

**The receive path** (`Ingress_proofs`; `ParserAssumption`, and `FramesAssumption`: payloads
fit the register), for every set of datagrams and every pause in them:

| theorem | what it says | source that waits |
|---|---|---|
| `IngressTypeCorrect` | `IngressTypeOK` | |
| `ReceivesWhole` | a datagram that the receiver begins to show is what was sent, with zeroes behind it, and one of DNS | |
| `ResultsHeld` | `ResultHeld` | `NextAfter # "anytime"` |
| `CapturesWhole` | what the analyzer takes from the receiver is what was sent | `NextAfter # "anytime"` |

`ReceiveInv` says what is where while a payload comes in: the tokens before `data_count` in
the register, those from it on still on their way, so that the end of one is the end of the
other, whatever length the header claimed and however stale `end_length` is at the first
byte.  `OneInv` hands one datagram on from the source to the receiver to the analyzer to the
result; the receiver clears its register while it still shows it, and only because the
analyzer is ready by then is nothing lost.  With `"anytime"` the last two are false, which
is what the run `packets_overlap` is about.

**The visualizer** (`Scripts_proofs`; `DatabaseAssumption`,
`VisualizerAssumption`), for every set of urls and counts and every width of the list:

| theorem | property |
|---|---|
| `ListKept` | `DatabaseInv`: sorted, no url twice, never too long, and the bound is the least count |
| `TopKept` | `TheTop`: entries have the last count of their url; while counts never fall, no url outside the list has more than the least entry |
| `FileWhole`, `PlotsExports` | the file is empty or one whole export; `PlotIsAnExport` |
| `TopAcrossRuns` | both properties of the list in the whole program, across a second start |

`DatabaseInv` is inductive; that removing from the list which is iterated does no harm
rests on its part `UrlsOnce`.  `TheTop` needs `DatabaseInv` and the type of `latest`.
Sorting is a permutation that orders by count and then by place, so the lemmas are about
what a permutation keeps: the set of entries, the length, and that the least one is last.
`TopAcrossRuns` is about behaviours with `[]CountsRead`: the value of the digits in a line
is in `Counts`.  Reading a number is a fold over its digits, and what a fold computes for
every row of digits needs induction over data; the run `visualizer` checks it without.

**The log script** (`Scripts_proofs`; `LogAssumption`), for every set of packets and any
number of packets and capture files:

| theorem | what it says |
|---|---|
| `LogInvariant` | `LogInv`, the inductive invariant |
| `LogSummed` | `SumsTheLog`: table, totals and figures are those of a regular log, and the script does not stop |

`SumsTheLog` looks at the script between two packets; a line depends on what the lines
before it left in `response`, `hostIP` and `domain`.  `LogInv` therefore says how far the
script is: between two packets, in the totals of a capture file, or `r` lines into a packet
`p` (`InPacket`).  Then `response`, `hostIP` and `domain` are those of `p` as soon as the
lines that set them are read, and the table sums up the log before `p` and, from the
question on, what is read of `p` (`SoFar`).  The hosts are a sequence in the table and
places in the log; `Rank` numbers the places, so that both have the same hosts and the
counts of different hosts agree.  A query must have no answers: that the script reads
one into another name is what came out when the invariant was tried without (section 3).

**The stream library** (`Fabric_proofs`; the assumptions on the ports and widths of each
module, `FabricAssumption`, and `StreamAssumption`: a source sends whole frames, each for
one destination that the bits of a port number can name):

| theorem | what it says | hypothesis |
|---|---|---|
| `FabricInvariant` | `FabricInv`, the inductive invariant | `PowersOfTwo` |
| `SwitchesFrames` | `IsASwitch`: the bench implements `FrameSwitch`, with any of the two muxes and with the switch | `PowersOfTwo` |

They are about every number of ports and all widths of tid and tdest, and do not use the
fairness of `Spec`.  `PowersOfTwo` says that `2^n` is a natural number greater than `n`,
which is so, but nothing that a prover here knows of a power with a variable exponent; with
it `WidthsAgree` shows that the wrappers, which count the bits of a port number
(`bit_length`), and the modules, which take a logarithm (`$clog2`), agree on where the
upper bits begin, and `TwoParts` that the port can be read back from them.

A frame under way is what everything hangs on.  `Midst` says that a port has begun one:
then it has the grant of the mux (`ArbMuxInv`) or the select (`MuxInv`), so that only one
has, and at the switch it is decoded and, unless dropped, has the grant of its output
(`SwitchInv`).  In a chain up to four words are in the registers between the grant and the
demux; `ChainInv` says that they lead from the word that the demux needs next to the one
that the mux passes next, each the successor of the one before or the first of a frame
(`Thread`), so that a demux whose `select` is for an older frame than that at the mux still
sends each word to where it belongs (`Routes`).  The refinement looks at a register and
its temporary register as a queue: `Registers` says that an edge, whatever is ready, leaves
the words in them as they were but for the first one that is taken and the one that comes,
if that comes when `ready` was high.  The demux raises its own ready also for a frame that
it drops, room or not (`axis_demux.v:175`), and would then take the first word of the next
frame without any; `ChainInv` says that there is room whenever it drops: there was when it
took the first word, and a stage that is given nothing stays ready.  `MonitorMoves`,
`OutputMoves` and `CrossMoves` add up what is on the way to a sink, and `FrameStep` makes of
all sinks and ports a step of `FrameSwitch`.

**Only model-checked.**  Beyond the prover: all liveness properties, and with them ENABLED;
`HashIsOfTheName`, which is about a fold over a whole name.
The refinement of `PacketPipe` needs what the parser makes of a row of tokens of any length,
an induction over data.

## 5. What is not modelled

* A connection that is not there.  `fpga_core.v` instantiates storage, SDRAM controller and
  UART, but joins none of them: the Wishbone of `storage_inst` leaves by `ext_sdram_wb_*`
  (1057-1063, ports 109-115, open in `fpga.v`), `sdram_ctl` is on `sdram_wb_*` (1091-1097),
  which nothing drives (the assigns at 1101-1106 are commented out); the bytes of
  `storage_inst` leave by `ext_uart_*` (1065-1067), and `axis_uart` is on `uart_data`,
  `uart_valid`, `uart_ready` (868-870), which nothing drives either.  In simulation the test
  bench has a memory on these ports, which is `StorageRam`.  As the
  file is, the first access of the first packet waits for ever, and nothing is stored or
  sent.  `StorageSdram` and `SerialDump`, with their runs and theorems, are benches that join
  the parts as the comments say.  Whoever joins them gets what these promise; until then
  they say nothing of a running device.
* Reset, but for `Storage`; the power-up contents of the SDRAM (nothing clears it before
  the first offload, although line 331 of `storage.v` says it must be: reset enters IDLE).
* The clock crossing FIFO and the tap: Gray pointers between two clocks.  `Ingress` starts
  behind them, with pauses at any place but before a last byte.
* Bit timing of the UART, its receiver and the wiring of `axis_uart_v1_0.v`.
* Wording and layout of packets: compressed CNAMEs, names in answers that are not
  compressed, several questions.  They make the parser stop or go on in other places.
* Setup times, metastability and the pins of the SDRAM chip.
* `dns_parse.c`, but for its lines; SHA-1, which nothing in the device uses;
  crosspoint, RAM switch and frame join of the stream library, which nothing instantiates;
  MACs, PHY interfaces, vendor files and generated netlists.

## 6. Plan

Done: storage with its hash unit on both memories, receiver and analyzer, the way of a cell
to the host, the visualizer, the two analysis scripts, five modules of the stream library,
and the proofs above.  What is left, in this order:

1. **Refinement of the handshake in `Ingress` by `Storage`**, so that the pipeline is one
   composition from datagram to table; datagrams that arrive during an offload.
2. **Reset** in the composed modules: what a table is worth after one.
3. **`AxisAsyncFifo` and `AxisTap`**: pointers in two clock domains, frames that are cut
   when the FIFO is full, and what the receiver makes of the pauses.
4. **RAM switch and frame join** of the stream library, in the bench of `Fabric`.
