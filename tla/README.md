# MEDS on a microcontroller: a verification development

This directory models the port of the MEDS signature scheme to the STM32 in
this repository: the device programs of `ref/` and `hal/`, and the host scripts
of `sage-ref/` that feed them test vectors over a serial line.

## The system

| component | code | state | operations | what makes it correct |
|---|---|---|---|---|
| serial line, HAL | `hal/*.c`, `ref/util.c` 12-53 | the two byte queues | `hal_getchar`, `hal_putchar`, `read_stream`, `write_stream`, `dev.read`, `dev.readline`, `dev.write` | nothing is sent to a device that is not reading; no read starts in the middle of what the other side wrote |
| command loop | `ref/KAT_test_Stream.c` 90-213, `KAT_test_Stream.py` 258-396 | command code, seed, message, key, heap buffers, generator; request file, .rsp file | SEED, MSG, PK, SK, SML, SM, STOP | commands and answers pair up for every test vector |
| streamed key generation | `ref/meds_stream.c` 209-509, `KAT_test_Stream.py` 83-177 | one G, one A_inv and one B_inv on the device, all the others in the host's file | triples out, A and B back for sk, G back for pk | the key that comes out is the one the reference generates from the same seed |
| streamed signing | `ref/meds_stream.c` 511-792, `KAT_test_Stream.py` 179-255 | sk, seed tree, hash state, one G on the device; pairs in the host's file | commitments, challenge, responses, path | the signature is the reference's |
| seed tree | `ref/seed.c` | an array of nodes | `t_hash`, `stree_to_path_to_stree` | the path rebuilds every leaf but the challenged ones, reveals none of those, and fits its buffer |
| Serial_IO version | `ref/KAT_test_Serial_IO.c`, `sage-ref/KAT_test_Serial_IO.py` | as the command loop, all matrices on the device | as the command loop | start-up and commands do not wait for one another |
| scheme | `ref/meds_serial.c`, `sage-ref/meds.py` | keys, commitments, responses | `crypto_sign_keypair`, `crypto_sign`, `crypto_sign_open` | what is signed verifies |
| bit stream | `ref/bitstream.c` | buffer, byte and bit position | `bs_init`, `bs_write`, `bs_finalize`, `bs_read` | what is written is read back, inside the buffer |
| matrix arithmetic | `ref/matrixmod.c` | matrices over a prime field | `pmod_mat_mul`, `pmod_mat_syst_ct`, `pmod_mat_inv` | the systematic form exists exactly when it is reported |
| sampling, solving, hash parsing | `ref/util.c` | none | `rnd_GF`, `rnd_inv_matrix`, `solve`, `parse_hash` | exactly w challenges are non-zero; a solution solves |
| DRBG | `ref/randombytes.c` | key, V, counter | `randombytes_init`, `randombytes` | device and host draw the same bytes |

Device and host share nothing but the line. Each blocks without a timeout in
its reads, the device polls a one-byte receive register, and the two programs
repeat the same order of bytes by hand: that order, together with retries on the
device, is where this system can go wrong and where no unit test looks. The
computations below it fail in another way: what they get wrong shows only for
matrices, challenges or bit positions that are rare at the real sizes. The
hazards found while reading are listed in `PROJECT.json`, each at its line and
with the properties that watch it.

The hard behaviours, by kind:

* *protocol order* - ready byte, data, acknowledgement for every matrix, in
  loops with different bounds on either side; a stray or missing item shifts
  all that follows;
* *retries* - an attempt at a matrix may fail at four places, two of them with
  the announcement to the host in between; buffers that are reused in place
  make a second attempt start from the wrong operand;
* *stale state* - files and lists on the host that outlive a test vector, a
  generator that is initialised again for each, tree leaves advanced in place;
* *boundaries* - trees that are not full, the path buffer, count lines that are
  prefixes of one another, fields across byte boundaries, zero pivots, challenges
  drawn twice;
* *two computations of one thing* - signer and opener, writer and reader of a
  key: rows that are left out and put back, rounds that are drawn again from a
  seed, responses that are told apart by their order alone.

## Modules

* `SerialLink` - the line. Each direction is a FIFO queue of items (one 0x00
  byte, a printed line, the bytes of a matrix, the '1', a command code). Reads
  are framed by the reader: a `read(1)` of a line bites its first character
  off, a `readline()` takes stray 0x00 bytes with it, and the line is then no
  hex text (`Garbled`). Printed lines of one index are one item, as they leave
  the device in one go and are read by consecutive `readline()` calls.
* `StreamKeygen` - streamed key generation, with the part of the command loop
  that starts it. A device action runs from one blocking `hal_getchar` to the
  next, a host action from one blocking `dev.read`/`dev.readline` to the next:
  between two of these neither program looks at anything the other can change.
  Matrices are symbolic. The outcome of each attempt (no solution, no inverse,
  no systematic form) is decided by the seed, so the constant oracle `chain`
  gives it, part of the case chosen in `Init`; `Lucky` leaves out seeds that
  need more than `MaxAtt` attempts.
* `StreamSign` - streamed signing in the same manner. The case gives for every
  round the attempt that succeeds and for every signature the challenge. A
  commitment carries whether its operand was G0, a leaf how often it has been
  advanced, so that a signature made from the wrong operand or from a spent
  tree is a different signature.
* `KatDriver` - the main programs around them, of both versions: 1.1 streams the
  matrices (`KAT_test_Stream`), 1.0 keeps them on the device
  (`KAT_test_Serial_IO`). The variable `version` chooses; an action that the two
  have in common is one action. From the '1' that wakes the device (in 1.0
  nobody sends one; `Typed` says whether a character is on the line) over the request file and the seven commands to the last line of the
  .rsp file. Commands are four bytes each, as the device acts on single bytes
  and throws the first away. Key generation and signing are one exchange each;
  the generator is what it was initialised with and how often it was drawn from.
* `SeedTree` - `t_hash` one level at a time, `stree_to_path_to_stree` one turn
  at a time, for the signer (twice: before the commitments and after them) and
  then for the verifier. A seed is the name of the node it belongs to; deriving
  from anything else gives `Junk`.
* `Matrix` - `matrixmod.c`, and `solve`, `pi` and `rnd_sys_mat` of `util.c`, as
  operators over the integers modulo `MEDS_p`. The loop over the entries of a row
  is one row operation, the loops over rows run in the code's order (`Loop`), so
  that what an iteration sees of the one before it is what it sees in the code.
  A loop is a recursive function rather than a recursive operator or a fold over a
  sequence, so that it can be proved about.
* `KeyPair` - the loop of `crypto_sign_keypair` for one index with its four ways
  to fail, `copy pk data`, and the reading of a public key in
  `crypto_sign_open`. What the draws may be are the constants `Values` and
  `Draws`. A second part of the state space, with the label "field", walks through
  the fields of `params.h` and inverts every element.
* `Scheme` - `crypto_sign`, `parse_hash` and `crypto_sign_open` in the same
  arithmetic. SHAKE256 is a random oracle: what it makes of a seed is drawn once
  and kept on `tape`, a digest is what went into it. `Deliver` passes on the
  signed message or damages one field of it (message, digest, salt, a seed of
  the path, a response). A damaged salt or challenge makes the path useless.
* `BitStream` - `bitstream.c` on a buffer of bytes, with the blocks its callers
  make: fields of `GFq_bits`, then `bs_finalize`. A byte, and a field, is the set
  of its bits that are 1: `|` is the union, a mask an intersection, a shift adds to
  every bit.
* `KatService`, `SeedReveal`, `SignedMessage` - the abstract specifications.
  `KatService`: one
  answer per test vector, in order, each the reference's, and all of them in the
  end. `SeedReveal`: once the hidden seeds are chosen the verifier comes to know
  all the others, some at a time, and never a hidden one. `SignedMessage`: a signed
  message that arrives as it was sent is accepted, a message nobody signed is not,
  and there is always an answer.
* `MCStreamKeygen`, `MCStreamSign`, `MCSeedTree`, `MCKatDriver`, `MCKeyPair`,
  `MCScheme`, `MCBitStream` - the instances TLC checks.
* `StreamKeygenProofs`, `StreamSignProofs`, `KatDriverProofs`, `SeedTreeProofs`,
  `MatrixProofs`, `KeyPairProofs`, `SchemeProofs`, `BitStreamProofs` - the theorems, each
  module beside the one it is about. `MatrixProofs` has the linear algebra that
  `KeyPairProofs` and `SchemeProofs` rest on.

`KatDriver` abstracts `StreamKeygen` and `StreamSign` to one exchange each;
all three implement `KatService`, with the key pair, the signature and the whole
record as the answer. `StreamSign` abstracts `SeedTree` to the state of the
leaves. `Scheme` abstracts `SeedTree` to the seeds of the rounds, `BitStream` to
what is written being what is read, and takes the successful attempts of
`KeyPair` only.

`build = "big"` (`BIG`) stands for MEDS167717 and MEDS134180, which have no room
for G0 beside their working matrix and fetch G0 from the host; every other
parameter set is `"small"`.

## Runs

| run | instance | what it shows |
|---|---|---|
| `keygen` | S=4, 11 keys, 5 attempts; small with failures before the announcement in keys 0, 1 or 10, big without | device and host in step (`NoOverrun`, `NoMutualWait`, `Aligned`, `KeygenInv`), `HostNeverCrashes`, `ImplementsKatService` |
| `keygen_notsyst` | S=3, big, an attempt may be not systematic | deadlock (finding) |
| `keygen_nosol` | S=3, big, an attempt may have no solution | the key is not the reference's (finding) |
| `sign` | T=3, S=3, weight 2, 11 signatures; small with every retry pattern in 0 and 1, big without retries | the same properties of signing |
| `sign_retry` | T=3, big, a round may need a second attempt | the signature is not the reference's (finding) |
| `driver` | 4 test vectors, both versions; 1.1 with `free(sm)` returning, 1.0 with a character on the line | the command loop: nothing overruns, no mutual wait, every read aligned, every record the reference's |
| `driver_free` | 2 test vectors, `free(sm)` may fault | the script need not get to its end (finding) |
| `serial_start` | version 1.0, nothing on the line | both programs wait from the start (finding) |
| `seedtree` | 13 leaves, all 286 challenges of 3 | `NoLeak`, `PathCovers`, `PathFits`, `PathIsReference`, `ImplementsSeedReveal` |
| `keypair` | p=3, n=3 with samples of G0 and Ti and every Amm; the fields 8191, 4093 and 2039 | `InverseIsInverse`, `KeepsInvertible`, `SolveIsExact`, `SystIsExact`, `KeyInverts`, `PkHoldsG` |
| `scheme` | p=3, n=2, t=3, w=2, s=3, two attempts a round, one damaged field | `ExactWeight`, `Recomputes`, `KeepsPromise` |
| `bitstream` | widths 11, 12, 13; one block of 8 fields and two of 3; buffers of 0x00 and of 0xff | `Fits`, `Packed`, `RoundTrip` |

The bounds and why they suffice. Three index matrices or rounds distinguish the
first, a middle and the last. Eleven test vectors are needed before a count line
(`count = 1`) is a prefix of a later one (`count = 10`), which the host's
`startswith` has to survive; failures in keys 0 and 1 show what one call leaves
behind for the next. Five attempts allow two failures before, between and after
the successes. Thirteen leaves make a tree with an incomplete right edge, and
with three challenges some paths need all the seven seeds that
`seed_max_tree_len` of `params.py` allots. `KatDriver` has no loop whose
behaviour depends on more than the current and the previous test vector.

In fields this small the rare cases of the arithmetic are common: zero pivots
with and without a row that repairs them, singular draws, systems with no or many
solutions, codes without a systematic form. The samples of `keypair` take all four ways
to fail. Three rows are the least for which the swap may need its second row, `solve` has complete blocks, and a
public key has a row that is written. `KeyPair` holds each algorithm against its
definition: invertible is having no kernel, a solution is found by trying all
matrices, a systematic form by its row space. With three rounds of which two are
challenged, `Scheme` has every order of challenged and unchallenged rounds, two
keys to confuse, and masks that let `parse_hash` draw rounds and keys out of
range. Eight fields meet every bit position at the odd widths 11 and 13, and two
blocks of three end within a byte.

`KeepsPromise` says nothing about a damaged signature over the message that was
signed: a damaged response may be accepted (one that is the same modulo `MEDS_p`,
or a seed of the path that is never used), and the code promises no more.

In the small builds, too, an attempt may be not systematic after it was
announced: the second 0x00 then ends up in front of the A_inv line, which
`bytes.fromhex` refuses. With `NotSyst` as the outcomes of a small case TLC
finds `HostNeverCrashes` violated; no run is kept for it, as it has the same
cause as `keygen_notsyst`.

Fairness: both programs are sequential loops that go on whenever their read
returns, so `FairSpec` has weak fairness of each; the seed tree is computed by one
program after the other and has weak fairness of their steps. `Scheme` is one
sequential program; its `Progress` says that it takes steps until it is done, as
weak fairness of `Next` would, and without ENABLED, which TLC would have to
evaluate over all the arithmetic. With it goes the one assumption the code makes
of its generator: the loops that draw again until a draw is good come to an end.
`KeyPair` and `BitStream` have no liveness properties. Nothing is assumed
about which attempts succeed beyond the cases named above. What `free(sm)` does
is the constant `FreeSm`, as `sm` is uninitialised. Every model stops where the
program does (`STATE_STOP`, or a device in its fault handler), by an explicit
stuttering step, so that TLC's deadlock check stays on.

## Proofs

All theorems hold for every value of the constants that satisfies the named
assumptions; every leaf is checked.

*Streamed key generation* (`StreamKeygenProofs`): `KeygenLockstep`, and from it
`KeygenTypeCorrect`, `KeygenNoOverrun`, `KeygenNoMutualWait`, `KeygenAligned`
and `KeygenHostSurvives`, for every S, number of keys and attempts, for all
builds and all outcomes but "notSyst" (with it `keygen_notsyst` refutes the
claims). None of the properties is inductive: whether a read is served depends on
where the other side is and what is on the line. The invariant `KeygenInv` has two
halves. `TurnsInv` is about order: it tabulates (`Lockstep`) for each device label
the host labels, queue contents and loop offsets that go with it, and adds how
the host's file is laid out (`FileInv`), without which a line could be sent that
is no matrix. `DataInv` is about what passes between the two: how many attempts
have succeeded when the device stands at a step of its chain and what its buffers
then hold (`DevData`), what is on the line (`LineData`), what is in the host's
file, in `hsk` and `hpk` and in the .rsp file (`HostData`). It says so also
of an attempt that starts from the wrong G0 (`GoodAt`), so it holds in every
build, and the two conclusions need one hypothesis more:
`KeygenIsReference` (`KatKeyIsReference`) and `KeygenImplementsService` (every
step is a step of `KatService` or leaves its variables alone: `KS!Safety`) assume
`FirstTries`, that a build without room for G0 finds each of its matrices at the
first attempt, where `keygen_nosol` shows what happens otherwise. The reference names
the attempt of index i by `CHOOSE` (`RefAtt`); that the device's count of
successes picks the same one is `RefAttIs`, by counting the successes up to
an attempt.

*Streamed signing* (`StreamSignProofs`): `SignLockstep`, and from it
`SignTypeCorrect`, `SignNoOverrun`, `SignNoMutualWait`, `SignAligned`, for every
number of rounds, matrices and signatures, every challenge and pattern of
retries, in both builds. `SignInv` is a table of the same kind with what goes
with a row: the commitments absorbed so far and how far the leaves have been
advanced (`DevInv`), the pairs of the host's file below the last count line
(`FileInv`), the responses collected and the signatures written (`HostInv`). It names what is signed in
a big build after a retry too (`MadeSm`); with `FirstTries`, no retried round in a
big build, that is the reference's signature: `SignIsReference`
(`KatSmIsReference`) and `SignImplementsService`. `sign_retry` shows that the
hypothesis is needed. The host writes the responses that are not zero, the
reference makes one for each challenged round; that the two lists are equal is an
induction over the rounds.

*Command loop* (`KatDriverProofs`): `DriverLockstep`, and from it
`DriverTypeCorrect`, `DriverNoOverrun`, `DriverAligned`, `DriverNoMutualWait` and
`DriverImplementsService`, for every number of test vectors, length of seeds and
messages and both versions. A table of pairs of labels would have hundreds
of rows here. What the host sends for a test vector is instead one sequence of
items (`Item(k, p)`), `Put` and `Got` say how many of them the host has sent and the
device has taken, and `DriverInv` says of every label and buffer for which values
of the two it is possible: the queue to the device is always the items between
them (`QueueInv`), the buffers are what the items taken make of them
(`BufferInv`, the generator included), a waiting host has its answer on the line or
coming (`WaitInv`), the request file has the lines printed and the .rsp file the
records answered (`FileInv`). It also holds once `free()` has faulted
(`FaultInv`): the device then reads and answers nothing more, and what is in the
.rsp file is still right. `DriverNoMutualWait` assumes that version
1.0 starts with a character on the line (`Typed`), as `serial_start` shows it must.

*Seed tree* (`SeedTreeProofs`), for every number of leaves, weight, height and
set of challenges: `SeedTreeInvariant`, and from it
`SeedTreeTypeCorrect`, `SeedTreeNoLeak` and `SeedTreePathCovers`. `NoLeak` and `PathCovers`
speak of the finished path; the invariant `TreeInv` speaks of the frontier, the
first leaf the traversal has not passed: every leaf before it is challenged or
below a seed of the path, no seed of the path is above a challenged leaf, and
`id` points at the first challenged leaf at or after the frontier. Powers of two
enter as the constant `Pow` with its doubling as an assumption.
`SeedTreeContents` adds what is in the path and in the verifier's tree. `RefPath`
is recursive over the tree and says nothing of a traversal, so `Below` names what
the reference takes below a node and `After` what it takes after one, and
`PathInv` says that path and remainder make `RefPath`, and that the verifier has
taken a prefix of `pos` seeds of it: `SeedTreePathIsReference`. `GrowInv` says
which nodes of the verifier's tree are fresh: all leaves left of the frontier
that are not challenged, and below the node that `t_hash` is working on one level
after the other, of which none is above a challenged leaf. From it follow
`SeedTreeOpens` (in the end the verifier has exactly the seeds of the other leaves)
and `SeedTreeImplementsReveal` (every step is a step of `SeedReveal` or leaves its
variables alone: `SR!Safety`). `SeedTreePathFits` assumes of `MaxPath` what
`seed_max_tree_len` of `params.py` makes of it (`PathAssumption`): the path below
a node d levels above the leaves, with w challenged leaves below it, has
at most `Pow[l] + w * (d - l - 1)` seeds for each l, by induction over the levels,
where the bounds of two children for l - 1 add up to that of their parent for l.

*Signing and opening* (`SchemeProofs`): `SchemeExactWeight` and
`SchemeReadsInside`, for every prime, dimension, number of rounds, weight and
number of keys. `ExactWeight` speaks of finished challenges; `WeightInv` says what
both hold in between (`picked` rounds after as many turns of `parse_hash`) and that
the responses read are the challenged rounds passed (`BeforeNext`: one round
adds one or nothing). Whatever digest arrives, `crypto_sign_open` therefore never
reads past the responses.

`SchemeLockstep` adds the data. `SchemeInv` says of every key that a draw of its
index makes it (`KeyInv`), of every tape that its draws failed but the last one of a
finished round, which was absorbed (`TapeInv`), of the signed message that it is
made of these (`SentInv`), and of an undamaged one (`TrueInv`) that the opener has
the same challenge, has absorbed what the signer did, and in every unchallenged
round to come reads a draw of the tape that it has not passed. The response
that a challenged round reads is its own: it is the j-th challenged one, with as
many before it as were read (`NthIs`). From it `SchemeRecomputes`; and with `GotInv` (what
arrives is the message that was signed, or another one under its digest)
`SchemeKeepsPromise`: every step is a step of `SignedMessage` or leaves its variables
alone (`Promise!Safety`). That response and public key lead back to the commitment
is `SchemeWayBack`, from the linear algebra below: key and response are products with
inverses that cancel (`WayBack`), so what the opener computes spans the code the signer
committed to, and a code has one systematic form (`FormSame`).

`SchemeTypeOK` rests on `SchemeTypeInv`. `TypeInv` adds to `SchemeInv` the bounds of
the counters (`BoundInv`), that a seed is a position of its tape, which leaves room for the
draw to come (`SeedInv`), and what is read of the signed message that arrives: matrices for
the responses and, for the rounds that are not challenged, seeds (`Readable`), damaged
or not. The assumptions are that `MEDS_p` is a prime (`FieldAssumption`)
and what the draws may be (`DrawsAssumption`): matrices over the field that
`rnd_inv_matrix` keeps, as the code checks. TLC evaluates both.

*Linear algebra* (`MatrixProofs`), for every prime (`FieldAssumption`) and dimension:

* `PrimeField`: `GF_inv` inverts every element but zero, on both its ways. `TurnedIs`
  is what a turn of square and multiply leaves as it is, `AdditionChainIs` that the chain
  for 8191 adds up to the exponent 8189, and `Fermat` that the power is the inverse: a
  times the residues are the residues again in another order (`ProdPermuted`), and
  their product can be cancelled (`NoZeroDivisors`, the one place that needs
  a prime);
* the elimination: swap, normalise and eliminate keep the span of the rows
  (`EchelonIs`), and a pivot that is zero after the swap is zero in every row below, so
  that no vector of the span begins with a 1 there (`Stuck`, `StuckMisses`). Hence
  `SystIs`; that a code has one systematic form (`SystUnique`, `FormSame`); and that
  the elimination gets through exactly where the rows span everything (`FullIs`);
* `InvIs`: the right half of what is left of (A | I) is a two-sided inverse of A, and
  there is one whenever A has full rank; the proof that the other block does not get the
  elimination stuck is `FullNotStuck`;
* products associate (`MulAssoc`, by exchanging two sums), `pi` composes (`PiTwice`)
  and takes a code to a code (`PiSpan`), whatever generates it;
* `SolveType`: what `solve` returns are matrices over the field;
* `FormExact`: with a systematic form, the left block says how the rows are made of
  its rows; without one, the left block has not full rank.

A span is the least set that has the rows and is closed under sums and multiples
(`Span`), which needs no choice of coefficients and makes a row operation a matter of a
few lines; coefficients come back in `Combined` where they are unique.

*Key generation* (`KeyPairProofs`), for every prime, dimension and all draws:
`KeyTypeInv`, `KeyField`, `KeyDraws`, `KeySolve`, `KeySyst`, `KeyUndone` and `KeyRead`.
Each of the properties speaks of one label, and of buffers that were filled some labels before.
The invariant `KeyInv` (`KeyInvariant`) therefore says of every buffer how it came about
from those before it, and that G[0] is systematic. With it each property is a statement
about the operators:

* `solve` eliminates all rows but one with `pmod_mat_syst_ct` and the last by hand,
  without its last column. What its rows say is read off by pairing them (`Pair`) with
  the row made of two neighbouring rows of a solution: what pairs to zero with the rows
  does so with their whole span (`PairSpan`), so the elimination keeps it. With a last
  pivot that leaves one way to make each row of A from the next, the one that
  `RowAbove` computes: `SolveFinds`. Without one there is a row that can be added to a
  solution and makes another one: `SolveMisses`. So an attempt is never given up for the
  order in which the pivots came;
* `KeyUndone` is `PiTwice`, `InvIs` and that a code has one systematic form;
* `KeyRead`: the equations of `solve` say that pi(A, B, .) takes the first row of
  Ti * G[0] to the identity and the second, but for its last MEDS_n entries, to the
  shifted identity. Both are rows of the code of G[i] and begin as its first two rows
  do, and there is one row of a code for each beginning; so these are the rows that are
  left out and put back (`KeyUnwritten`).

`KeyPairAssumption` says what the draws may be: values and matrices over the field,
whether `rnd_inv_matrix` keeps them or not; and that the fields whose inverses are
computed are those of primes.

*Bit stream* (`BitStreamProofs`), for every width of eight bits or more, number of
fields in a block and number of blocks, whatever is written over whatever was in
the buffer: `StreamTypeCorrect`, `StreamFits`, `StreamPacked` and
`StreamRoundTrip`. Two lemmas say what a call does in terms of the bit position
alone, however the field falls on the bytes (`Splits`): `WriteBits`, that the bits
behind the position are those of the field and the ones before it stay, up to the
byte the new position is in; `ReadBits`, that a read returns the bits from the
position on. `Order` and `Inside` are the arithmetic of the addresses: fields do
not overlap and end inside their block. The invariant `StreamInv` ties the position
to the number of fields done (`Place`), from which no call is refused, and has
`Packed` as it stands: it is stated up to the byte at hand, whose bits behind the
position are zero, as the next field will be or-ed onto them. That narrower fields
never occur is `BitStreamAssumption`; `bs_write` would or them onto what the buffer
held, which nobody has cleared.

*Induction.* The induction theorems of the library take an operator as a
parameter, which the provers cannot instantiate, so the modules that need them state
them first-order: `Induction` is about a set of naturals, proved from the
well-foundedness of `<`, and `Recursion` gives a function that goes on by a given step
function, which is what the proof that a recursively defined function satisfies
its definition comes down to. `SeedTreeProofs`, `StreamSignProofs` and `MatrixProofs`
each have them; for the loops of `Matrix` they become `LoopValues`: a loop has a value
after every iteration, each from the one before it.

Only model-checked: all liveness, that is the weak fairness in `KatService`,
`SeedReveal` and `SignedMessage` (out of the prover's reach). Every invariant that a
passing run checks is proved; the runs show that the assumptions can be met and that the
states the invariants speak of are reached.

## Plan

1. Done: `SerialLink`, `StreamKeygen`, `StreamSign`, `SeedTree`, `KatDriver` for
   both versions, `Matrix`, `KeyPair`, `Scheme`, `BitStream`, with the abstract
   specifications, runs and theorems above.
2. Done: lockstep and data of `StreamKeygen`, `StreamSign` and `KatDriver`, and
   that each of them implements the safety part of `KatService`.
3. Done: path and tree of `SeedTree` against the reference, `SeedReveal` and
   the room in the signature.
4. Done: the data of `Scheme`, and that it implements the safety part of
   `SignedMessage`.
5. Done: `BitStream` for every width and length.
6. Done: the linear algebra of `Matrix`, and with it the types of `Scheme` and the way
   back from a response to a commitment.
7. Done: `KeyPair` for every prime and dimension: `GF_inv`, `solve`, the systematic form,
   the inverses, and the rows a public key leaves out.

## Not modelled

* `randombytes.c`: the AES-CTR generator that NIST supplies with its test-vector
  program. `KatDriver` has what this code has to get right about it, which draws
  are taken after which initialisation.
* `fips202.c`, `aes.c` and the assembly beside it: standard primitives, taken as
  oracles.
* `XOF` and `rnd_GF`: which values come out of a seed; the models draw them.
* `sage-ref/meds.py`, `util.py`, `seedtree.py`, `bitstream.py` compute what the C
  code computes with the operations of a computer algebra system. They serve as
  the reference (`RefKey`, `RefRecord`, the definitions `KeyPair` is held
  against) and are not modelled a second time; `reserver_code/meds.c` is
  `meds_serial.c`, byte for byte.
* `bench.c`, `demo.c`, `osfreq.c`, `test.c`, `KAT_test.c`: programs that time or
  print calls in sequence. Clocks, LEDs and cycle counters of the HAL.
* `sage-ref/Crypto`: the vendored PyCryptodome. With its tests it is four fifths
  of the lines of the repository, of which this system uses SHAKE256 and AES;
  the share of the lines that these models cover is small for that reason.
