----------------------------- MODULE HashBands -----------------------------
(* Perceptual hashes as server/src/lib/metrics.ts cuts, bands and compares     *)
(* them, for any number of bands of any size.  A hash is the set of its one    *)
(* bits; slice i of it is the Per bits from i * Per on.                        *)
EXTENDS Integers, FiniteSets

CONSTANTS NBands,       \* how many bands bandsOf cuts a hash into (4)
          Per,          \* bits in a band (16)
          MaxDistance   \* validationConfig.duplicateMaxDistance (5)

ASSUME BandsAssumption == NBands \in Nat \ {0} /\ Per \in Nat \ {0}
ASSUME MaxDistanceAssumption == MaxDistance \in Nat

Bands == 0 .. NBands - 1
Bits == 0 .. NBands * Per - 1
Slice(i) == i * Per .. i * Per + Per - 1

(* A bit is set when its coefficient is above the median of all of them, so at *)
(* most half of the bits are.                                                  *)
Hashes == {h \in SUBSET Bits : 2 * Cardinality(h) <= NBands * Per}

Differing(h, g) == (h \ g) \cup (g \ h)
Hamming(h, g) == Cardinality(Differing(h, g))

(* Mutation: one band, the whole hash.                                         *)
BandsOfWhole(h) == {<<0, h>>}

(* A band is a pair of its place (the namespace i:) and its bits, counted from *)
(* the start of its slice.                                                     *)
BandsOf(h) == {<<i, {b - i * Per : b \in h \cap Slice(i)}>> : i \in Bands}

SharesBand(h, g) == BandsOf(h) \cap BandsOf(g) # {}
IsNear(h, g) == Hamming(h, g) <= MaxDistance
=============================================================================
