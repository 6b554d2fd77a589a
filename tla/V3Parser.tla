------------------------------ MODULE V3Parser ------------------------------
(***************************************************************************)
(* How the attestation contract cuts a raw quote into pieces               *)
(* (verifier/contracts/lib/QuoteV3Auth/V3Parser.sol).  A raw quote is      *)
(* represented by its shape: its length and the numbers the parser reads   *)
(* from it.  Little-endian numbers stand for themselves.                   *)
(***************************************************************************)
EXTENDS Integers

MINIMUM_QUOTE_LENGTH == 1020

\* Where the pieces of a quote start: the header and the enclave report are signed, then
\* come four bytes of length and the authentication data.
SignedLength == 432
AuthStart    == 436

\* header says that version, key type, TEE type and vendor are the supported ones;
\* qeAuthSize, certType and certDataSize are read from the authentication data.
Shape == [length : Nat, authDataSize : Nat, header : BOOLEAN,
          qeAuthSize : Nat, certType : Nat, certDataSize : Nat]

\* BytesUtils.substring reverts when the piece does not lie in the bytes it is cut from.
HasBytes(size, offset, len) == offset + len <= size

\* The offset of the certification data inside the authentication data.
CertOffset(s) == 578 + s.qeAuthSize + 6

\* Every substring of parseAuthDataAndVerifyCertType lies in the authentication data.
AuthDataInRange(s) ==
    /\ HasBytes(s.authDataSize, 578, s.qeAuthSize)
    /\ HasBytes(s.authDataSize, 578 + s.qeAuthSize, 2)
    /\ HasBytes(s.authDataSize, 578 + s.qeAuthSize + 2, 4)
    /\ HasBytes(s.authDataSize, CertOffset(s), s.certDataSize)

\* parseInput succeeds.  A quote it refuses and one whose parsing reverts are alike: no
\* caller goes on with either.
parseInput(s) ==
    /\ s.length > MINIMUM_QUOTE_LENGTH
    /\ s.length - AuthStart = s.authDataSize
    /\ s.header
    /\ AuthDataInRange(s)
    /\ s.certType \in 1..5

\* The pieces of a parsed quote, as <<first byte, length>> in the raw quote: what is
\* signed, the fixed part of the authentication data, the QE's data, the certificates.
Pieces(s) ==
    <<  <<0, SignedLength>>,
        <<AuthStart, 576>>,
        <<AuthStart + 578, s.qeAuthSize>>,
        <<AuthStart + CertOffset(s), s.certDataSize>>  >>

\* The pieces of every quote that parses lie inside the quote, in this order and without
\* overlap, whatever sizes the quote claims: no byte is read as two fields
\* (the length checks of parseInput and parseAuthDataAndVerifyCertType).
PiecesDisjoint(s) ==
    parseInput(s) =>
       LET p == Pieces(s)
       IN  /\ \A i \in 1..3 : p[i][1] + p[i][2] <= p[i + 1][1]
           /\ p[4][1] + p[4][2] <= s.length
=============================================================================
