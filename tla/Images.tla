------------------------------- MODULE Images --------------------------------
(***************************************************************************)
(* The bytes of an image (image_bytes.c) and how a session takes them      *)
(* (session.c): the header tells what it is and how large, base64 carries  *)
(* it, and a data URL from the wire is taken as it came.  A byte is a      *)
(* number; the names in a header are written out as numbers.               *)
(***************************************************************************)
EXTENDS Repeat, FiniteSets

CONSTANTS
    WireMax,        \* NM_IMAGE_MAX_WIRE_BYTES
    HeadBytes       \* PROBE_HEAD_BYTES

(* Bytes i .. i + Len(w) - 1 (counted from 0) are w; reading past the end   *)
(* is an error of the check itself.                                         *)
Byte(d, i) == d[i + 1]
Has(d, i, w) == \A k \in DOMAIN w : Byte(d, i + k - 1) = w[k]
Unknown == [kind |-> "unknown", w |-> 0, h |-> 0]
Found(kind, w, h) == IF w > 0 /\ h > 0 THEN [kind |-> kind, w |-> w, h |-> h] ELSE Unknown

(* Four bytes, the highest first, as a signed 32-bit number.                *)
Int32(d, i) ==
    LET high == IF Byte(d, i) >= 128 THEN Byte(d, i) - 256 ELSE Byte(d, i)
    IN high * 16777216 + Byte(d, i + 1) * 65536 + Byte(d, i + 2) * 256 + Byte(d, i + 3)

PngSign == <<137, 80, 78, 71, 13, 10, 26, 10>>
Ihdr == <<73, 72, 68, 82>>
Gif8 == <<71, 73, 70, 56>>
Riff == <<82, 73, 70, 70>>
Webp == <<87, 69, 66, 80>>
Vp8(c) == <<86, 80, 56, c>>

SniffPng(d) ==
    IF Len(d) < 24 \/ ~Has(d, 0, PngSign) \/ ~Has(d, 12, Ihdr) THEN Unknown
    ELSE Found("png", Int32(d, 16), Int32(d, 20))

SniffGif(d) ==
    IF Len(d) < 10 \/ ~Has(d, 0, Gif8) THEN Unknown
    ELSE Found("gif", Byte(d, 6) + 256 * Byte(d, 7), Byte(d, 8) + 256 * Byte(d, 9))

(* sniff_jpeg walks the segments to the first frame header; a segment       *)
(* shorter than its own length field ends the walk.                         *)
SniffJpeg(d) ==
    LET n == Len(d)
        m(i) == Byte(d, i + 1)
        bare(i) == m(i) = 1 \/ m(i) \in 208 .. 217
        frame(i) == m(i) \in 192 .. 207 \ {196, 200, 204}
        seglen(i) == 256 * Byte(d, i + 2) + Byte(d, i + 3)
        step(i) == IF Byte(d, i) # 255 THEN i + 1
                   ELSE IF bare(i) THEN i + 2
                   ELSE IF seglen(i) < 2 THEN n ELSE i + 2 + seglen(i)
        at == Until(step, LAMBDA i : i + 4 > n \/ (Byte(d, i) = 255 /\ ~bare(i) /\ frame(i)), 2)
    IN IF n < 4 \/ ~Has(d, 0, <<255, 216>>) THEN Unknown
       ELSE IF at + 4 > n \/ at + 9 > n THEN Unknown
       ELSE Found("jpeg", 256 * Byte(d, at + 7) + Byte(d, at + 8),
                          256 * Byte(d, at + 5) + Byte(d, at + 6))

(* sniff_webp: the three forms of the first chunk.                          *)
SniffWebp(d) ==
    LET size == Byte(d, 16) + 256 * Byte(d, 17) + 65536 * Byte(d, 18)
                  + 16777216 * (Byte(d, 19) % 128)
        huge == Byte(d, 19) >= 128
        p(i) == Byte(d, 20 + i)
        two(i) == p(i) + 256 * p(i + 1)
    IN IF Len(d) < 20 \/ ~Has(d, 0, Riff) \/ ~Has(d, 8, Webp) THEN Unknown
       ELSE IF huge \/ size < 1 \/ size > Len(d) - 20 THEN Unknown
       ELSE IF Has(d, 12, Vp8(88)) /\ size >= 10
            THEN Found("webp", 1 + two(4) + 65536 * p(6), 1 + two(7) + 65536 * p(9))
       ELSE IF Has(d, 12, Vp8(32)) /\ size >= 10 /\ <<p(3), p(4), p(5)>> = <<157, 1, 42>>
            THEN Found("webp", two(6) % 16384, two(8) % 16384)
       ELSE IF Has(d, 12, Vp8(76)) /\ size >= 5 /\ p(0) = 47
            THEN Found("webp", (two(1) % 16384) + 1,
                       (((two(1) \div 16384) + 4 * two(3)) % 16384) + 1)
       ELSE Unknown

(* nm_image_sniff_kind: the first of the four that knows the bytes.         *)
Sniff(d) ==
    LET known == SelectSeq(<<SniffPng(d), SniffJpeg(d), SniffGif(d), SniffWebp(d)>>,
                           LAMBDA r : r.kind # "unknown")
    IN IF known = <<>> THEN Unknown ELSE known[1]

(* sniff_head_kind: by the signature alone.                                 *)
HeadKind(d) ==
    CASE Len(d) >= 8 /\ Has(d, 0, PngSign) -> "png"
      [] Len(d) >= 3 /\ Has(d, 0, <<255, 216, 255>>) -> "jpeg"
      [] Len(d) >= 4 /\ Has(d, 0, Gif8) -> "gif"
      [] Len(d) >= 12 /\ Has(d, 0, Riff) /\ Has(d, 8, Webp) -> "webp"
      [] OTHER -> "unknown"

(* The formats that are sent: a WebP is known and never sent.               *)
Format(kind) == IF kind \in {"png", "jpeg", "gif"} THEN kind ELSE "unknown"

(* nm_image_file_probe: a file larger than the limit is read at its head    *)
(* only, and what is known of it is told with the refusal.                  *)
Probe(file, max) ==
    LET d == IF Len(file) > max THEN SubSeq(file, 1, IF HeadBytes < Len(file) THEN HeadBytes ELSE Len(file))
             ELSE file
        kind == HeadKind(d)
        s == IF kind # "unknown" /\ Sniff(d).kind = kind THEN Sniff(d) ELSE Unknown
    IN [kind |-> kind, w |-> s.w, h |-> s.h, len |-> Len(d),
        status |-> IF d = <<>> THEN "empty"
                   ELSE IF Len(file) > max THEN "oversize"
                   ELSE IF Format(kind) = "unknown" \/ s.w <= 0 \/ s.h <= 0 THEN "unknown"
                   ELSE "ok"]

---------------------------------------------------------------------------
(* Base64: a letter is its number, "=" is 64, and a character outside the   *)
(* alphabet 65.                                                             *)

Pad == 64

(* nm_image_b64_encode: three bytes to four letters.                        *)
Encode(bytes) ==
    LET n == Len(bytes)
        at(i) == IF i <= n THEN bytes[i] ELSE 0
        group(g) ==
          LET i == 3 * g + 1
              trip == at(i) * 65536 + at(i + 1) * 256 + at(i + 2)
          IN <<trip \div 262144, (trip \div 4096) % 64,
               IF i + 1 <= n THEN (trip \div 64) % 64 ELSE Pad,
               IF i + 2 <= n THEN trip % 64 ELSE Pad>>
    IN Joined([g \in 1 .. (n + 2) \div 3 |-> group(g - 1)])

(* Mutant: padding is taken anywhere.                                       *)
DecodeLoose(s, cap) ==
    LET n == Len(s) \div 4
        three(g) == LET v == [k \in 1 .. 4 |-> s[4 * g + k] % 64]
                        trip == v[1] * 262144 + v[2] * 4096 + v[3] * 64 + v[4]
                    IN SubSeq(<<trip \div 65536, (trip \div 256) % 256, trip % 256>>, 1,
                              3 - Cardinality({k \in 3 .. 4 : s[4 * g + k] = Pad}))
    IN IF Len(s) % 4 # 0 \/ (\E i \in DOMAIN s : s[i] > Pad) THEN [ok |-> FALSE, bytes |-> <<>>]
       ELSE [ok |-> TRUE, bytes |-> Joined([g \in 1 .. n |-> three(g - 1)])]

(* nm_image_b64_decode: whole groups, padded at the end only.  -1 refuses.  *)
Decode(s, cap) ==
    LET group(g) == SubSeq(s, 4 * g + 1, 4 * g + 4)
        pad(q) == Cardinality({k \in 1 .. 4 : q[k] = Pad})
        fine(q, last) ==
          /\ \A k \in 1 .. 4 : q[k] <= Pad
          /\ \A k \in 1 .. 3 : q[k] = Pad => q[k + 1] = Pad
          /\ pad(q) <= 2 /\ (pad(q) > 0 => last)
        v(q, k) == IF q[k] = Pad THEN 0 ELSE q[k]
        bytes(q) ==
          LET trip == v(q, 1) * 262144 + v(q, 2) * 4096 + v(q, 3) * 64 + v(q, 4)
          IN SubSeq(<<trip \div 65536, (trip \div 256) % 256, trip % 256>>, 1, 3 - pad(q))
        last == Len(s) \div 4 - 1
        out == Joined([g \in 1 .. last + 1 |-> bytes(group(g - 1))])
    IN IF Len(s) % 4 # 0 \/ (\E g \in 0 .. last : ~fine(group(g), g = last)) \/ Len(out) > cap
       THEN [ok |-> FALSE, bytes |-> <<>>]
       ELSE [ok |-> TRUE, bytes |-> out]

(* A data URL is [mime, b64], b64 being FALSE where the scheme or the       *)
(* marker is another.                                                       *)
DataUrl(format, bytes) == [mime |-> format, base64 |-> TRUE, b64 |-> Encode(bytes)]

---------------------------------------------------------------------------
(* A session's images.                                                      *)

Refuse(why) == [ok |-> FALSE, why |-> why]
Image(format, s, bytes, url, marker) ==
    [ok |-> TRUE, format |-> format, w |-> s.w, h |-> s.h, bytes |-> Len(bytes),
     url |-> url, marker |-> marker]

(* attach_core: only what its bytes show to be one of the formats sent, and *)
(* within the wire's limit.                                                 *)
AttachCore(d, marker) ==
    LET s == Sniff(d)   format == Format(s.kind)
    IN IF format = "unknown" THEN Refuse("unknown container")
       ELSE IF Len(d) > WireMax THEN Refuse("too large")
       ELSE Image(format, s, d, DataUrl(format, d), marker)

(* nm_session_attach_image: a file, probed first.                           *)
AttachFile(file) ==
    LET p == Probe(file, WireMax)
    IN IF p.status # "ok" THEN Refuse(p.status) ELSE AttachCore(file, "attached")

(* nm_session_attach_image_bytes: what a tool read.                         *)
AttachBytes(d) == IF d = <<>> THEN Refuse("empty file") ELSE AttachCore(d, "tool")

(* nm_session_attach_image_url: the wire's own URL, kept as it came; its    *)
(* bytes are decoded only to tell what it shows, and outrank its label.     *)
AttachUrl(url) ==
    LET d == Decode(url.b64, (Len(url.b64) \div 4) * 3 + 1)
        s == Sniff(d.bytes)
        format == IF Format(s.kind) # "unknown" THEN Format(s.kind) ELSE Format(url.mime)
    IN IF ~url.base64 THEN Refuse("not a base64 data URL")
       ELSE IF ~d.ok THEN Refuse("undecodable payload")
       ELSE Image(format, s, d.bytes, url, "received")
=============================================================================
