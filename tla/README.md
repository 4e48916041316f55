# Verification of liboauth_mod

liboauth_mod is a port of liboauth for the PSP: it signs requests by OAuth 1.0
and carries its own small HTTP client and SHA-1. This directory holds TLA+
models of it, the TLC configurations that check them, and proofs checked by
TLAPS. The models follow the build of `src/Makefile` (`-DPSP`, 32-bit), but for
`hash.c`, which that build gives the kernel's SHA-1: it is modelled over `sha1.c`, as every
other build has it.

## 1. The system

The library is sequential C: it creates no threads. Its state lives for one call
(descriptor, buffers, counters), in objects the caller holds (a SHA-1 context, an
array of parameters), or in three statics (`init_flag`, `randinit`, the state of
`strtok`). Concurrency comes from outside: the server, the network and other
processes' changes to a posted or hashed file.

| Component | Source | State | Operations | Hard parts | Correct when |
|---|---|---|---|---|---|
| Reading to the end | `new_socket.c` 185-220 | buffer, `pos`, three counters | grow, recv, end, error | short reads, moving realloc, end and failure of the peer | nothing is written outside the live block, the buffer returned is the stream, and the caller's `'\0'` fits |
| HTTP exchange | `new_socket.c` 99-150, 222-289, 471-690 | descriptor, request, bytes sent and received, file | stat, build, open, connect, write head and body or file, read, close, parse | partial sends, early replies, resets, a file that changes, keep-alive | descriptor and heap are settled, what is declared is what is sent, what is returned is what was replied, and the call ends |
| Reply parser | `new_socket.c` 405-468 | cursor | parse | a reply cut anywhere, an empty body | header and body are what the server sent |
| Request text | `new_socket.c` 359-403, 482-512 | request buffer | build | lengths | text fits its block |
| HTTP API | `oauth_http.c` | - | five calls, three stubs | ownership of what is returned | the caller gets the content and frees only that |
| SHA-1 context | `sha1.c` | block, index, length, flags | Reset, Input, Result | cut of the message into calls, padding at the block boundary, overflow, misuse | a digest is that of the padded message |
| URL escaping | `oauth.c` 215-337 | buffer, counts | escape, unescape | growth, counting | writes fit, output is clean, unescape inverts escape |
| URL splitting | `oauth.c` 419-491 | `strtok` place, array | split | destructive tokenizer, loop state | every parameter but the signature, in order; an absolute URL is normalised |
| Signing | `oauth.c` 366-394, 520-598, 673-942 | parameter array, string being built | add protocol parameters, sort, serialize, sign | order, escaping, separators, fixed buffers, repeated signing | a server that takes the request apart gets the string that was signed |
| HMAC, body hash | `hash.c`, `oauth.c` 965-980 | three contexts, key pointer, file | sign, hash | block boundary of the key, answers nobody looks at, short reads, read errors | the MAC is that of RFC 2104; the hash is that of all the octets |
| Base64 | `oauth.c` 65-205 | two buffers | encode, decode | lengths not a multiple of 3 or 4, text that was broken | buffers suffice, decode inverts encode |
| Constant-time compare | `oauth.c` 995-1033 | two indices, `diff` | compare | unequal lengths, no early exit | equality |
| Nonce, time | `oauth.c` 624-665 | generator | generate | range | length and alphabet |
| Net modules | `new_socket.c` 40-97 | `init_flag` | init, release | repetition | modules are up exactly between the two |
| Allocation | `xmalloc.c` | - | allocate or exit | exhaustion | never returns NULL for a size |

How they interact: `oauth_sign_url2` splits the URL (`strtok`, unescape), adds the
protocol parameters, sorts (escape), serializes and concatenates (escape), signs
(`hmac_sha1` over the SHA-1 context, base64) and serializes again. The caller gives
the result to `oauth_http_*`, which runs one exchange through `socket_http_*`, which
uses `socket_read_alloc` for the reply and gives it to `parse_http_result`.
`oauth_post_file` reads the file it posts during the exchange. All are plain calls;
there are no callbacks.

`PROJECT.json` lists every component with its status, every hazard with its line and
the properties that cover it (or why none does yet), and maps every definition to
the lines it models.

## 2. Modules

| Module | Models | Composes |
|---|---|---|
| `ReadAll` | the promise of `socket_read_alloc`: bytes are taken in order, a buffer is returned at the end of the stream, NULL only on a failed connection | - |
| `ReadAlloc` | `socket_read_alloc` and `xrealloc`, with the peer | refines `ReadAll` |
| `ReadAllocProofs` | proofs about `ReadAlloc` | extends `ReadAlloc` |
| `HttpExchange` | `oauth_http_get`, `_get2`, `_post`, `_post2`, `oauth_post_file` down to `send` and `recv`, with server, network and file | - |
| `ExchangeReads` | a call of `HttpExchange` whose reading stage is `ReadAlloc` step by step, on the reply the server sends | extends `HttpExchange`, composes it with `ReadAlloc`, refines `HttpExchange` |
| `HttpExchangeProofs` | proofs about `HttpExchange` and `ExchangeReads` | extends `ExchangeReads` |
| `Sha1Context` | `SHA1Reset`, `SHA1Input`, `SHA1PadMessage`, `SHA1Result` | - |
| `HashClients` | `hmac_sha1`, `oauth_body_hash_data`, `oauth_body_hash_file`, and a program of its own, each with a context | extends `Sha1Context`, whose actions it calls |
| `HashProofs` | proofs about `Sha1Context` and `HashClients` | extends `HashClients` |
| `UrlCoding` | `oauth_url_escape`, `oauth_url_unescape` | - |
| `UrlCodingProofs` | proofs about `UrlCoding` | extends `UrlCoding` |
| `SplitParams` | `oauth_split_post_paramters` with `strtok` | - |
| `SplitParamsProofs` | proofs about `SplitParams` | extends `SplitParams` |
| `SignArray` | `oauth_add_protocol`, `oauth_cmpstringp`, `oauth_serialize_url_sep`, `oauth_sign_array2`, `oauth_sign_url2`; as an abstract specification, a server of RFC 5849 (`Normalized`) | escaping and splitting as functions, in the place of `UrlCoding` and `SplitParams` |
| `MCSignArray` | the arrays, keys and tokens of its runs | extends `SignArray` |
| `SignArrayProofs` | proofs about the array and about how a string is serialized | extends `SignArray` |
| `SignServerProofs` | proofs that a server reads what was signed | extends `SignArrayProofs` |
| `Base64` | `oauth_encode_base64`, `oauth_decode_base64`, and what may happen to the text between them | - |
| `SignatureCheck` | `oauth_time_independent_equals`, on the text that `Base64` made | extends `Base64` |
| `MCSignatureCheck` | the octets of its run | extends `SignatureCheck` |
| `SignatureCheckProofs` | proofs about `SignatureCheck` and `Base64` | extends `SignatureCheck` |

Every `.cfg` of a passing run gives the constants and lists the properties; definitions
named like a bug (`GrowToTheBrim`, `SendIgnoresShort`, ...) are changed versions of
the definition that follows them. No behaviour uses them: `PROJECT.json` names, for
each property, the change that makes TLC find it violated.

### State and code

* **ReadAlloc.** Variables carry the names of the C locals. `pc` is `"grow"` at the
  head of `for(;;)`, `"recv"` in the inner loop. A pointer is `[block, off]`: `block`
  is the number of the allocation it points into, which changes with every
  `xrealloc`. The buffer holds stream positions, so a lost, repeated or reordered byte
  is visible. `recv` answers any number of bytes it is asked for and has, 0 at the end of
  the stream, -1 on a failed connection; on a failed connection it may also answer 0,
  as it does when a send has already reported the error.
* **HttpExchange.** `pc` walks through the statements of the three `socket_http_`
  functions, which differ only in the build step and in what they write; one set of
  actions serves them, guarded by `call.api`. Requests and replies are byte counts;
  a reply is `ReplyHead` bytes of header, then a body; `ReplySpace` is where its status
  line has the space that `parse_http_result` looks for. `heap` is the set of blocks
  allocated and not freed. `Parsed` is `parse_http_result` as a function of the bytes
  that arrived. The server reads, may answer once it has the head, and closes after
  its reply when asked to; closing with unread request bytes resets the connection;
  the network may fail at any time. Another process may change the file at any step
  until it is read; `stat` and `fopen` may fail although it is there, and `fread` may meet an
  error in any block (`readFailed`). `Reading` stands for `socket_read_alloc`: it takes the stream in order and
  answers as that function may, exhaustion of memory included.
* **ExchangeReads.** The states of `HttpExchange` and of `ReadAlloc` side by side: `got` is `sumsize`, `answer` is
  `ret`, `srvSent` is `arrived`. In the stage `"read"` the call moves by the steps of `ReadAlloc` and by no other;
  everything else is `HttpExchange`'s. The buffer holds the places of the stream, so that the bytes returned can be
  compared with those of the body.
* **Sha1Context.** `Intermediate_Hash` is the sequence of octets that
  `SHA1ProcessMessageBlock` has been given; two digests are equal in the model exactly when
  the same padded message was hashed. The length words wrap at `LowMod` and `HighMod`.
* **UrlCoding.** A character is its code below `Base * Base`; `'%XX'` is `Percent` and
  two digits in base `Base`. `touched` is how far the buffer has been written,
  terminators included.
* **SplitParams.** A string is a sequence of separators and tokens; a token is what the
  function asks of it: is it a signature, a URL (with or without a path), is `:80` in it, as it stands or once it is
  unescaped. `t1` is the copy that `strtok` cuts with `NUL`s. What is done to an element is three steps, as in the code: it is copied,
  unescaped or not; a URL without a path is copied anew, from the token, with its slash; and the port is looked for in
  what the element has become. The array keeps with each element the token that it was made from.
* **HashClients.** `user` is who has the context. `todo` is the list of SHA-1 calls that `hmac_sha1`
  or `oauth_body_hash_data` has still to make, with the lengths it gives; the calls are the
  actions of `Sha1Context`, answers included, and the answers go unused as they do in the
  code. `digest` tells the octets that were hashed apart by number; what they were (key, pads,
  inner digest) is in `value`, a term. A file gives a block, its rest, less on
  an error, or nothing.
* **SignArray.** A character is a number, in the order of the codes; a word that matters only as a
  whole (`oauth_nonce`, a time, the text of a MAC) is one character. Those below 0 are
  reserved; `c - Shift` is the escape of such a `c`, which sorts before all unreserved characters as `'%'`
  does. The sorted array is given by ranks (`InOrder`): the n-th element is that with n - 1 before it, which says
  what `qsort` returns and not how. One action is one call
  of `oauth_add_protocol`, the `qsort`, one element of `oauth_serialize_url_sep`, or the signing; `room`
  is what `query` has been reallocated to. `call.form` is how the result is used: both uses
  of `oauth_sign_array2`, and the header that `oauth_serialize_url_sep` documents (`mod` 2 and 4 with the
  rest as `mod` 1). Afterwards the program may sign the array, or the URL it got, again.
* **Base64, SignatureCheck.** Octets and ASCII codes as they are; one action per pass of a
  loop; the `'\0'` that ends what was decoded is an octet of `dest`. Between encoding and decoding, characters that are not base64 may get into the text; in
  place of decoding it may be compared with what a sender could have put in its place.

## 3. Runs

| Run | Question | Result |
|---|---|---|
| `read_alloc` | is the growing buffer right for every split of the stream, and does the function end and keep the promise of `ReadAll`? | holds, 465 states |
| `http_exchange` | descriptor, heap, request and reply at the end of every call; do calls with `Connection: close` end against a server that does its part, and any call once the connection is over? | holds, 1,045,550 states |
| `exchange_reads` | is a call that reads into the growing buffer a call of `HttpExchange`, and is what it returns the body, byte for byte? | holds, 137,770 states |
| `hash_clients` | is a digest always that of the padded message, a MAC that of RFC 2104, a body hash that of the body? | holds, 1,996 states |
| `url_coding` | buffers, the count that stops the reading, cleanliness and round trip | holds, 86,629 states |
| `split_params` | completeness, order, normalisation, termination | holds, 160,014 states |
| `sign_array` | does a server that takes the request apart get what was signed, with the keys, once each, and do the strings fit? | holds, 534,354 states |
| `signature_check` | buffers and round trip of base64; is the comparison equality? | holds, 335,250 states |
| `http_error_null` | `oauth_http.c:57`: an error gives NULL | violated: NULL is written through |
| `http_reply_content` | `oauth_http.c:57-58`: a reply gives its content | violated: an empty body gives NULL |
| `split_returns` | `oauth.c:417`: returns the number of parameters | violated: loops when the signature comes first |
| `file_hash` | `oauth.h:490`: the hash is that of the file | violated: a read error hashes a part of it |

### Bounds, and why they are enough

* `read_alloc`: `AddSize` 3 (2048) leaves two bytes a pass, so `MaxStream` 9 fills the
  buffer four times and ends on both sides of each boundary. The proofs remove both bounds.
* `http_exchange`: head of 1 byte, bodies of 0 and 2 bytes, files of 0, 1 and 3 bytes in
  blocks of 2, two bytes in flight, a reply body of at most one byte: a send can be cut short,
  block the call and fail, a file can need two blocks and the second can be clipped or not be read. The file
  may change once, which is enough to grow, shrink, vanish or appear between any two steps.
  `oauth_http_get2` differs from `oauth_http_get` by a header only and is left out of the runs (not of
  the proofs). The proofs remove all of these bounds.
* `exchange_reads`: three calls, one of each kind; `AddSize` 4 leaves three bytes a pass, so a header of 9 bytes and a body of up
  to 3 end on a boundary of the buffer and beside it, with three growths for the header, a fourth where the body begins and a fifth where it ends. The rest
  is as small as it can be, being checked by `http_exchange`.
* `hash_clients`: a block of 5 octets with a length field of 2, a length that overflows
  at 12 octets (`LowMod * HighMod = 96` bits): messages of one to three blocks, with every
  index at the end, and the overflow reached. Keys are shorter than a block, a block long, and one and
  two longer. A file is cut into reads of two octets, whole or short, with one error. The proofs
  remove the bounds.
* `url_coding`: base 3, all strings up to four of eight characters; `'%'` followed by
  digits, by one digit and by nothing all occur, and the buffer is doubled twice.
* `split_params`: five items hold three tokens of sixteen kinds or any run of separators. The proofs remove the
  bound.
* `sign_array`: a URL (absolute, with a space, or none) and up to two parameters from fourteen,
  which with the protocol's make arrays of nine to be sorted: names that begin other names, empty names and
  values, several `'='`, reserved characters in names and values, protocol parameters that
  are there, nearly there (`oauth_nonceA=`), or without `'='`. `ArgMax` 7 stands for 1024: one of the keys and the
  signature of the plaintext method just fit, and one key is a character too long. Two signings show all that repetition can do:
  a third finds the same array as the second. The proofs remove these bounds.
* `signature_check`: every single octet, so every group of six bits; up to five octets, so two groups with each
  of the three endings; one break anywhere. The proofs remove the bounds.

The systems end with the call that they model, so `CHECK_DEADLOCK` is off.

### Fairness

The code under test is one thread of control, so a step it can take is taken: weak
fairness of the code's step (`Reader`, `Client`, `Split`). A step that waits
for the peer (a `recv` with no data, a `send` with no room) is not enabled, so nothing is
assumed of the peer by it. Nor is a failed allocation (`ReadExits`) a step that is ever owed, so that a
call that waits is not ended by one in the model. `CallEnds` also assumes, as a premise
(`ServerFair`), that the server does what a server owes (`ServerDuty`): read, answer a
whole request, close when asked. They do not assume an answer to part of a request: a
call that waited for one would be found. `LostLinkEndsCall` assumes nothing of the server.
Nothing is assumed of the file.

## 4. Proofs

All theorems are about the specifications that the runs check, for every value
of the constants that their assumptions admit.

* `ReadAllocProofs`: `TypeCorrect`, `RecvIsSafe`, `TerminatorFits`, `ReturnsTheStream`
  and `Refinement`. The inductive invariant ties the three counters together:
  `sumsize = taken`, the buffer holds the stream's prefix of that length, and
  while there is a block, `sumsize + recvsize + 1` is the part of it that is spoken for.
  The last fact is why the terminator fits and why `pos` never leaves the block;
  neither property is inductive without it. Refinement maps `content` to the first
  `sumsize` bytes, so every pass of the inner loop is a `Take`.
* `HttpExchangeProofs`: `DescriptorIsReleased`, `HeapIsSettled`, `WholeRequestAwaited`,
  `BodyFitsDeclared`, `ReplyIsFaithful`, `NothingIsInvented`, `TypeCorrect`. The invariant has a
  conjunct per concern (descriptor, connection, heap, sending, reply), each a function of
  `pc`. The sending part carries, at each stage, how many bytes are accounted
  for by `sent` and `left`, unless a send failed or the file has been shorter than
  declared, or unreadable; this relation between `sent`, `ntotal`, `left` and `declared` is what the two
  theorems about the request need.
* `HttpExchangeProofs`, about `ExchangeReads`: `ReadsImplementExchange`, `ContentIsOfBody`. The steps of `ReadAlloc` in the reading
  stage are the reading steps of `HttpExchange` or stutter (a growth of the buffer is not seen), which needs that what recv
  has handed over is what the call has got (`taken = got`); so every theorem above holds of the call that reads into a growing buffer.
  For the bytes, the buffer's first `got` bytes are the stream's, and the size that `Parsed` answers leaves the header
  before the data. What is shown so is safety: the liveness properties are checked of `HttpExchange` and of
  `ReadAlloc`, each by itself.
* `UrlCodingProofs`: `NeitherLeavesItsBounds`, `EscapedStringIsClean`,
  `EscapeRoundTrip`, `TypeCorrect`. The invariant says that `newlen` is what has been written, what is left
  and the terminator, so that a single doubling is always enough: the block
  already holds a character and a `'\0'`, hence at least the two bytes by which `newlen` grows.
  The round trip has an invariant of its own, `Trip`, that needs no induction over the string: some
  function `pos` says where each character of the original stands in the escaped text, one or three places
  after the one before. Escaping extends it by a place (`LayoutExtends`); while unescaping, what is written
  is a prefix of the original and reading stands at the place of the next character (`PlaceOfTheNext`).

* `HashProofs`, about a context: `NothingLostInChunks`, `DigestIsOfTheMessage`, `OverlongHasNoDigest`,
  `DigestIsKept`, `TypeCorrect`, for any length of block and length field and any moduli of the
  two words. The invariant adds to `ChunksAreTheMessage` that, until something is corrupted, the two words are
  the length in bits (`8 * fed = high * LowMod + low`), that `fed` is whole blocks and `index` octets, and
  that once computed `hashed` stays the padded message. That the padding is the standard's rests on a
  lemma about the fewest zeros, with a case for a tail of one block and of two.
  These theorems are about `Spec`, the context in the hands of any program, which is one of the
  users of `HashClients`.
* `HashProofs`, about the clients: `ClientsUseTheContext`, `ClientsDigestTheirMessage`, `MacIsRfc2104`, `BodyHashIsWhole`. The first says that every
  step of the clients is a step of the context's own specification, so that its invariant is theirs. The
  invariant of the clients says, for each place in `todo`, what has been given to the context so far: the pad,
  then the text or the inner digest, and that their lengths are those that were added up in `fed`. The digest
  that a key is replaced by and the inner digest are told apart by the number of the message that they are of.
* `SplitParamsProofs`: `TypeCorrect`, `FirstIsNormalised`, `NothingIsLost`. For the second the invariant says what each of the three
  steps leaves of the element for the next: after the slash a URL has a path, whatever the copy was, so that `:80` before
  it is found. What is needed for all is that `strtok` finds
  a place that is no separator from wherever it goes on, since the string ends in a `'\0'`: the least
  of a set of numbers, from the library's well-founded order. For the third, an increasing map takes the parameters
  returned so far onto the kept tokens before the place of `strtok`, unless the signature came first and
  the loop is stuck (`Stuck`); an increasing map onto all the kept tokens is the selection that `AllParameters` names.
* `SignArrayProofs`: `ComparisonIsAnOrder`, `TypeCorrect`, `ProtocolAddedOnce`, `QueryFitsItsRoom`, `SeparatorsStandBetween`.
  The first is what `qsort` needs from `oauth_cmpstringp`: a strict order, in which two elements that differ
  are never equal, since escaping is injective and a name ends at the first `'='`. The sorted array then exists: ranks
  in a finite order are a bijection (by cardinalities), so sorting is a permutation and counts stay. The invariant says, for each `pc`, what
  `oauth_serialize_url_sep` was called for (`JobOK`), that nothing is in `query` before its first element and that a
  `'?'` is at its end where no separator is to follow (`LoopOK`), that what is sent holds a consumer key,
  without which the program could not split it again (`KeyOK`), that a plain array stays plain (`ArrayOK`), that no separator stands
  after another as far as `query` has come and in all that has been sent (`PartedOK`), and that counts never grow beyond
  those of the given array or one (`OnceOK`).
* `SignServerProofs`: `KeysComeThrough`, `ServerReads`. The invariant (`WholeInv`) adds to that of `SignArrayProofs`
  what the strings are, and not only how they are parted: the array stays as `qsort` left it, up to the signature
  (`InPlaceOK`); the keys are in it, the signature is its last element and no other is named so (`WordsOK`); as far as
  the loop has come, `query` is the URL and the text of each element that `mod` keeps, one after the other (`LayingOK`);
  and so is what was signed, of the array without the signature, and each string that is sent, of the whole array
  (`LaidOK`). The other end is reasoned about by itself: the parts of a text are the words that were laid into it
  (`PiecesAreWords`), each is read as the parameter it was (`ReadBack`: escaping leaves no character that parts a text,
  and is decoded), so a server gets every element once, in one string or in two (`EachIsSent`). Its order is on
  decoded parameters and that of `oauth_cmpstringp` on elements; an array in the second is in the first
  (`ServerOrder`), and lists of the same members in the same strict order are equal, by the pigeonhole principle
  (`SameInOrder`). So sorting again gives back the array, and what is encoded from it is what was signed.
  `Plain` is needed: section 5 has what is not read as it was signed.
* `SignatureCheckProofs`: `BuffersAreLongEnough`, `ComparisonIsEquality`, `OctetsComeBackWhole`, `TypeCorrect`. The invariant counts
  the characters written as four to a group of three octets begun; for the comparison, `diff` is
  false exactly when the lengths agree and so do all octets read, and as long as
  the lengths agree `j` has not wrapped before the last octet. The round trip has an invariant of its own, `Trip`: each group
  of the text stands where its number says; the characters written are found in the broken text at increasing
  places, and what has been kept of it is those found so far; what has been decoded is the first octets of
  the source, three to a group. That a group comes back is arithmetic on its octets.

Assumptions: the named `ASSUME`s of the modules (sizes are naturals, some positive;
the digits are unreserved characters; the space of a status line and the blank line after it do not
overlap; the length field is shorter than a block, and a digest no longer; what breaks a text is not base64; an array
has a URL; `oarg` is longer than three octets). TLC evaluates them in every run of the module.

Only model-checked: liveness (`EndsWithThePeer`, `CallEnds`, `LostLinkEndsCall`,
`ReturnsUnlessSignatureFirst`), which TLAPS cannot prove here, as it cannot reason about
`ENABLED`.

Proved and not among the properties of a run, being implied by others there:
`BufferIsTheStream` (by `ImplementsReadAll`) and `KeysComeThrough` (by `ServerVerifies`, of which
`KeysArrive` is a part).

## 5. What the models leave out

* Three more places where code and text part, without a run of their own. A keep-alive call reads to the end of the
  connection, so it goes on waiting after the whole reply was sent, although `oauth_http.c:123` says
  "wait for it to finish and return the content of the reply" (`CallEnds` is about the other calls for that
  reason). A message too long is reported as `shaNull`, "Null pointer parameter" (`sha1.c:180`, `Count`), although
  `sha1.h:45` has `shaInputTooLong`. A parameter without `'='` is copied unescaped (`oauth.c:559`, `Text`), although the
  comment at `oauth.c:562` says "escape parameter names and arguments but not the '='".
* Requests that a server cannot be expected to read as they were signed (`Plain`
  in `SignArray`): a URL with a space is signed as it is and sent with `%20`; a parameter without `'='` is not escaped; an
  array signed twice signs the first signature with the rest; a header whose first element is no protocol
  parameter begins with a separator. A key or signature too long for `oarg` gets to the server cut (`Carried`).
* What the caller should do about two things the code does and no text mentions: a call that cannot
  open or connect its socket leaves its request allocated (`new_socket.c:515-521`), and a
  reply cut short by the end of the connection is returned as far as it came, since
  Content-Length is not read. Both are in `HttpExchange` (`Open`, `ConnectFails`, `Parsed`). So is a body left short because the file could
  not be opened or read (`new_socket.c:270`, 276): the call awaits its reply all the same (`AwaitsOnlyWholeRequest`
  names this among its exceptions).
* Text: the wording of requests and headers, `parse_http_url`, the sizes of the blocks that
  request text is put in.
* Values: SHA-1's rounds, the secrets and the method's name when signing, `'+'` and SOH in a token,
  the status code, the escaped form of `oauth_signature`, the scheme of a URL (`:80` goes whatever it is, `:443` never).
* A file that grows while it is hashed, and the kernel's SHA-1 of a PSP build.
* Exhaustion of memory except in `socket_read_alloc` (alone, and in a call): elsewhere `xmalloc` ends the
  process, after which no property speaks.
* Interrupted system calls, and a `send` that answers 0 for a size that is not 0.
* The components marked `not_modelled` in `PROJECT.json`.

## 6. Plan

Done: reading, the exchange, the SHA-1 context and its clients, escaping, splitting, signing, base64
and the comparison, with proofs of every invariant. Left, in this order:

1. `ParseReply` and `RequestText`: `parse_http_result`, `parse_http_url` and the lengths
   of the strings built, over a small alphabet; `Parsed` of `HttpExchange` as
   its specification.
2. `NetModule` (`socket_init`, `socket_release`), `socket_safeclose`, `socket_read`; the length of a nonce.
3. Proofs: those of the new modules. Until then the array, the exchange and the hashes are proved about one by one; that
   `SignArray`'s `Escape` and `Pieces` are what `UrlCoding` and `SplitParams` compute step by step is not stated.
