----------------------------- MODULE Appliance -----------------------------
(***************************************************************************)
(* scripts/mk_appliance.py writes a site into the slab of a kernel image,  *)
(* http_appliance_init of lib/http.S turns the offsets it left there into  *)
(* pointers at boot, and http_match_uri serves from them.  The layout of   *)
(* the slab is defined on both sides, with overrides on both.              *)
(*                                                                         *)
(* A byte is one of the tokens a path, a header or a body is made of.  The *)
(* header and a route entry of the slab take one unit each.                *)
(***************************************************************************)
EXTENDS Integers, Sequences

CONSTANTS
    NumFiles,       \* bound: names below the public directory
    IndexFile,      \* the top-level index.html
    MaxBody,        \* bound: longest body
    DefaultRoutes,  \* APPLIANCE_MAX_ROUTES unless overridden (512)
    OtherRoutes,    \* bound: another value of MAX_ROUTES
    Gross,          \* header, routes and content by default (255 MiB)
    OtherContent    \* bound: a value of CONTENT_MAX

ASSUME ApplianceAssumption ==
    /\ NumFiles \in Nat /\ IndexFile \in 1 .. NumFiles /\ MaxBody \in Nat
    /\ DefaultRoutes \in Nat /\ OtherRoutes \in Nat

VARIABLES
    site,       \* what the public directory holds under each name
    knobs,      \* MAX_ROUTES and CONTENT_MAX of the kernel and the packager
    image,      \* the packager's output: its entries and its content
    stage       \* "edit", "refused", "packaged" or "booted"

appVars == <<site, knobs, image, stage>>

\* The names in the order in which sorted() has them.
Files == 1 .. NumFiles

RoutesOff == 1
SlabAddr == 1000            \* where the kernel is linked to have the slab
Unset == -1

ContentOff(routes) == RoutesOff + routes

\* include/http.inc: the default content fills what the routes leave.
KernelSlab ==
    LET off == ContentOff(knobs.kernelRoutes)
    IN  off + (IF knobs.kernelContent = Unset THEN Gross - off
               ELSE knobs.kernelContent)

\* The packager's default was computed before --max-routes was looked at.
PackagerContent ==
    IF knobs.content = Unset THEN Gross - ContentOff(DefaultRoutes)
    ELSE knobs.content
PackagerSlab == ContentOff(knobs.routes) + PackagerContent

NoImage == [entries |-> <<>>, content |-> <<>>]

AppInit ==
    /\ site = [f \in Files |-> [kind |-> "absent", body |-> <<>>]]
    /\ knobs \in [kernelRoutes : {DefaultRoutes, OtherRoutes},
                  kernelContent : {Unset, OtherContent},
                  routes : {DefaultRoutes, OtherRoutes},
                  content : {Unset, OtherContent},
                  marks : {0, 1, 2},    \* times the image holds WSPINONE
                  missing : {0, 1}]     \* what the image's end lacks of the slab
    /\ image = NoImage
    /\ stage = "edit"

Regular(f) == site[f].kind \in {"file", "long"}
Body(f) == site[f].body

\* A file, one whose path is too long, or a dotfile or symbolic link.
AddFile ==
    /\ stage = "edit"
    /\ \E f \in Files :
          /\ site[f].kind = "absent"
          /\ \/ site' = [site EXCEPT ![f].kind = "skipped"]
             \/ f # IndexFile /\ site' = [site EXCEPT ![f].kind = "long"]
             \/ \E n \in 0 .. MaxBody :
                   site' = [site EXCEPT ![f] =
                      [kind |-> "file",
                       body |-> [i \in 1 .. n |-> <<"body", f>>]]]
    /\ UNCHANGED <<knobs, image, stage>>

-----------------------------------------------------------------------------
(* mk_appliance.py *)

Root == <<<<"path", 0>>>>
PathOf(f) == <<<<"path", 0>>, <<"path", f>>>>

\* A regular file has a route, the top-level index a second one.
RoutesOf(f) ==
    IF ~Regular(f) THEN <<>>
    ELSE <<[path |-> PathOf(f), body |-> Body(f)]>>
         \o (IF f = IndexFile THEN <<[path |-> Root, body |-> Body(f)]>> ELSE <<>>)

collect_routes ==
    LET upto[n \in 0 .. NumFiles] ==
            IF n = 0 THEN <<>> ELSE upto[n - 1] \o RoutesOf(n)
    IN  upto[NumFiles]

\* Only the Content-Length of the header is told apart.
build_header(body) == <<<<"len", Len(body)>>>>

\* Mutant: the body goes first, at offset zero for the first route.
EmitRoute_first(slab, r) ==
    LET off == Len(slab.content)
    IN  [entries |-> Append(slab.entries,
            [path_off |-> off + Len(r.body), path_len |-> Len(r.path),
             hdr_off  |-> off + Len(r.body) + Len(r.path),
             body_off |-> off, body_len |-> Len(r.body)]),
         content |-> slab.content \o r.body \o r.path \o build_header(r.body)]
\* One turn of build_slab: path, header and body go behind what is there.
EmitRoute(slab, r) ==
    LET off == Len(slab.content)
    IN  [entries |-> Append(slab.entries,
            [path_off |-> off, path_len |-> Len(r.path),
             hdr_off  |-> off + Len(r.path),
             body_off |-> off + Len(r.path) + 1, body_len |-> Len(r.body)]),
         content |-> slab.content \o r.path \o build_header(r.body) \o r.body]

build_slab(routes) ==
    LET upto[n \in 0 .. Len(routes)] ==
            IF n = 0 THEN NoImage ELSE EmitRoute(upto[n - 1], routes[n])
    IN  upto[Len(routes)]

\* The marker is there once, all of the slab behind it, and the slab is of the
\* size the kernel says it is.
find_slab_offset == knobs.marks = 1 /\ PackagerSlab <= KernelSlab - knobs.missing
verify_kernel_ksize == KernelSlab = PackagerSlab

package ==
    /\ stage = "edit"
    /\ LET routes == collect_routes
           slab   == build_slab(routes)
           fits   == /\ Len(routes) <= knobs.routes
                     /\ \A f \in Files : site[f].kind # "long"
                     /\ Len(slab.content) <= PackagerContent
       IN  \/ /\ find_slab_offset /\ verify_kernel_ksize /\ fits
              /\ image' = slab
              /\ stage' = "packaged"
           \/ /\ ~(find_slab_offset /\ verify_kernel_ksize /\ fits)
              /\ stage' = "refused"
              /\ UNCHANGED image
    /\ UNCHANGED <<site, knobs>>

-----------------------------------------------------------------------------
(* lib/http.S *)

\* Offsets become pointers; a body or header at offset zero is taken for
\* none and left alone.
PatchEntry(e, base) ==
    LET Patch(off) == IF off = 0 THEN 0 ELSE base + off
    IN  [e EXCEPT !.path_off = base + e.path_off,
                  !.body_off = Patch(e.body_off),
                  !.hdr_off  = Patch(e.hdr_off)]

http_appliance_init ==
    /\ stage = "packaged"
    /\ LET base == SlabAddr + ContentOff(knobs.kernelRoutes)
       IN  image' = [image EXCEPT !.entries =
                       [i \in DOMAIN image.entries |-> PatchEntry(image.entries[i], base)]]
    /\ stage' = "booted"
    /\ UNCHANGED <<site, knobs>>

AppNext == AddFile \/ package \/ http_appliance_init

\* What n bytes at address a of the running kernel hold.  The content lies
\* where the packager put it; anything else is something else.
Memory(a, n) ==
    LET start == SlabAddr + ContentOff(knobs.routes)
    IN  [i \in 1 .. n |->
            IF a + i - start \in DOMAIN image.content
            THEN image.content[a + i - start] ELSE <<"other", 0>>]

\* The first entry whose path is the URI; 0 if there is none.
http_match_uri(uri) ==
    LET hits == {i \in DOMAIN image.entries :
                    LET e == image.entries[i] IN
                    e.path_len = Len(uri) /\ Memory(e.path_off, e.path_len) = uri}
    IN  IF hits = {} THEN 0 ELSE CHOOSE i \in hits : \A j \in hits : i <= j

\* The response to a URI is this body, under its header.
Serves(uri, body) ==
    LET i == http_match_uri(uri) IN
    /\ i # 0
    /\ LET e == image.entries[i]
       IN  /\ Memory(e.hdr_off, 1) = build_header(body)
           /\ Memory(e.body_off, e.body_len) = body

\* A packaged image serves each file of the site as it is, the index at "/"
\* too, and nothing that was skipped.  That the slab sizes agree is not
\* enough for it: by default the sizes agree whatever MAX_ROUTES is, and
\* then only equal values of MAX_ROUTES put the content in the same place.
PackagedServes ==
    stage = "booted" /\ knobs.kernelRoutes = knobs.routes =>
        /\ \A f \in Files : IF Regular(f) THEN Serves(PathOf(f), Body(f))
                            ELSE http_match_uri(PathOf(f)) = 0
        /\ IF Regular(IndexFile) THEN Serves(Root, Body(IndexFile))
           ELSE http_match_uri(Root) = 0
=============================================================================
