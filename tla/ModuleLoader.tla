----------------------------- MODULE ModuleLoader -----------------------------
(***************************************************************************)
(* Loading a title: shadps4_load_images of hw/i386/shadps4.c and the loader  *)
(* it calls, hw/i386/shadps4-loader.c.  The main image, the modules of three *)
(* directories in the order of their paths, the PS2 compiler and an image of *)
(* the functions the machine itself provides are placed one after the other  *)
(* in guest RAM and linked.                                                 *)
(*                                                                          *)
(* A file is what it exports and imports, how large it is, whether it has    *)
(* thread-local storage, and whether it parses; its symbols stand for        *)
(* name, library, module and type together.                                  *)
(***************************************************************************)
EXTENDS Integers, SequencesExt

CONSTANTS
    Listing,       \* the module files a title may have, ordered by path
    FileKinds,     \* what a file may be
    HeapFamily,    \* heap_nids
    StaticExports, \* shadps4_hle_exports
    CompatExports, \* what shadps4_hle_compat_dispatch knows besides
    RamPages,      \* guest RAM for images, in units of 2 MiB
    MaxModules     \* SHADPS4_MAX_MODULES - 1

Main     == "eboot.bin"
Compiler == "ps2-emu-compiler.self"
Hle      == "hle"
Files    == {Main, Compiler} \union Range(Listing)
Missing  == [missing |-> TRUE]
Open     == "open"   \* an import without a provider
Zero     == "zero"   \* a weak one

ASSUME LoaderAssumption ==
    /\ RamPages \in Nat /\ MaxModules \in Nat
    /\ HeapFamily \subseteq StaticExports
    /\ Missing \notin FileKinds
    /\ \A kind \in FileKinds :
         /\ kind.pages \in Nat /\ kind.tls \in BOOLEAN /\ kind.sound \in BOOLEAN
         /\ kind.weak \subseteq kind.imports

\* A libc has all of its heap, or none of it.
ASSUME HeapAssumption ==
    \A kind \in FileKinds : HeapFamily \intersect kind.exports \in {{}, HeapFamily}

VARIABLES
    title,       \* what each file is
    stage,       \* how far shadps4_load_images is
    toLoad,      \* module_names, from the next on
    images,      \* image and modules[], in order: file, place and TLS module id
    nextOffset,  \* next_offset, in pages
    nextTls,     \* next_tls_id
    provided,    \* what hle_image exports
    bound        \* the imports of each image and their providers

loaderVars == <<title, stage, toLoad, images, nextOffset, nextTls, provided, bound>>

LoaderInit ==
    /\ title \in {t \in [Files -> FileKinds \union {Missing}] : t[Main] # Missing}
    /\ stage = "main" /\ toLoad = <<>> /\ images = <<>>
    /\ nextOffset = 0 /\ nextTls = 1 /\ provided = {} /\ bound = <<>>

FilesOf == {images[i].file : i \in DOMAIN images}
Exports(file) == IF file = Hle THEN provided ELSE title[file].exports
Imports(file) == IF file = Hle THEN {} ELSE title[file].imports
-----------------------------------------------------------------------------
(* Placing the files *)

\* shadps4_cleanup_images
Fail ==
    /\ stage' = "failed" /\ toLoad' = <<>> /\ images' = <<>>
    /\ provided' = {} /\ bound' = <<>>
    /\ UNCHANGED <<title, nextOffset, nextTls>>

\* shadps4_load_module, and the place and number of the next.
Place(file, pages, tls) ==
    /\ images' = Append(images, [file |-> file, at |-> nextOffset, pages |-> pages,
                                 tls |-> IF tls THEN nextTls ELSE 0])
    /\ nextOffset' = nextOffset + pages
    /\ nextTls' = IF tls THEN nextTls + 1 ELSE nextTls
Loadable(file) == /\ title[file] \in FileKinds /\ title[file].sound
                  /\ nextOffset + title[file].pages <= RamPages
Load(file) == Place(file, title[file].pages, title[file].tls)

\* The diagnostic mode that boots the compiler in place of the launcher
\* (SHADPS4_PS2_COMPILER_DIRECT) is left out.
LoadMain ==
    /\ stage = "main" /\ Loadable(Main)
    /\ Load(Main)
    /\ stage' = "directories"
    /\ UNCHANGED <<title, toLoad, provided, bound>>

\* shadps4_collect_module_directory, for the three directories, and the sort.
Present == SelectSeq(Listing, LAMBDA file : title[file] # Missing)
Collect ==
    /\ stage = "directories"
    /\ stage' = "modules" /\ toLoad' = Present
    /\ UNCHANGED <<title, images, nextOffset, nextTls, provided, bound>>

LoadNext ==
    /\ stage = "modules" /\ toLoad # <<>>
    /\ Len(images) <= MaxModules /\ Loadable(Head(toLoad))
    /\ Load(Head(toLoad))
    /\ toLoad' = Tail(toLoad)
    /\ UNCHANGED <<title, stage, provided, bound>>

LoadCompiler ==
    /\ stage = "modules" /\ toLoad = <<>>
    /\ IF title[Compiler] = Missing
       THEN UNCHANGED <<images, nextOffset, nextTls>>
       ELSE Len(images) <= MaxModules /\ Loadable(Compiler) /\ Load(Compiler)
    /\ stage' = "hle"
    /\ UNCHANGED <<title, toLoad, provided, bound>>

\* A directory cannot be read, or a file cannot be loaded.
LoadFails ==
    /\ \/ stage = "main" /\ ~Loadable(Main)
       \/ stage = "directories"
       \/ stage = "modules" /\ toLoad # <<>>
             /\ (Len(images) > MaxModules \/ ~Loadable(Head(toLoad)))
       \/ stage = "modules" /\ toLoad = <<>> /\ title[Compiler] # Missing
             /\ (Len(images) > MaxModules \/ ~Loadable(Compiler))
       \/ stage = "hle" /\ nextOffset + 1 > RamPages
    /\ Fail
-----------------------------------------------------------------------------
(* The machine's own image, and the links *)

\* shadps4_build_hle_image: the static exports, and of the others those the
\* machine knows and an image asks for.
BuildHle ==
    /\ stage = "hle" /\ nextOffset + 1 <= RamPages
    /\ provided' = StaticExports \union
         (CompatExports \intersect UNION {Imports(file) : file \in FilesOf})
    /\ Place(Hle, 1, FALSE)
    /\ stage' = "link"
    /\ UNCHANGED <<title, toLoad, bound>>

\* shadps4_prefer_hle_heap_provider
PreferHleMalloc(file, symbol) == file = Compiler /\ symbol = "malloc"
PreferHle(file, symbol) == file = Compiler /\ symbol \in HeapFamily

\* shadps4_link_modules: the first image in order that exports the symbol, the
\* machine's own, which is last, before the others where it is preferred.
Provider(file, symbol) ==
    LET of == {i \in DOMAIN images : symbol \in Exports(images[i].file)}
    IN  IF PreferHle(file, symbol) /\ symbol \in provided THEN Hle
        ELSE IF of # {} THEN images[CHOOSE i \in of : \A j \in of : i <= j].file
        ELSE IF symbol \in title[file].weak THEN Zero
        ELSE Open

Link ==
    /\ stage = "link"
    /\ bound' = [file \in FilesOf |->
                   [symbol \in Imports(file) |-> Provider(file, symbol)]]
    /\ stage' = "loaded"
    /\ UNCHANGED <<title, toLoad, images, nextOffset, nextTls, provided>>

\* The check at the start of shadps4_prepare_boot_cpu, at each reset.
Unresolved == \E file \in DOMAIN bound : \E symbol \in DOMAIN bound[file] :
                  bound[file][symbol] = Open
Boot ==
    /\ stage = "loaded" /\ ~Unresolved
    /\ stage' = "running"
    /\ UNCHANGED <<title, toLoad, images, nextOffset, nextTls, provided, bound>>

LoaderNext == LoadMain \/ Collect \/ LoadNext \/ LoadCompiler \/ LoadFails \/ BuildHle
              \/ Link \/ Boot

LoaderSpec == LoaderInit /\ [][LoaderNext]_loaderVars
-----------------------------------------------------------------------------
(* Properties *)

\* Images lie apart in guest RAM, and have TLS module ids of their own, whatever
\* the sizes of the files and whichever of them are there.
ImagesApart ==
    \A i, j \in DOMAIN images : i < j =>
      /\ images[i].at + images[i].pages <= images[j].at
      /\ images[i].tls = images[j].tls => images[i].tls = 0

\* The images of one process allocate and free with one allocator (comment in
\* shadps4_prefer_hle_heap_provider): the title's with its libc, wherever it is
\* among the modules, or all with the machine's; the PS2 compiler, which has not
\* booted that libc, with the machine's.
SameProcess(file, other) == (file = Compiler) = (other = Compiler)
HeapTogether ==
    stage = "running" =>
      \A file, other \in DOMAIN bound : SameProcess(file, other) =>
        \A s \in HeapFamily \intersect DOMAIN bound[file],
           t \in HeapFamily \intersect DOMAIN bound[other] :
          /\ bound[file][s] = bound[other][t]
          /\ file = Compiler => bound[file][s] = Hle
=============================================================================
