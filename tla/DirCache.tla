------------------------------ MODULE DirCache ------------------------------
(***************************************************************************)
(* The persistent caches as the engine calls them (src/src/caches/dir.rs, *)
(* no.rs, composite.rs; config.rs chooses one): several engines, or       *)
(* successive runs of one program with an edited AcmeConfig, share the    *)
(* cache directories.  Every engine loads and stores its certificate      *)
(* under the key of its domains and directory URL and its account under  *)
(* the key of its contacts and directory URL.                             *)
(*                                                                         *)
(* A string is a sequence of characters and the zero byte is Nul.  The    *)
(* file name is a prefix and the base64url-no-pad SHA-256 digest of the   *)
(* hashed byte string; both encodings are taken to be collision free, so *)
(* a name is the pair of its prefix and that byte string.  The content of *)
(* a file records what was stored in it: a certificate or an account for *)
(* a list and a directory URL, or Torn when fs::write was cut short.      *)
(***************************************************************************)
EXTENDS Naturals, Sequences, FiniteSets, SequencesExt

CONSTANTS
  Engines,        \* AcmeState instances on one machine, now or in turn
  Dirs,           \* the cache directories (DirCache::new(dir))
  NoDir,          \* in place of a directory: NoCache
  DomainLists,    \* config.domains the builder may be given
  ContactLists,   \* config.contact the builder may be given
  DirectoryUrls,  \* config.directory_url the builder may be given
  MaxFiles        \* model bound: cache files a directory holds

VARIABLES
  config,  \* per engine: the AcmeConfig it was built from
  files    \* per directory: file name -> content

vars == <<config, files>>

ASSUME MaxFilesAssumption == MaxFiles \in Nat \ {0}

Nul == "\\0"   \* the zero byte, a character no name or URL contains

(* AcmeConfig: the fields the caches see.  cache(DirCache::new(d)) is the *)
(* pair <<d, d>>, cache_compose(c, a) any pair, and NoCache (the default,  *)
(* or cache_option(None)) is NoDir.                                         *)
Configs ==
  [domains: DomainLists, contact: ContactLists, url: DirectoryUrls,
   cert_cache: Dirs \cup {NoDir}, account_cache: Dirs \cup {NoDir}]

Entry(kind, list, url) == [kind |-> kind, list |-> list, url |-> url]

(* What a load returns or a file holds besides a stored entry: Ok(None), *)
(* an I/O error, and a file torn by a cut-short write.                     *)
Absent == Entry("none", <<>>, <<>>)
IoErr == Entry("err", <<>>, <<>>)
Torn == Entry("torn", <<>>, <<>>)

-----------------------------------------------------------------------------
(* The byte string the SHA-256 context is fed: every element followed by  *)
(* a zero byte, then the directory URL.                                    *)
HashInput(list, url) ==
  FlattenSeq([i \in 1..Len(list) |-> list[i] \o <<Nul>>]) \o url

(* Mutant: the zero byte after each element is not fed to the context.    *)
CertFileNameUnseparated(domains, url) ==
  <<"cached_cert_", FlattenSeq(domains) \o url>>

CertFileName(domains, url) == <<"cached_cert_", HashInput(domains, url)>>

AccountFileName(contact, url) == <<"cached_account_", HashInput(contact, url)>>

(* read_if_exist: the content, None when the file does not exist, or any  *)
(* other I/O error.                                                        *)
ReadIfExist(d, name) ==
  {IoErr, IF name \in DOMAIN files[d] THEN files[d][name] ELSE Absent}

(* write: create_dir_all, then fs::write, which truncates the file before *)
(* writing it.  An error before the file is opened leaves the directory   *)
(* as it was; one after leaves the file torn.                              *)
Write(d, name, content) ==
  /\ name \in DOMAIN files[d] \/ Cardinality(DOMAIN files[d]) < MaxFiles
  /\ \E out \in {content, Torn} :
    files' = [files EXCEPT ![d] = (name :> out) @@ @]

(* NoCache: load_cert and load_account return Ok(None).                    *)
NoCacheLoad == {Absent}

(* NoCache: store_cert and store_account return Ok(()) and write nothing. *)
NoCacheStore == UNCHANGED files

(* DirCache::load_cert and store_cert.                                     *)
DirLoadCert(d, domains, url) == ReadIfExist(d, CertFileName(domains, url))
DirStoreCert(d, domains, url, pem) == Write(d, CertFileName(domains, url), pem)

(* DirCache::load_account and store_account.                               *)
DirLoadAccount(d, contact, url) == ReadIfExist(d, AccountFileName(contact, url))
DirStoreAccount(d, contact, url, key) ==
  Write(d, AccountFileName(contact, url), key)

(* CompositeCache (and a DirCache, whose two halves are one directory):   *)
(* load_cert goes to the cert cache with the engine's domains.             *)
LoadCert(e) ==
  LET c == config[e] IN
  IF c.cert_cache = NoDir THEN NoCacheLoad
  ELSE DirLoadCert(c.cert_cache, c.domains, c.url)

(* load_account goes to the account cache with the engine's contacts.     *)
LoadAccount(e) ==
  LET c == config[e] IN
  IF c.account_cache = NoDir THEN NoCacheLoad
  ELSE DirLoadAccount(c.account_cache, c.contact, c.url)

-----------------------------------------------------------------------------
Init ==
  /\ config \in [Engines -> Configs]
  /\ files = [d \in Dirs |-> <<>>]

(* process_cert queues store_cert(domains, directory_url, pem) for a new  *)
(* certificate.                                                            *)
StoreCert(e) ==
  LET c == config[e] IN
  /\ IF c.cert_cache = NoDir THEN NoCacheStore
     ELSE DirStoreCert(c.cert_cache, c.domains, c.url,
                       Entry("cert", c.domains, c.url))
  /\ UNCHANGED config

(* poll_next_infinite queues store_account(contact, directory_url, key)   *)
(* for a generated account key.                                            *)
StoreAccount(e) ==
  LET c == config[e] IN
  /\ IF c.account_cache = NoDir THEN NoCacheStore
     ELSE DirStoreAccount(c.account_cache, c.contact, c.url,
                          Entry("account", c.contact, c.url))
  /\ UNCHANGED config

(* The program is stopped and started again with an edited AcmeConfig     *)
(* (AcmeConfig::new(...) ... .state()), over the same directories.         *)
Reconfigure(e) ==
  /\ \E c \in Configs : config' = [config EXCEPT ![e] = c]
  /\ UNCHANGED files

Next == \E e \in Engines : StoreCert(e) \/ StoreAccount(e) \/ Reconfigure(e)

Spec == Init /\ [][Next]_vars

-----------------------------------------------------------------------------
(* The cache keys keep configurations apart: whatever an engine's cert     *)
(* cache load returns is nothing, an error, a torn file or a certificate  *)
(* stored for exactly its domains (in order) and directory URL, and its   *)
(* account cache load likewise for its contacts, however other engines   *)
(* and earlier runs with other configurations used the same directories.  *)
CacheIsolation ==
  \A e \in Engines :
    /\ LoadCert(e) \subseteq
         {Absent, IoErr, Torn, Entry("cert", config[e].domains, config[e].url)}
    /\ LoadAccount(e) \subseteq
         {Absent, IoErr, Torn, Entry("account", config[e].contact, config[e].url)}

=============================================================================
