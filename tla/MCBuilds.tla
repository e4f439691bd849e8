-------------------------------- MODULE MCBuilds ------------------------------
(***************************************************************************)
(* Instances of Builds: two Konfigurations that share a remote library.    *)
(* The program of "app" imports it twice, by the search urls and by the    *)
(* url these find it at; that of "crds" imports it by another url, and a   *)
(* remote YAML file as data.                                               *)
(***************************************************************************)
EXTENDS Builds

TwoKonfigs == {"app", "crds"}
OneKonfig  == {"app"}

LibFile  == <<"site/lib", "lib">>
YamlFile == <<"site", "yaml">>

NoLib    == <<"site/old", "lib">>

AllFiles == {LibFile, YamlFile, NoLib}
OneFile  == {LibFile}
DataFile == {YamlFile}

Code(absolute, url) == [absolute |-> absolute, url |-> url, code |-> TRUE]

Lib     == Code(FALSE, Url("source", "", "lib"))
Kubecfg == Code(FALSE, Url("source", "", "kubecfg"))
AbsLib   == Code(TRUE, Url("http", "site/lib", "lib"))
FoundLib == Code(TRUE, Url("https", "site/lib", "lib"))
Yaml    == [absolute |-> TRUE, url |-> Url("https", "site", "yaml"), code |-> FALSE]

TwoImports == [app |-> <<Lib, FoundLib>>, crds |-> <<AbsLib, Kubecfg, Yaml>>]
OneImports == [app |-> <<Lib>>]

AppPaths == [app |-> <<"vendor">>, crds |-> <<>>]
SiteURLs == [app |-> <<"site/old", "site/lib">>, crds |-> <<>>]
OnePaths == [app |-> <<"vendor">>]
OneURLs  == [app |-> <<"site/old", "site/lib">>]

VendorFile == {<<"vendor", "lib">>}

\* Leading l, i, b and / are lost: "lib" becomes the directory itself.
TrimmedNames == [lib |-> "", kubecfg |-> "kubecfg"]
EmbeddedNames == {"kubecfg"}

TwoBlocks == <<2, 1>>

K8sKinds == [Namespace |-> FALSE, CustomResourceDefinition |-> FALSE,
             ConfigMap |-> TRUE, Service |-> TRUE]

Obj(kind, ns, name) == Object([kind |-> kind, ns |-> ns, name |-> name])

\* Document of the Konfigurations: version 1 of the library has a Service
\* that ties with a ConfigMap, version 2 one with a name of its own.
AppDoc(lib) ==
    Map([ns   |-> List(<<Obj("Namespace", "", "team"), Null>>),
         apps |-> Map([a |-> Obj("ConfigMap", "team", "one"),
                       b |-> Bundle(<<Obj("Service", "team", IF lib = Whole[1] THEN "one" ELSE "two")>>)]),
         cm   |-> Obj("ConfigMap", "", "one")])

\* The YAML file, which if it is cut off ends in the middle of a document.
YamlDoc(blocks) ==
    CASE blocks = <<>> -> Null
      [] blocks = <<1>> -> List(<<Obj("CustomResourceDefinition", "", "one"), Scalar("kind")>>)
      [] OTHER -> List(<<Obj("CustomResourceDefinition", "", "one"), Obj("Namespace", "", "zone")>>)

TwoDocuments(k, contents) ==
    IF k = "app" THEN AppDoc(contents[1])
    ELSE Map([yaml |-> YamlDoc(contents[3]), cm |-> Obj("ConfigMap", "team", "crds")])

ListDocument(k, contents) ==
    Map([list |-> Bundle(<<Obj("ConfigMap", "", "one"), Obj("Service", "", "two")>>),
         cm   |-> Obj("ConfigMap", "team", "crds")])

\* The documents of the instances, with the values in them.
RECURSIVE ValuesIn(_)
ValuesIn(doc) ==
    {doc} \union IF doc[1] \in {"map", "list", "bundle"}
                 THEN UNION {ValuesIn(doc[2][k]) : k \in DOMAIN doc[2]} ELSE {}

RECURSIVE HeightOf(_)
HeightOf(doc) ==
    IF doc[1] \in {"map", "list", "bundle"}
    THEN Max({0} \union {1 + HeightOf(doc[2][k]) : k \in DOMAIN doc[2]}) ELSE 0

TwoValues == UNION {UNION {ValuesIn(TwoDocuments(k, c)) : c \in Inputs(k)} : k \in TwoKonfigs}
OneValues == ValuesIn(ListDocument("app", <<>>))

HeightsOfTwo == [v \in TwoValues |-> HeightOf(v)]
HeightsOfOne == [v \in OneValues |-> HeightOf(v)]

Spaces == <<"", "konfig", "team">>
Names  == <<"crds", "one", "team", "two", "zone">>
Ranks  == [n \in Range(Spaces) \X Range(Names) |->
            CHOOSE r \in 0..14 : n = <<Spaces[1 + (r \div 5)], Names[1 + (r % 5)]>>]
===============================================================================
