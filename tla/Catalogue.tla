--------------------------------- MODULE Catalogue -----------------------------
(***************************************************************************)
(* The staff's work on products and categories (product.service.ts,        *)
(* product-category.service.ts).  Apart from the deletion of a product no  *)
(* handler uses a transaction: each is a chain of awaits, and what one     *)
(* await found is used by the next.                                        *)
(***************************************************************************)
EXTENDS Calls, FiniteSets, FiniteSetsExt

CONSTANTS
    Product,     \* rows there may be, of products and of categories
    Name,        \* names a product or a category may have; each has a base slug of its own
    MaxSuffix,   \* bound: suffixes of a slug
    Picture,     \* product images
    VariantId,   \* variants, by their label
    Stocks,      \* stock quantities a request may set
    ProductDtos  \* create and update requests enumerated, out of ProductDto

ASSUME CatalogueAssumption == MaxSuffix \in Nat /\ Stocks \subseteq Nat /\ IsFiniteSet(Picture)

\* ProductCreateDto names variants and images, ProductUpdateDto variants and related products.
ProductDto ==
    [name : Name, variants : SUBSET VariantId, pictures : SUBSET Picture, related : SUBSET Product]

ASSUME ProductDtoAssumption == ProductDtos \subseteq ProductDto

VARIABLES
    products,    \* id -> product row, variants and relations included
    categories,  \* id -> category row
    images,      \* id -> product image row
    contended    \* products whose image calls have overlapped or stopped half-way, or whose
                 \* create request came to several primary images (history)

catalogueVars == <<products, categories, images, contended>>

\* generateSlug(name), with the suffix ensureUniqueSlug appended, 0 for none.
Slug == Name \X (0 .. MaxSuffix)

NoRow == [slug |-> <<"none", 0>>]

NoImage == [of |-> "none"]

ProductRow ==
    [slug : Slug, category : Product, stock : Int, isActive : BOOLEAN, deleted : BOOLEAN,
     variants : SUBSET VariantId, related : SUBSET Product, ordered : BOOLEAN]

CategoryRow == [slug : Slug, isActive : BOOLEAN, deleted : BOOLEAN]

ImageRow == [of : Product, isPrimary : BOOLEAN, sortOrder : Nat, deleted : BOOLEAN]

Found(rows, x) == rows[x] # NoRow /\ ~rows[x].deleted

\* Rows with the slug, deleted ones left out: what ensureUniqueSlug sees.
SlugTaken(rows, slug, except) == \E x \in Product \ except : Found(rows, x) /\ rows[x].slug = slug

\* The unique index, which covers deleted rows as well.
SlugIndexed(rows, slug, except) ==
    \E x \in Product \ except : rows[x] # NoRow /\ rows[x].slug = slug

\* ensureUniqueSlug: the first suffix that is free.
FreeSlugs(rows, name, except) ==
    {s \in {name} \X (0 .. MaxSuffix) :
        /\ ~SlugTaken(rows, s, except)
        /\ \A n \in 0 .. s[2] - 1 : SlugTaken(rows, <<name, n>>, except)}

LiveImages(x) == {i \in Picture : images[i] # NoImage /\ images[i].of = x /\ ~images[i].deleted}

Primaries(x) == {i \in LiveImages(x) : images[i].isPrimary}

\* The call is at work on the images of the product.
AtImages(p, x) ==
    /\ calls[p].at \in {"product.images", "image.unset", "image.sort", "image.insert", "image.delete",
                        "image.next", "image.primary"}
    /\ calls[p].id = x

\* orderBy sortOrder, the first or the last.
FirstImages(x) == {i \in LiveImages(x) : \A j \in LiveImages(x) : images[i].sortOrder <= images[j].sortOrder}

NextOrder(x) ==
    IF LiveImages(x) = {} THEN 0 ELSE Max({images[i].sortOrder : i \in LiveImages(x)}) + 1

\* One category and one product in it, some images, at most one of them primary.
CatalogueInit ==
    \E first \in Product, name \in Name :
        /\ categories = [x \in Product |-> IF x = first
               THEN [slug |-> <<name, 0>>, isActive |-> TRUE, deleted |-> FALSE] ELSE NoRow]
        /\ products = [x \in Product |-> IF x = first
               THEN [slug |-> <<name, 0>>, category |-> first, stock |-> 0, isActive |-> TRUE,
                     deleted |-> FALSE, variants |-> {}, related |-> {}, ordered |-> FALSE]
               ELSE NoRow]
        /\ \E shown \in SUBSET Picture : \E primary \in SUBSET shown :
              /\ Cardinality(primary) <= 1
              /\ images = [i \in Picture |-> IF i \in shown
                     THEN [of |-> first, isPrimary |-> i \in primary,
                           sortOrder |-> IF i \in primary THEN 0 ELSE 1, deleted |-> FALSE]
                     ELSE NoImage]
        /\ contended = {}

-------------------------------------------------------------------------------
(* Products                                                                *)

\* create: the category is found and a free slug chosen.
ProductCreate(p, dto, c) ==
    /\ Found(categories, c)
    /\ \E s \in FreeSlugs(products, dto.name, {}) :
          Begin(p, [at |-> "product.insert", slug |-> s, category |-> c, dto |-> dto])
    /\ UNCHANGED catalogueVars

\* create: the row and its variants, which the index on the slug may refuse.
ProductInsert(p) ==
    /\ At(p, "product.insert")
    /\ LET c == calls[p]
       IN  \/ SlugIndexed(products, c.slug, {}) /\ Return(p) /\ UNCHANGED products
           \/ /\ ~SlugIndexed(products, c.slug, {})
              /\ \E x \in Product :
                    /\ products[x] = NoRow
                    /\ products' = [products EXCEPT ![x] =
                           [slug |-> c.slug, category |-> c.category, stock |-> 0, isActive |-> TRUE,
                            deleted |-> FALSE, variants |-> c.dto.variants, related |-> {},
                            ordered |-> FALSE]]
                    /\ Goto(p, [at |-> "product.images", id |-> x, pictures |-> c.dto.pictures])
    /\ UNCHANGED <<categories, images, contended>>

\* create: the request's images in one statement. Primary are those it marks, the first one too
\* unless the request says that it is not, and the first one when no other is: a request that
\* marks one image and leaves the first unsaid makes two.
ProductImages(p) ==
    /\ At(p, "product.images")
    /\ LET c == calls[p]
           fresh == {i \in c.pictures : images[i] = NoImage}
       IN  \/ fresh = {} /\ UNCHANGED <<images, contended>>
           \/ \E marked \in SUBSET fresh \ {{}} :
                 /\ images' = [i \in Picture |-> IF i \in fresh
                        THEN [of |-> c.id, isPrimary |-> i \in marked, sortOrder |-> 0,
                              deleted |-> FALSE]
                        ELSE images[i]]
                 /\ contended' = IF Cardinality(marked) > 1 THEN contended \cup {c.id}
                                 ELSE contended
    /\ Return(p)
    /\ UNCHANGED <<products, categories>>

\* update: findOne, the category the product moves to (or stays in), a free slug for its name.
ProductUpdate(p, x, dto, c) ==
    /\ Found(products, x)
    /\ Found(categories, c) \/ c = products[x].category
    /\ \E s \in FreeSlugs(products, dto.name, {x}) :
          Begin(p, [at |-> "product.write", id |-> x, slug |-> s, category |-> c, dto |-> dto])
    /\ UNCHANGED catalogueVars

ProductWrite(p) ==
    /\ At(p, "product.write")
    /\ LET c == calls[p]
       IN  \/ SlugIndexed(products, c.slug, {c.id}) /\ Return(p) /\ UNCHANGED products
           \/ /\ ~SlugIndexed(products, c.slug, {c.id})
              /\ products' = [products EXCEPT ![c.id].slug = c.slug, ![c.id].category = c.category]
              /\ Goto(p, [at |-> "product.variants", id |-> c.id, dto |-> c.dto])
    /\ UNCHANGED <<categories, images, contended>>

\* syncVariants: rows not in the request are deleted; the others are updated by id, deleted
\* meanwhile or not.
ProductVariants(p) ==
    /\ At(p, "product.variants")
    /\ LET c == calls[p]
       IN  /\ products' = [products EXCEPT ![c.id].variants = @ \cap c.dto.variants]
           /\ Goto(p, [at |-> "product.newvariants", id |-> c.id, related |-> c.dto.related,
                       variants |-> c.dto.variants \ products[c.id].variants])
    /\ UNCHANGED <<categories, images, contended>>

\* syncVariants: those the request names without an id are created.
ProductNewVariants(p) ==
    /\ At(p, "product.newvariants")
    /\ LET c == calls[p]
       IN  /\ products' = [products EXCEPT ![c.id].variants = @ \cup c.variants]
           /\ Goto(p, [at |-> "product.unrelate", id |-> c.id, related |-> c.related])
    /\ UNCHANGED <<categories, images, contended>>

\* syncRelated: every relation of the product goes.
ProductUnrelate(p) ==
    /\ At(p, "product.unrelate")
    /\ products' = [products EXCEPT ![calls[p].id].related = {}]
    /\ Goto(p, [calls[p] EXCEPT !.at = "product.relate"])
    /\ UNCHANGED <<categories, images, contended>>

\* syncRelated: the products that exist are related, never the product itself; the statement
\* fails on a relation that another call has put there meanwhile.
ProductRelate(p) ==
    /\ At(p, "product.relate")
    /\ LET c == calls[p]
           wanted == {y \in c.related \ {c.id} : Found(products, y)}
       IN  products' = [products EXCEPT ![c.id].related = IF @ \cap wanted = {} THEN @ \cup wanted ELSE @]
    /\ Return(p)
    /\ UNCHANGED <<categories, images, contended>>

\* setRelatedProducts: syncRelated alone, without looking at the product first.
RelatedSet(p, x, related) ==
    /\ products[x] # NoRow
    /\ Begin(p, [at |-> "product.unrelate", id |-> x, related |-> related])
    /\ UNCHANGED catalogueVars

\* delete: findOne and the count of order items.
ProductDelete(p, x) ==
    /\ Found(products, x)
    /\ ~products[x].ordered
    /\ Begin(p, [at |-> "product.delete", id |-> x])
    /\ UNCHANGED catalogueVars

\* delete: the row and its images in one transaction.
ProductDeleteWrite(p) ==
    /\ At(p, "product.delete")
    /\ products' = [products EXCEPT ![calls[p].id].deleted = TRUE]
    /\ images' = [i \in Picture |->
           IF images[i] # NoImage /\ images[i].of = calls[p].id
           THEN [images[i] EXCEPT !.deleted = TRUE] ELSE images[i]]
    /\ Return(p)
    /\ UNCHANGED <<categories, contended>>

\* updateStock, toggleActive: the row is read, a field written by id later.
ProductStock(p, x, n) ==
    /\ Found(products, x)
    /\ Begin(p, [at |-> "product.field", id |-> x, field |-> [stock |-> n]])
    /\ UNCHANGED catalogueVars

ProductToggle(p, x) ==
    /\ Found(products, x)
    /\ Begin(p, [at |-> "product.field", id |-> x, field |-> [isActive |-> ~products[x].isActive]])
    /\ UNCHANGED catalogueVars

\* addVariant, updateVariant, deleteVariant: the product (and the variant) is found, then a row
\* is written: an update by id does not bring a variant back that was deleted meanwhile.
VariantChange(p, x, v, change) ==
    /\ Found(products, x)
    /\ (v \in products[x].variants) <=> (change # "add")
    /\ Begin(p, [at |-> "product.variant", id |-> x, variant |-> v, change |-> change])
    /\ UNCHANGED catalogueVars

VariantWrite(p) ==
    /\ At(p, "product.variant")
    /\ LET c == calls[p]
       IN  products' = [products EXCEPT ![c.id].variants =
               CASE c.change = "add" -> @ \cup {c.variant}
                 [] c.change = "delete" -> @ \ {c.variant}
                 [] OTHER -> @]
    /\ Return(p)
    /\ UNCHANGED <<categories, images, contended>>

FieldWrite(p) ==
    /\ At(p, "product.field")
    /\ products' = [products EXCEPT ![calls[p].id] =
           [f \in DOMAIN @ |-> IF f \in DOMAIN calls[p].field THEN calls[p].field[f] ELSE @[f]]]
    /\ Return(p)
    /\ UNCHANGED <<categories, images, contended>>

-------------------------------------------------------------------------------
(* Images                                                                  *)

ImageBegin(p, x, call) ==
    /\ Found(products, x)
    /\ Begin(p, call)
    /\ contended' = IF \E q \in Proc : AtImages(q, x) THEN contended \cup {x} ELSE contended
    /\ UNCHANGED <<products, categories, images>>

ImageAdd(p, x, isPrimary) ==
    ImageBegin(p, x, [at |-> IF isPrimary THEN "image.unset" ELSE "image.sort", id |-> x,
                      image |-> "new", isPrimary |-> isPrimary])

\* Faulty variant: the image that was primary stays so.
ImageUnsetNothing(p) ==
    /\ At(p, "image.unset")
    /\ Goto(p, [calls[p] EXCEPT !.at = IF calls[p].image = "new" THEN "image.sort" ELSE "image.primary"])
    /\ UNCHANGED catalogueVars

\* addImage, setPrimaryImage: no image of the product is primary.
ImageUnset(p) ==
    /\ At(p, "image.unset")
    /\ images' = [i \in Picture |->
           IF i \in Primaries(calls[p].id) THEN [images[i] EXCEPT !.isPrimary = FALSE] ELSE images[i]]
    /\ Goto(p, [calls[p] EXCEPT !.at = IF calls[p].image = "new" THEN "image.sort" ELSE "image.primary"])
    /\ UNCHANGED <<products, categories, contended>>

\* addImage: the last sort order is read.
ImageSort(p) ==
    /\ At(p, "image.sort")
    /\ Goto(p, [at |-> "image.insert", id |-> calls[p].id, isPrimary |-> calls[p].isPrimary,
                sortOrder |-> NextOrder(calls[p].id)])
    /\ UNCHANGED catalogueVars

ImageInsert(p) ==
    /\ At(p, "image.insert")
    /\ \E i \in Picture :
          /\ images[i] = NoImage
          /\ images' = [images EXCEPT ![i] = [of |-> calls[p].id, isPrimary |-> calls[p].isPrimary,
                                              sortOrder |-> calls[p].sortOrder, deleted |-> FALSE]]
    /\ Return(p)
    /\ UNCHANGED <<products, categories, contended>>

\* removeImage: the image is found; whether it is primary is remembered.
ImageRemove(p, x, i) ==
    /\ i \in LiveImages(x)
    /\ ImageBegin(p, x, [at |-> "image.delete", id |-> x, image |-> i,
                         isPrimary |-> images[i].isPrimary])

ImageDelete(p) ==
    /\ At(p, "image.delete")
    /\ images' = [images EXCEPT ![calls[p].image].deleted = TRUE]
    /\ IF calls[p].isPrimary THEN Goto(p, [calls[p] EXCEPT !.at = "image.next"]) ELSE Return(p)
    /\ UNCHANGED <<products, categories, contended>>

\* removeImage: the first of the images left is to be primary.
ImageNext(p) ==
    /\ At(p, "image.next")
    /\ \/ LiveImages(calls[p].id) = {} /\ Return(p)
       \/ \E i \in FirstImages(calls[p].id) :
             Goto(p, [calls[p] EXCEPT !.at = "image.primary", !.image = i])
    /\ UNCHANGED catalogueVars

\* setPrimaryImage: the image is found.
ImagePrimary(p, x, i) ==
    /\ i \in LiveImages(x)
    /\ ImageBegin(p, x, [at |-> "image.unset", id |-> x, image |-> i, isPrimary |-> TRUE])

\* removeImage, setPrimaryImage: by id, deleted meanwhile or not.
ImagePrimaryWrite(p) ==
    /\ At(p, "image.primary")
    /\ images' = [images EXCEPT ![calls[p].image].isPrimary = TRUE]
    /\ Return(p)
    /\ UNCHANGED <<products, categories, contended>>

-------------------------------------------------------------------------------
(* Categories.  A request whose display name another category has is       *)
(* refused; which names they have is not modelled, a name here stands for  *)
(* the slug a request asks for.                                            *)

CategoryCreate(p, name) ==
    /\ \E s \in FreeSlugs(categories, name, {}) : Begin(p, [at |-> "category.insert", slug |-> s])
    /\ UNCHANGED catalogueVars

CategoryInsert(p) ==
    /\ At(p, "category.insert")
    /\ LET s == calls[p].slug
       IN  \/ SlugIndexed(categories, s, {}) /\ UNCHANGED categories
           \/ /\ ~SlugIndexed(categories, s, {})
              /\ \E x \in Product :
                    /\ categories[x] = NoRow
                    /\ categories' = [categories EXCEPT ![x] =
                           [slug |-> s, isActive |-> TRUE, deleted |-> FALSE]]
    /\ Return(p)
    /\ UNCHANGED <<products, images, contended>>

CategoryUpdate(p, x, name) ==
    /\ Found(categories, x)
    /\ \E s \in FreeSlugs(categories, name, {x}) :
          Begin(p, [at |-> "category.write", id |-> x, slug |-> s])
    /\ UNCHANGED catalogueVars

CategoryWrite(p) ==
    /\ At(p, "category.write")
    /\ LET c == calls[p]
       IN  categories' = IF SlugIndexed(categories, c.slug, {c.id}) THEN categories
                         ELSE [categories EXCEPT ![c.id].slug = c.slug]
    /\ Return(p)
    /\ UNCHANGED <<products, images, contended>>

\* delete: the category must hold no product that is not deleted.
CategoryDelete(p, x) ==
    /\ Found(categories, x)
    /\ ~ \E y \in Product : Found(products, y) /\ products[y].category = x
    /\ Begin(p, [at |-> "category.field", id |-> x, field |-> [deleted |-> TRUE]])
    /\ UNCHANGED catalogueVars

CategoryToggle(p, x) ==
    /\ Found(categories, x)
    /\ Begin(p, [at |-> "category.field", id |-> x, field |-> [isActive |-> ~categories[x].isActive]])
    /\ UNCHANGED catalogueVars

CategoryFieldWrite(p) ==
    /\ At(p, "category.field")
    /\ categories' = [categories EXCEPT ![calls[p].id] =
           [f \in DOMAIN @ |-> IF f \in DOMAIN calls[p].field THEN calls[p].field[f] ELSE @[f]]]
    /\ Return(p)
    /\ UNCHANGED <<products, images, contended>>

\* A checkout orders the product (Checkout.tla).
ProductOrdered(p, x) ==
    /\ products[x] # NoRow
    /\ products[x].isActive
    /\ products' = [products EXCEPT ![x].ordered = TRUE]
    /\ Serve(p)
    /\ UNCHANGED <<categories, images, contended>>

CatalogueAbort(p) ==
    /\ Interrupt(p)
    /\ contended' = contended \cup {x \in Product : AtImages(p, x)}
    /\ UNCHANGED <<products, categories, images>>

-------------------------------------------------------------------------------

\* What the admin controller may start, by the resource it concerns.
ProductRequest(p) ==
    \E x \in Product :
        \/ ProductDelete(p, x) \/ ProductToggle(p, x)
        \/ \E n \in Stocks : ProductStock(p, x, n)
        \/ \E dto \in ProductDtos :
              \/ ProductCreate(p, dto, x) \/ RelatedSet(p, x, dto.related)
              \/ \E c \in Product : ProductUpdate(p, x, dto, c)

VariantRequest(p) ==
    \E x \in Product, v \in VariantId, change \in {"add", "update", "delete"} :
        VariantChange(p, x, v, change)

ImageRequest(p) ==
    \E x \in Product :
        \/ \E isPrimary \in BOOLEAN : ImageAdd(p, x, isPrimary)
        \/ \E i \in Picture : ImageRemove(p, x, i) \/ ImagePrimary(p, x, i)

CategoryRequest(p) ==
    \/ \E name \in Name : CategoryCreate(p, name)
    \/ \E x \in Product :
          \/ CategoryDelete(p, x) \/ CategoryToggle(p, x)
          \/ \E name \in Name : CategoryUpdate(p, x, name)

ProductStep(p) ==
    \/ ProductInsert(p) \/ ProductImages(p) \/ ProductWrite(p) \/ ProductVariants(p)
    \/ ProductNewVariants(p) \/ ProductUnrelate(p) \/ ProductRelate(p) \/ ProductDeleteWrite(p) \/ FieldWrite(p)
    \/ VariantWrite(p)

ImageStep(p) ==
    \/ ImageUnset(p) \/ ImageSort(p) \/ ImageInsert(p) \/ ImageDelete(p) \/ ImageNext(p)
    \/ ImagePrimaryWrite(p)

CategoryStep(p) == CategoryInsert(p) \/ CategoryWrite(p) \/ CategoryFieldWrite(p)

CatalogueNext ==
    \E p \in Proc :
        \/ ProductRequest(p) \/ VariantRequest(p) \/ ProductStep(p)
        \/ ImageRequest(p) \/ ImageStep(p)
        \/ CategoryRequest(p) \/ CategoryStep(p)
        \/ CatalogueAbort(p)
        \/ \E x \in Product : ProductOrdered(p, x)

CatalogueSpec == CallsInit /\ CatalogueInit /\ [][CatalogueNext]_<<callVars, catalogueVars>>

CatalogueTypeOK ==
    /\ products \in [Product -> ProductRow \cup {NoRow}]
    /\ categories \in [Product -> CategoryRow \cup {NoRow}]
    /\ images \in [Picture -> ImageRow \cup {NoImage}]
    /\ contended \subseteq Product
    /\ \A x, y \in Product : x # y =>
          /\ (Found(products, x) /\ Found(products, y)) => products[x].slug # products[y].slug
          /\ (Found(categories, x) /\ Found(categories, y)) => categories[x].slug # categories[y].slug

\* Adding, promoting and removing images one after the other, in any order, leaves a product with
\* at most one primary image.  Calls that overlap, or stop half-way, may leave several or none:
\* one unsets what is primary, and another makes its own image primary before the first does.
OnePrimary == \A x \in Product \ contended : Cardinality(Primaries(x)) <= 1

===============================================================================
