-------------------------------- MODULE Paging --------------------------------
(***************************************************************************)
(* The paginate helper every list uses: the rows are counted, the page is  *)
(* brought into range, and then the page is read in a second query, newest *)
(* id first.  A set of rows is a set of ids.                               *)
(***************************************************************************)
EXTENDS Naturals, FiniteSets

TotalPages(count, size) == (count + size - 1) \div size

\* The page asked for, or the last one; 0 when there are no rows
ClampedPage(page, count, size) ==
    IF page > TotalPages(count, size) THEN TotalPages(count, size) ELSE page

\* (page - 1) * size, and its absolute value for page 0
Skip(page, size) == IF page = 0 THEN size ELSE (page - 1) * size

\* findMany with skip and take, ordered by id descending
Newest(rows, skip, take) ==
    {r \in rows : LET place == Cardinality({q \in rows : q >= r})
                  IN  place > skip /\ place <= skip + take}

\* paginate, when count rows were counted before the page was read
Paginate(rows, count, page, size) ==
    Newest(rows, Skip(ClampedPage(page, count, size), size), size)
=============================================================================
